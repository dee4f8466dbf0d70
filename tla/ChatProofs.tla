----------------------------- MODULE ChatProofs -------------------------------
(***************************************************************************)
(* Proofs about ChatBridge, for any set of tools, any number of rounds,    *)
(* copies, cancelled waits and lost links.                                 *)
(*                                                                         *)
(* OwnAnswer, UsedOnce and NotStranded are not inductive: they rest on     *)
(* where an answer may be (Routing, Exclusive), on the numbering of the    *)
(* client's copies, so that a new one is nowhere yet (Numbered), and on    *)
(* the round the client was shown being one the tool has (Shown).          *)
(* RightRound rests besides on History: the answers of a round come after  *)
(* the client was shown it, and each round that is over has returned one.  *)
(***************************************************************************)
EXTENDS ChatBridge, Voice, Sequences, SequenceTheorems, TLAPS

\* Where the bridge keeps an answer, and for whom.
Routing ==
    /\ \A t \in Tools : results[t] # None => results[t].tool = t
    /\ future \in Answers => future.tool = waitsFor
    /\ \A t \in Tools : pending[t] = "live" <=> future = Waiting /\ waitsFor = t
    /\ future # None => waitsFor \in Tools
    /\ future = Waiting => results[waitsFor] = None

\* An answer is in one place.
Exclusive ==
    /\ \A a \in inflight : results[a.tool] # a /\ future # a
    /\ \A t \in Tools : results[t] # None => future # results[t]

\* The copies of an answer sent so far are numbered from 1.
Sent(a) == a.round \in 1..Rounds[a.tool] /\ a.copy <= sent[a.tool][a.round]
Numbered ==
    /\ \A a \in inflight : Sent(a)
    /\ \A t \in Tools : results[t] # None => Sent(results[t])
    /\ future \in Answers => Sent(future)
    /\ \A w \in returned : Sent(w.answer)

\* The client answers rounds the tool has.
Shown ==
    /\ \A t \in Tools : shown[t] <= Rounds[t] /\ shown[t] <= round[t] + 1
    /\ pc = "executing" =>
           /\ waitsFor \in Tools
           /\ future = None
           /\ shown[waitsFor] <= round[waitsFor]
           /\ round[waitsFor] < Rounds[waitsFor]

IInv == TypeOK /\ Routing /\ Exclusive /\ Numbered /\ Shown /\ OwnAnswer /\ UsedOnce /\ NothingLost

-------------------------------------------------------------------------------
\* The fields of an answer.
LEMMA AnswerFields ==
    ASSUME NEW a \in Answers
    PROVE  a.tool \in Tools /\ a.round \in Nat /\ a.copy \in Nat
<1> USE ChatAssumption
<1>1. a.round \in UNION {1..Rounds[t] : t \in Tools}
    BY DEF Answers
<1>2. PICK t \in Tools : a.round \in 1..Rounds[t]
    BY <1>1
<1>. QED
    BY <1>2 DEF Answers

\* Two answers with the same fields are the same.
LEMMA AnswerEquality ==
    ASSUME NEW a \in Answers, NEW b \in Answers,
           a.tool = b.tool, a.round = b.round, a.copy = b.copy
    PROVE  a = b
BY DEF Answers

\* The sentinels are not answers, nor equal.
LEMMA Sentinels == None \notin Answers /\ Waiting \notin Answers /\ None # Waiting
BY ChatAssumption, SentinelAssumption

\* A step that touches no answer, round or wait keeps the invariant.
LEMMA QuietStep ==
    ASSUME IInv, TypeOK',
           UNCHANGED <<resumption, round, web>>,
           pc' = "executing" => pc = "executing"
    PROVE  IInv'
<1> USE DEF IInv, resumption, web
<1>1. Routing' /\ Exclusive' /\ Shown' /\ OwnAnswer'
    BY DEF Routing, Exclusive, Shown, OwnAnswer
<1>2. Numbered'
    BY DEF Numbered, Sent
<1>3. UsedOnce' /\ NothingLost'
    BY DEF UsedOnce, NothingLost, Held
<1>. QED  BY <1>1, <1>2, <1>3

\* The connection's actions and the end of the loop leave the answers alone.
LEMMA ConnectionStep ==
    ASSUME IInv,
           Connect \/ HandleConnect \/ HandleDisconnect \/ ConnectFails \/ Disconnect \/ LoopEnds
    PROVE  IInv'
<1>1. /\ UNCHANGED <<expected, resumption, round, web, cancels>>
      /\ pc' = pc \/ pc' \in {"end", "stopped"}
    BY DEF Connect, HandleConnect, HandleDisconnect, ConnectFails, Disconnect, LoopEnds
<1>2. client' \in {"none", "connecting", "set"} /\ connected' \in BOOLEAN /\ drops' \in Nat
    <2>1. /\ client \in {"none", "connecting", "set"}
          /\ connected \in BOOLEAN
          /\ drops \in Nat /\ drops + 1 \in Nat
        BY DEF IInv, TypeOK
    <2>2. drops' = drops \/ drops' = drops + 1
        BY DEF link, Connect, HandleConnect, HandleDisconnect, ConnectFails, Disconnect, LoopEnds
    <2>3. client' = client \/ client' \in {"none", "connecting"}
        BY DEF link, Connect, HandleConnect, HandleDisconnect, ConnectFails, Disconnect, LoopEnds
    <2>4. connected' = connected \/ connected' \in BOOLEAN
        BY DEF link, Connect, HandleConnect, HandleDisconnect, ConnectFails, Disconnect, LoopEnds
    <2>. QED  BY <2>1, <2>2, <2>3, <2>4
<1>3. TypeOK'
    BY <1>1, <1>2 DEF IInv, TypeOK, resumption, web
<1>. QED  BY <1>1, <1>3, QuietStep

\* Connecting shows the client the first round of each tool.
LEMMA ConnectReturnsStep ==
    ASSUME IInv, ConnectReturns
    PROVE  IInv'
<1> USE DEF IInv, ConnectReturns, resumption
<1>1. TypeOK'
    BY ChatAssumption DEF TypeOK, link
<1>2. Routing' /\ Exclusive' /\ OwnAnswer'
    BY DEF Routing, Exclusive, OwnAnswer
<1>3. Numbered'
    BY DEF Numbered, Sent
<1>4. Shown'
    BY ChatAssumption DEF Shown, TypeOK
<1>5. UsedOnce' /\ NothingLost'
    BY DEF UsedOnce, NothingLost, Held
<1>. QED  BY <1>1, <1>2, <1>3, <1>4, <1>5

\* Registering a tool.
LEMMA EmitInterruptStep ==
    ASSUME IInv, NEW t \in Tools, EmitInterrupt(t)
    PROVE  IInv'
<1>1. TypeOK'
    BY DEF IInv, TypeOK, EmitInterrupt, link, resumption, web
<1>. QED  BY <1>1, QuietStep DEF EmitInterrupt

\* Where an answer that was sent can be.
Kept(a) == Held(a) \/ a \in lost \cup forgone \cup dropped \/ \E w \in returned : w.answer = a

\* NothingLost from one step's view: what was kept still is.
LEMMA KeptStep ==
    ASSUME TypeOK, NothingLost, UNCHANGED sent,
           \A a \in Answers : Kept(a) => Kept(a)'
    PROVE  NothingLost'
<1> SUFFICES ASSUME NEW t \in Tools, NEW r \in 1..Rounds[t], NEW c \in 1..sent[t][r]
             PROVE  Kept([tool |-> t, round |-> r, copy |-> c])'
    BY DEF NothingLost, Kept
<1> DEFINE a == [tool |-> t, round |-> r, copy |-> c]
<1>1. a \in Answers
    <2>1. sent[t][r] \in 0..MaxCopies
        BY DEF TypeOK
    <2>2. c \in 1..MaxCopies
        BY <2>1, ChatAssumption
    <2>. QED
        BY <2>2 DEF Answers
<1>2. Kept(a)
    BY DEF NothingLost, Kept
<1>. QED
    BY <1>1, <1>2

\* A wait takes its answer from results.
LEMMA WaitTakes ==
    ASSUME IInv, Wait, results[Head(expected)] # None
    PROVE  IInv'
<1> DEFINE t == Head(expected)
<1> HIDE DEF t
<1>1. /\ t \in Tools
      /\ Tail(expected) \in Seq(Tools)
      /\ results[t] \in Answers
    BY DEF IInv, TypeOK, Wait, t
<1>2. waitsFor = None /\ future = None
    BY ChatAssumption DEF IInv, Routing, Wait, Idle
<1>3. /\ expected' = Tail(expected)
      /\ waitsFor' = t
      /\ future' = results[t]
      /\ results' = [results EXCEPT ![t] = None]
      /\ pc # "executing"
      /\ UNCHANGED <<link, pending, returned, lost, forgone, pc, round, sent, shown, inflight, dropped,
                     cancels>>
    BY DEF Wait, ResultFor, AfterTaking, web, t
<1>4. TypeOK'
    BY <1>1, <1>3 DEF IInv, TypeOK, link
<1>5. /\ results[t].tool = t
      /\ \A u \in Tools : results'[u] = IF u = t THEN None ELSE results[u]
    BY <1>1, <1>3, Sentinels DEF IInv, TypeOK, Routing
<1>6. Routing'
    BY <1>1, <1>2, <1>3, <1>5, Sentinels, ChatAssumption DEF IInv, Routing
<1>7. Exclusive'
    <2>1. \A a \in inflight : a.tool \in Tools
        BY AnswerFields DEF IInv, TypeOK
    <2>2. \A a \in inflight : results'[a.tool] # a /\ results[t] # a
        BY <1>1, <1>5, <2>1, Sentinels DEF IInv, Exclusive, TypeOK
    <2>3. \A u \in Tools : results'[u] # None => results[t] # results'[u]
        BY <1>1, <1>5 DEF IInv, Routing
    <2>. QED  BY <1>3, <2>2, <2>3 DEF Exclusive
<1>8. Numbered'
    <2>1. \A a : Sent(a)' <=> Sent(a)
        BY <1>3 DEF Sent
    <2>2. Sent(results[t])
        BY <1>1, <1>3, Sentinels DEF IInv, Numbered
    <2>. QED  BY <1>1, <1>3, <1>5, <2>1, <2>2 DEF IInv, Numbered
<1>9. Shown' /\ OwnAnswer'
    BY <1>3 DEF IInv, Shown, OwnAnswer
<1>10. UsedOnce'
    <2>1. \A w \in returned : w.answer \in Answers /\ w.answer.tool \in Tools
        BY AnswerFields DEF IInv, TypeOK
    <2>2. \A w \in returned : results[t] # w.answer
        BY <1>1, <1>5, <2>1 DEF IInv, UsedOnce, Held
    <2>3. \A w \in returned : results'[w.answer.tool] # w.answer
        BY <1>5, <2>1, Sentinels DEF IInv, UsedOnce, Held
    <2>. QED  BY <1>3, <2>2, <2>3 DEF IInv, UsedOnce, Held
<1>11. NothingLost'
    <2>1. \A a \in Answers : Kept(a) => Kept(a)'
        BY <1>1, <1>2, <1>3, <1>5, AnswerFields, Sentinels DEF Kept, Held
    <2>. QED  BY <1>3, <2>1, KeptStep DEF IInv
<1>. QED  BY <1>4, <1>6, <1>7, <1>8, <1>9, <1>10, <1>11 DEF IInv

\* A wait without an answer registers its future.
LEMMA WaitBlocks ==
    ASSUME IInv, Wait, results[Head(expected)] = None
    PROVE  IInv'
<1> DEFINE t == Head(expected)
<1> HIDE DEF t
<1>1. /\ t \in Tools
      /\ Tail(expected) \in Seq(Tools)
      /\ results[t] = None
    BY DEF IInv, TypeOK, Wait, t
<1>2. waitsFor = None /\ future = None
    BY ChatAssumption DEF IInv, Routing, Wait, Idle
<1>3. /\ expected' = Tail(expected)
      /\ waitsFor' = t
      /\ future' = Waiting
      /\ pending' = [pending EXCEPT ![t] = "live"]
      /\ pc # "executing"
      /\ UNCHANGED <<link, results, returned, lost, forgone, pc, round, sent, shown, inflight, dropped,
                     cancels>>
    BY DEF Wait, ResultFor, web, t
<1>4. TypeOK'
    BY <1>1, <1>3 DEF IInv, TypeOK, link
<1>5. Routing'
    <2>1. \A u \in Tools : pending'[u] = "live" <=> u = t
        BY <1>1, <1>2, <1>3, Sentinels DEF IInv, TypeOK, Routing
    <2>. QED  BY <1>1, <1>3, <2>1, Sentinels DEF IInv, Routing
<1>6. Exclusive' /\ Numbered' /\ Shown' /\ OwnAnswer'
    BY <1>1, <1>3, Sentinels DEF IInv, TypeOK, Exclusive, Numbered, Sent, Shown, OwnAnswer
<1>7. UsedOnce'
    BY <1>3, Sentinels DEF IInv, TypeOK, UsedOnce, Held
<1>8. NothingLost'
    <2>1. \A a \in Answers : Kept(a) => Kept(a)'
        BY <1>2, <1>3, Sentinels DEF Kept, Held
    <2>. QED  BY <1>3, <2>1, KeptStep DEF IInv
<1>. QED  BY <1>4, <1>5, <1>6, <1>7, <1>8 DEF IInv

\* The answer moves from the future to what was returned.
LEMMA WaitReturnsStep ==
    ASSUME IInv, WaitReturns
    PROVE  IInv'
<1> DEFINE w0 == [tool |-> waitsFor, round |-> round[waitsFor] + 1, answer |-> future]
<1>1. /\ future \in Answers /\ future # None /\ future # Waiting
      /\ waitsFor \in Tools
      /\ future.tool = waitsFor
      /\ round[waitsFor] \in Nat
    BY Sentinels DEF IInv, TypeOK, Routing, WaitReturns
<1>2. /\ returned' = returned \cup {w0}
      /\ round' = [round EXCEPT ![waitsFor] = @ + 1]
      /\ future' = None
      /\ waitsFor' \in {waitsFor, None}
      /\ pc' = "executing" => waitsFor' = waitsFor /\ round[waitsFor] + 1 < Rounds[waitsFor]
      /\ pc' \in {"executing", "loop"}
      /\ UNCHANGED <<link, expected, results, pending, lost, forgone, sent, shown, inflight, dropped, cancels>>
    BY DEF WaitReturns, web
<1>3. TypeOK'
    <2>1. w0 \in [tool : Tools, round : Nat, answer : Answers]
        BY <1>1
    <2>2. round' \in [Tools -> Nat]
        BY <1>1, <1>2 DEF IInv, TypeOK
    <2>. QED  BY <1>1, <1>2, <2>1, <2>2 DEF IInv, TypeOK, link
<1>4. Routing'
    BY <1>1, <1>2, Sentinels DEF IInv, Routing
<1>5. Exclusive'
    BY <1>2, Sentinels DEF IInv, TypeOK, Exclusive
<1>6. Numbered'
    <2>1. \A a : Sent(a)' <=> Sent(a)
        BY <1>2 DEF Sent
    <2>. QED  BY <1>1, <1>2, <2>1, Sentinels DEF IInv, Numbered
<1>7. Shown'
    <2>1. \A t \in Tools : round'[t] \in Nat /\ round[t] \in Nat /\ round'[t] >= round[t]
        BY <1>1, <1>2 DEF IInv, TypeOK
    <2>2. \A t \in Tools : shown'[t] <= Rounds[t] /\ shown'[t] <= round'[t] + 1
        BY <1>2, <2>1 DEF IInv, TypeOK, Shown
    <2>3. ASSUME pc' = "executing"
          PROVE  /\ waitsFor' \in Tools
                 /\ shown'[waitsFor'] <= round'[waitsFor']
                 /\ round'[waitsFor'] < Rounds[waitsFor']
        BY <1>1, <1>2, <2>3 DEF IInv, TypeOK, Shown
    <2>. QED  BY <1>2, <2>2, <2>3 DEF Shown
<1>8. OwnAnswer'
    BY <1>1, <1>2 DEF IInv, OwnAnswer
<1>9. UsedOnce'
    <2>1. \A w \in returned : w.answer # future
        BY DEF IInv, UsedOnce, Held
    <2>2. ~(future \in inflight) /\ results[future.tool] # future
        BY <1>1 DEF IInv, Exclusive
    <2>3. \A w \in returned : w.answer \in Answers
        BY DEF IInv, TypeOK
    <2>. QED  BY <1>1, <1>2, <2>1, <2>2, <2>3, Sentinels DEF IInv, UsedOnce, Held
<1>10. NothingLost'
    <2>1. w0 \in returned' /\ w0.answer = future
        BY <1>2
    <2>2. \A a \in Answers : Kept(a) => Kept(a)'
        BY <1>2, <2>1 DEF Kept, Held
    <2>. QED  BY <1>2, <2>2, KeptStep DEF IInv
<1>. QED  BY <1>3, <1>4, <1>5, <1>6, <1>7, <1>8, <1>9, <1>10 DEF IInv

\* Executing starts the tool's next round.
LEMMA EmitExecutingStep ==
    ASSUME IInv, EmitExecuting
    PROVE  IInv'
<1>1. /\ waitsFor \in Tools /\ future = None
      /\ shown \in [Tools -> Nat]
      /\ shown[waitsFor] \in Nat /\ round[waitsFor] \in Nat /\ Rounds[waitsFor] \in Nat
      /\ shown[waitsFor] <= round[waitsFor] /\ round[waitsFor] < Rounds[waitsFor]
    BY ChatAssumption DEF IInv, TypeOK, Shown, EmitExecuting
<1>2. /\ waitsFor' = None
      /\ shown' = [shown EXCEPT ![waitsFor] = @ + 1] \/ shown' = shown
      /\ pc' \in {"loop", "end"}
      /\ UNCHANGED <<link, expected, results, pending, future, returned, lost, forgone, round,
                     sent, inflight, dropped, cancels>>
    BY DEF EmitExecuting
<1>3. TypeOK'
    <2>1. shown' \in [Tools -> Nat]
        BY <1>1, <1>2
    <2>. QED  BY <1>2, <2>1 DEF IInv, TypeOK, link
<1>4. Routing'
    BY <1>1, <1>2, Sentinels DEF IInv, Routing
<1>5. Exclusive' /\ OwnAnswer'
    BY <1>2 DEF IInv, Exclusive, OwnAnswer
<1>6. Numbered'
    <2>1. \A a : Sent(a)' <=> Sent(a)
        BY <1>2 DEF Sent
    <2>. QED  BY <1>2, <2>1 DEF IInv, Numbered
<1>7. Shown'
    <2>1. \A t \in Tools : shown'[t] = shown[t] \/ (t = waitsFor /\ shown'[t] = shown[t] + 1)
        BY <1>1, <1>2
    <2>2. \A t \in Tools : /\ shown[t] \in Nat /\ round[t] \in Nat /\ Rounds[t] \in Nat
                            /\ shown[t] <= Rounds[t] /\ shown[t] <= round[t] + 1
        BY ChatAssumption DEF IInv, TypeOK, Shown
    <2>3. \A t \in Tools : shown'[t] <= Rounds[t] /\ shown'[t] <= round[t] + 1
        BY <1>1, <2>1, <2>2
    <2>. QED  BY <1>2, <2>3 DEF Shown
<1>8. UsedOnce'
    BY <1>2 DEF IInv, UsedOnce, Held
<1>9. NothingLost'
    BY <1>2 DEF IInv, NothingLost, Held
<1>. QED  BY <1>3, <1>4, <1>5, <1>6, <1>7, <1>8, <1>9 DEF IInv

\* A cancelled wait leaves a dead future, or loses the answer it had.
LEMMA CancelWaitStep ==
    ASSUME IInv, CancelWait
    PROVE  IInv'
<1>1. /\ future' = None /\ waitsFor' = None
      /\ pending' = [pending EXCEPT ![waitsFor] = IF @ = "live" THEN "dead" ELSE @]
      /\ forgone' = IF future \in Answers THEN forgone \cup {future} ELSE forgone
      /\ pc = "loop" /\ cancels' = cancels + 1
      /\ UNCHANGED <<link, expected, results, returned, lost, pc, round, sent, shown, inflight, dropped>>
    BY DEF CancelWait, web
<1>2. \A t \in Tools : pending'[t] \in {"none", "dead"}
    <2>1. \A t \in Tools : pending[t] = "live" => t = waitsFor
        BY DEF IInv, Routing
    <2>. QED  BY <1>1, <2>1 DEF IInv, TypeOK
<1>3. TypeOK'
    <2>1. pending' \in [Tools -> {"none", "live", "dead"}]
        BY <1>1, <1>2 DEF IInv, TypeOK
    <2>2. cancels' \in Nat /\ forgone' \subseteq Answers
        BY <1>1 DEF IInv, TypeOK
    <2>. QED  BY <1>1, <2>1, <2>2 DEF IInv, TypeOK, link
<1>4. Routing'
    BY <1>1, <1>2, Sentinels DEF IInv, Routing
<1>5. Exclusive' /\ OwnAnswer'
    BY <1>1, Sentinels DEF IInv, TypeOK, Exclusive, OwnAnswer
<1>6. Numbered'
    <2>1. \A a : Sent(a)' <=> Sent(a)
        BY <1>1 DEF Sent
    <2>. QED  BY <1>1, <2>1, Sentinels DEF IInv, Numbered
<1>7. Shown'
    BY <1>1 DEF IInv, Shown
<1>8. UsedOnce'
    BY <1>1, Sentinels DEF IInv, TypeOK, UsedOnce, Held
<1>9. NothingLost'
    <2>1. \A a \in Answers : Kept(a) => Kept(a)'
        BY <1>1 DEF Kept, Held
    <2>. QED  BY <1>1, <2>1, KeptStep DEF IInv
<1>. QED  BY <1>3, <1>4, <1>5, <1>6, <1>7, <1>8, <1>9 DEF IInv

\* A new copy has a number no other copy has, so it is nowhere yet.
LEMMA ClientAnswersStep ==
    ASSUME IInv, NEW t \in Tools, ClientAnswers(t)
    PROVE  IInv'
<1>0. PICK r, a0 : r = shown[t] /\ a0 = [tool |-> t, round |-> r, copy |-> sent[t][r] + 1]
    OBVIOUS
<1>1. /\ r \in 1..Rounds[t]
      /\ sent[t] \in [1..Rounds[t] -> 0..MaxCopies]
      /\ sent[t][r] \in Nat /\ sent[t][r] < MaxCopies
      /\ a0 \in Answers
    <2>1. r \in Nat /\ r > 0 /\ r <= Rounds[t] /\ Rounds[t] \in Nat
        BY <1>0, ChatAssumption DEF IInv, TypeOK, Shown, ClientAnswers
    <2>2. r \in 1..Rounds[t]
        BY <2>1
    <2>3. sent[t] \in [1..Rounds[t] -> 0..MaxCopies]
        BY DEF IInv, TypeOK
    <2>4. sent[t][r] \in 0..MaxCopies /\ sent[t][r] < MaxCopies
        BY <1>0, <2>2, <2>3 DEF ClientAnswers
    <2>5. sent[t][r] + 1 \in 1..MaxCopies
        BY <2>4, ChatAssumption
    <2>6. r \in UNION {1..Rounds[u] : u \in Tools}
        BY <2>2
    <2>7. a0 \in Answers
        BY <1>0, <2>5, <2>6 DEF Answers
    <2>. QED  BY <2>2, <2>3, <2>4, <2>7, ChatAssumption
<1>2. /\ sent' = [sent EXCEPT ![t][r] = @ + 1]
      /\ inflight' = inflight \cup {a0}
      /\ UNCHANGED <<link, expected, resumption, pc, round, shown, dropped, cancels>>
    BY <1>0 DEF ClientAnswers
<1>3. /\ a0.tool = t /\ a0.round = r /\ a0.copy = sent[t][r] + 1
      /\ ~Sent(a0)
    BY <1>0, <1>1 DEF Sent
<1>4. /\ \A u \in Tools : \A q \in 1..Rounds[u] :
             sent'[u][q] = IF u = t /\ q = r THEN sent[u][q] + 1 ELSE sent[u][q]
      /\ \A u \in Tools : sent'[u] \in [1..Rounds[u] -> 0..MaxCopies]
    <2>1. DOMAIN sent = Tools /\ \A u \in Tools : sent[u] \in [1..Rounds[u] -> 0..MaxCopies]
        BY DEF IInv, TypeOK
    <2>2. \A u \in Tools : sent'[u] = IF u = t THEN [sent[t] EXCEPT ![r] = sent[t][r] + 1] ELSE sent[u]
        BY <1>2, <2>1
    <2>3. sent[t][r] + 1 \in 0..MaxCopies
        BY <1>1, ChatAssumption
    <2>4. [sent[t] EXCEPT ![r] = sent[t][r] + 1] \in [1..Rounds[t] -> 0..MaxCopies]
        BY <1>1, <2>3
    <2>5. \A u \in Tools : sent'[u] \in [1..Rounds[u] -> 0..MaxCopies]
        BY <2>1, <2>2, <2>4
    <2>6. \A q \in 1..Rounds[t] : sent'[t][q] = IF q = r THEN sent[t][r] + 1 ELSE sent[t][q]
        BY <1>1, <2>2
    <2>. QED  BY <2>2, <2>5, <2>6
<1>5. TypeOK'
    <2>1. DOMAIN sent' = Tools /\ inflight' \subseteq Answers
        BY <1>1, <1>2 DEF IInv, TypeOK
    <2>. QED  BY <1>2, <1>4, <2>1 DEF IInv, TypeOK, link, resumption
<1>6. \A a \in Answers : Sent(a) => Sent(a)'
    <2>1. \A a \in Answers : a.tool \in Tools /\ a.copy \in Nat
        BY AnswerFields
    <2>2. \A u \in Tools : \A q \in 1..Rounds[u] : sent[u][q] \in Nat /\ sent'[u][q] >= sent[u][q]
        <3>1. \A u \in Tools : \A q \in 1..Rounds[u] : sent[u][q] \in 0..MaxCopies
            BY DEF IInv, TypeOK
        <3>. QED  BY <1>4, <3>1, ChatAssumption
    <2>3. \A u \in Tools : \A q \in 1..Rounds[u] : sent'[u][q] \in Nat
        BY <1>4, ChatAssumption
    <2>. QED  BY <2>1, <2>2, <2>3 DEF Sent
<1>7. Sent(a0)'
    BY <1>1, <1>3, <1>4 DEF Sent
<1>8. /\ \A u \in Tools : results[u] # None => results[u] \in Answers /\ results[u] # a0
      /\ future # a0
      /\ \A w \in returned : w.answer \in Answers /\ w.answer # a0
    <2>1. \A u \in Tools : results[u] # None => results[u] \in Answers /\ results[u] # a0
        BY <1>3 DEF IInv, TypeOK, Numbered
    <2>2. future # a0
        BY <1>1, <1>3 DEF IInv, Numbered
    <2>3. \A w \in returned : w.answer \in Answers /\ w.answer # a0
        BY <1>3 DEF IInv, TypeOK, Numbered
    <2>. QED  BY <2>1, <2>2, <2>3
<1>9. Routing'
    BY <1>2 DEF IInv, Routing, resumption
<1>10. Exclusive'
    BY <1>1, <1>2, <1>3, <1>8, Sentinels DEF IInv, Exclusive, resumption
<1>11. Numbered'
    <2>1. \A a \in inflight' : Sent(a)'
        <3>1. \A a \in inflight : Sent(a) /\ a \in Answers
            BY DEF IInv, TypeOK, Numbered
        <3>. QED  BY <1>2, <1>6, <1>7, <3>1
    <2>2. /\ \A u \in Tools : results[u] # None => Sent(results[u])'
          /\ future \in Answers => Sent(future)'
          /\ \A w \in returned : Sent(w.answer)'
        <3>1. /\ \A u \in Tools : results[u] # None => Sent(results[u])
              /\ future \in Answers => Sent(future)
              /\ \A w \in returned : Sent(w.answer)
            BY DEF IInv, Numbered
        <3>. QED  BY <1>2, <1>6, <1>8, <3>1 DEF resumption
    <2>. QED  BY <1>2, <2>1, <2>2 DEF Numbered, resumption
<1>12. Shown' /\ OwnAnswer'
    BY <1>2 DEF IInv, Shown, OwnAnswer, resumption
<1>13. UsedOnce'
    BY <1>2, <1>8 DEF IInv, UsedOnce, Held, resumption
<1>14. NothingLost'
    <2> SUFFICES ASSUME NEW u \in Tools, NEW q \in 1..Rounds[u], NEW c \in 1..sent'[u][q]
                 PROVE  Kept([tool |-> u, round |-> q, copy |-> c])'
        BY DEF NothingLost, Kept
    <2> DEFINE a == [tool |-> u, round |-> q, copy |-> c]
    <2>1. CASE c \in 1..sent[u][q]
        <3>1. Kept(a)
            BY <2>1 DEF IInv, NothingLost, Kept
        <3>. QED  BY <1>2, <3>1 DEF Kept, Held, resumption
    <2>2. CASE c \notin 1..sent[u][q]
        <3>1. sent[u][q] \in 0..MaxCopies /\ sent[u][q] \in Nat
            BY ChatAssumption DEF IInv, TypeOK
        <3>2. u = t /\ q = r /\ c = sent[t][r] + 1
            BY <1>1, <1>4, <2>2, <3>1
        <3>3. a = a0
            BY <1>0, <3>2
        <3>. QED  BY <1>2, <3>3 DEF Kept, Held
    <2>. QED  BY <2>1, <2>2
<1>. QED  BY <1>5, <1>9, <1>10, <1>11, <1>12, <1>13, <1>14 DEF IInv

\* An answer goes to the live future of its tool, or to results over the one
\* stored there.
LEMMA HandleConversationEventStep ==
    ASSUME IInv, NEW a \in inflight, HandleConversationEvent(a)
    PROVE  IInv'
<1> DEFINE t == a.tool
<1>1. a \in Answers /\ t \in Tools /\ Sent(a) /\ results[t] # a /\ future # a
    BY AnswerFields DEF IInv, TypeOK, Numbered, Exclusive
<1>2. /\ inflight' = inflight \ {a}
      /\ pending' = [pending EXCEPT ![t] = "none"]
      /\ UNCHANGED <<link, expected, waitsFor, returned, forgone, pc, round, sent, shown, dropped,
                     cancels>>
    BY DEF HandleConversationEvent, Popped
<1>3. \A b : Sent(b)' <=> Sent(b)
    BY <1>2 DEF Sent
<1>4. \A w \in returned : w.answer # a /\ w.answer \in Answers
    BY DEF IInv, TypeOK, UsedOnce, Held
<1>5. \A u \in Tools : pending'[u] = IF u = t THEN "none" ELSE pending[u]
    BY <1>1, <1>2 DEF IInv, TypeOK
<1>6. inflight' \subseteq Answers /\ pending' \in [Tools -> {"none", "live", "dead"}]
    BY <1>1, <1>2 DEF IInv, TypeOK
<1> HIDE DEF t
<1>7. CASE pending[t] = "live"
    <2>1. future' = a /\ results' = results /\ lost' = lost
        BY <1>7 DEF HandleConversationEvent, Resolvable, t
    <2>2. future = Waiting /\ waitsFor = t
        BY <1>1, <1>7 DEF IInv, Routing
    <2>3. TypeOK'
        BY <1>1, <1>2, <1>6, <2>1 DEF IInv, TypeOK, link
    <2>4. Routing'
        <3>1. future' # Waiting
            BY <1>1, <2>1, Sentinels
        <3>2. \A u \in Tools : pending'[u] # "live"
            BY <1>5, <2>2 DEF IInv, Routing
        <3>3. future'.tool = waitsFor'
            BY <1>2, <2>1, <2>2 DEF t
        <3>. QED  BY <1>1, <1>2, <2>1, <2>2, <3>1, <3>2, <3>3 DEF IInv, Routing
    <2>5. Exclusive'
        <3>1. \A u \in Tools : results[u] # None => results[u] # a
            BY <1>1 DEF IInv, Routing, t
        <3>. QED  BY <1>2, <2>1, <3>1 DEF IInv, Exclusive
    <2>6. Numbered'
        BY <1>1, <1>2, <1>3, <2>1 DEF IInv, Numbered
    <2>7. Shown' /\ OwnAnswer'
        <3>1. pc # "executing"
            BY <2>2, Sentinels DEF IInv, Shown
        <3>. QED  BY <1>2, <3>1 DEF IInv, Shown, OwnAnswer
    <2>8. UsedOnce'
        BY <1>2, <1>4, <2>1 DEF IInv, UsedOnce, Held
    <2>9. NothingLost'
        <3>1. \A b \in Answers : Kept(b) => Kept(b)'
            BY <1>2, <2>1, <2>2, Sentinels DEF Kept, Held
        <3>. QED  BY <1>2, <3>1, KeptStep DEF IInv
    <2>. QED  BY <2>3, <2>4, <2>5, <2>6, <2>7, <2>8, <2>9 DEF IInv
<1>8. CASE pending[t] # "live"
    <2>1. /\ future' = future
          /\ results' = [results EXCEPT ![t] = a]
          /\ lost' = IF results[t] # None THEN lost \cup {results[t]} ELSE lost
        BY <1>8 DEF HandleConversationEvent, Resolvable, Stored, t
    <2>2. \A u \in Tools : results'[u] = IF u = t THEN a ELSE results[u]
        BY <1>1, <2>1 DEF IInv, TypeOK
    <2>3. TypeOK'
        <3>1. results' \in [Tools -> Answers \cup {None}] /\ lost' \subseteq Answers
            BY <1>1, <2>1 DEF IInv, TypeOK
        <3>. QED  BY <1>2, <1>6, <2>1, <3>1 DEF IInv, TypeOK, link
    <2>4. Routing'
        <3>1. future = Waiting => waitsFor # t
            BY <1>1, <1>8 DEF IInv, Routing
        <3>2. \A u \in Tools : pending'[u] = "live" <=> future' = Waiting /\ waitsFor' = u
            BY <1>2, <1>5, <1>8, <2>1, <3>1 DEF IInv, Routing
        <3>3. \A u \in Tools : results'[u] # None => results'[u].tool = u
            BY <2>2 DEF IInv, Routing, t
        <3>4. future' = Waiting => results'[waitsFor'] = None
            BY <1>2, <2>1, <2>2, <3>1, Sentinels DEF IInv, Routing
        <3>. QED  BY <1>2, <2>1, <3>2, <3>3, <3>4 DEF IInv, Routing
    <2>5. Exclusive'
        <3>1. \A b \in inflight : b \in Answers /\ b.tool \in Tools
            BY AnswerFields DEF IInv, TypeOK
        <3>2. \A b \in inflight' : results'[b.tool] # b /\ future' # b
            BY <1>2, <2>1, <2>2, <3>1 DEF IInv, Exclusive
        <3>3. \A u \in Tools : results'[u] # None => future' # results'[u]
            BY <1>1, <2>1, <2>2 DEF IInv, Exclusive
        <3>. QED  BY <3>2, <3>3 DEF Exclusive
    <2>6. Numbered'
        <3>1. \A u \in Tools : results'[u] # None => Sent(results'[u])
            BY <1>1, <2>2 DEF IInv, Numbered
        <3>. QED  BY <1>2, <1>3, <2>1, <3>1 DEF IInv, Numbered
    <2>7. Shown' /\ OwnAnswer'
        BY <1>2, <2>1 DEF IInv, Shown, OwnAnswer
    <2>8. UsedOnce'
        <3>1. \A w \in returned : w.answer.tool \in Tools
            BY <1>4, AnswerFields
        <3>2. \A w \in returned : ~Held(w.answer)'
            BY <1>2, <1>4, <2>1, <2>2, <3>1 DEF IInv, UsedOnce, Held
        <3>. QED  BY <1>2, <3>2 DEF IInv, UsedOnce
    <2>9. NothingLost'
        <3>1. ASSUME NEW b \in Answers, Kept(b)
              PROVE  Kept(b)'
            <4>1. b.tool \in Tools
                BY AnswerFields
            <4>2. CASE b = a
                BY <1>1, <2>2, <4>2 DEF Kept, Held, t
            <4>3. CASE b # a /\ results[b.tool] = b
                <5>1. b # None
                    BY Sentinels
                <5>. QED  BY <2>1, <2>2, <4>1, <4>3, <5>1 DEF Kept, Held
            <4>4. CASE b # a /\ results[b.tool] # b
                BY <1>2, <2>1, <3>1, <4>4 DEF Kept, Held
            <4>. QED  BY <4>2, <4>3, <4>4
        <3>. QED  BY <1>2, <3>1, KeptStep DEF IInv
    <2>. QED  BY <2>3, <2>4, <2>5, <2>6, <2>7, <2>8, <2>9 DEF IInv
<1>. QED  BY <1>7, <1>8

\* An answer that goes under with the link was under way.
LEMMA LoseAnswerStep ==
    ASSUME IInv, NEW a \in inflight, LoseAnswer(a)
    PROVE  IInv'
<1>1. /\ inflight' = inflight \ {a} /\ dropped' = dropped \cup {a} /\ a \in Answers
      /\ UNCHANGED <<link, expected, resumption, pc, round, sent, shown, cancels>>
    BY DEF IInv, TypeOK, LoseAnswer
<1>2. TypeOK'
    BY <1>1 DEF IInv, TypeOK, link, resumption
<1>3. Routing' /\ Exclusive' /\ Shown' /\ OwnAnswer'
    BY <1>1 DEF IInv, Routing, Exclusive, Shown, OwnAnswer, resumption
<1>4. Numbered'
    BY <1>1 DEF IInv, Numbered, Sent, resumption
<1>5. UsedOnce'
    BY <1>1 DEF IInv, UsedOnce, Held, resumption
<1>6. NothingLost'
    <2>1. \A b \in Answers : Kept(b) => Kept(b)'
        BY <1>1 DEF Kept, Held, resumption
    <2>. QED  BY <1>1, <2>1, KeptStep DEF IInv
<1>. QED  BY <1>2, <1>3, <1>4, <1>5, <1>6 DEF IInv

-------------------------------------------------------------------------------
\* The initial state.
LEMMA Initially == Init => IInv
<1> SUFFICES ASSUME Init PROVE IInv
    OBVIOUS
<1>1. TypeOK
    <2>1. 0 \in 0..MaxCopies
        BY ChatAssumption
    <2>2. \A t \in Tools : sent[t] = [r \in 1..Rounds[t] |-> 0]
        BY DEF Init
    <2>3. \A t \in Tools : sent[t] \in [1..Rounds[t] -> 0..MaxCopies]
        BY <2>1, <2>2
    <2>4. expected \in Seq(Tools) /\ DOMAIN sent = Tools
        BY DEF Init
    <2>5. /\ results \in [Tools -> Answers \cup {None}]
          /\ pending \in [Tools -> {"none", "live", "dead"}]
          /\ round \in [Tools -> Nat] /\ shown \in [Tools -> Nat]
        BY DEF Init
    <2>. QED  BY <2>3, <2>4, <2>5 DEF Init, TypeOK
<1>2. Routing /\ Exclusive /\ Numbered /\ OwnAnswer /\ UsedOnce
    BY Sentinels DEF Init, Routing, Exclusive, Numbered, OwnAnswer, UsedOnce
<1>3. Shown
    BY ChatAssumption DEF Init, Shown
<1>4. NothingLost
    BY DEF Init, NothingLost
<1>. QED  BY <1>1, <1>2, <1>3, <1>4 DEF IInv

\* Every step keeps the invariant.
LEMMA Preservation == IInv /\ [Next]_vars => IInv'
<1> SUFFICES ASSUME IInv, [Next]_vars PROVE IInv'
    OBVIOUS
<1>1. CASE Connect \/ HandleConnect \/ HandleDisconnect \/ ConnectFails \/ Disconnect \/ LoopEnds
    BY <1>1, ConnectionStep
<1>2. CASE ConnectReturns
    BY <1>2, ConnectReturnsStep
<1>3. CASE Wait
    BY <1>3, WaitTakes, WaitBlocks
<1>4. CASE WaitReturns
    BY <1>4, WaitReturnsStep
<1>5. CASE EmitExecuting
    BY <1>5, EmitExecutingStep
<1>6. CASE CancelWait
    BY <1>6, CancelWaitStep
<1>7. ASSUME NEW t \in Tools, EmitInterrupt(t) PROVE IInv'
    BY <1>7, EmitInterruptStep
<1>8. ASSUME NEW t \in Tools, ClientAnswers(t) PROVE IInv'
    BY <1>8, ClientAnswersStep
<1>9. ASSUME NEW a \in inflight, HandleConversationEvent(a) PROVE IInv'
    BY <1>9, HandleConversationEventStep
<1>11. ASSUME NEW a \in inflight, LoseAnswer(a) PROVE IInv'
    BY <1>11, LoseAnswerStep
<1>10. CASE UNCHANGED vars
    <2>1. TypeOK'
        BY <1>10 DEF IInv, TypeOK, vars, link, resumption, web
    <2>. QED  BY <1>10, <2>1, QuietStep DEF vars
<1>. QED
    BY <1>1, <1>2, <1>3, <1>4, <1>5, <1>6, <1>7, <1>8, <1>9, <1>10, <1>11 DEF Next, Loop

\* The inductive invariant holds in every reachable state.
THEOREM Invariance == Spec => []IInv
BY Initially, Preservation, PTL DEF Spec

\* The bridge's state has its types (TypeOK).
THEOREM TypeCorrect == Spec => []TypeOK
<1>1. IInv => TypeOK
    BY DEF IInv
<1>. QED  BY Invariance, <1>1, PTL

\* Whatever the order of answers, a wait returns an answer of its own tool
\* (wait_for_resume and _resolve_or_store_resume).
THEOREM WaitsGetTheirAnswers == Spec => []OwnAnswer
<1>1. IInv => OwnAnswer
    BY DEF IInv
<1>. QED  BY Invariance, <1>1, PTL

\* However often answers are sent, each resumes at most one wait and is gone
\* from the bridge afterwards.
THEOREM AnswersAreUsedOnce == Spec => []UsedOnce
<1>1. IInv => UsedOnce
    BY DEF IInv
<1>. QED  BY Invariance, <1>1, PTL

\* An answer is lost only to a later one of its tool, to a cancelled wait that
\* had it already, or on its way over a link that was down.
THEOREM AnswersAreKept == Spec => []NothingLost
<1>1. IInv => NothingLost
    BY DEF IInv
<1>. QED  BY Invariance, <1>1, PTL

\* A blocked wait's future is the one an answer of its tool resolves, and its
\* answer is not already stored.
THEOREM WaitsAreNotStranded == Spec => []NotStranded
<1>1. IInv => NotStranded
    BY Sentinels DEF IInv, Routing, NotStranded
<1>. QED  BY Invariance, <1>1, PTL

\* Together: each wait gets an answer of its tool, each answer one wait, and
\* none disappears in the bridge (wait_for_resume and _resolve_or_store_resume).
THEOREM AnswersAreRight == Spec => []RightAnswer
<1>1. IInv => RightAnswer
    BY DEF IInv, RightAnswer
<1>. QED  BY Invariance, <1>1, PTL

-------------------------------------------------------------------------------
\* The client answers only rounds it was shown, none before it is connected,
\* and a round that is over has returned an answer.
Starting ==
    /\ client = "connecting" => pc = "start"
    /\ pc = "start" => \A t \in Tools : shown[t] = 0
SentShown == \A t \in Tools : \A r \in 1..Rounds[t] : sent[t][r] > 0 => r <= shown[t]
EachReturned ==
    \A t \in Tools : \A r \in 1..round[t] : \E w \in returned : w.tool = t /\ w.round = r
History == Starting /\ SentShown /\ EachReturned /\ RightRound

\* The answer a wait has got is one of the round that is not over, if the client
\* answers each round of the tool once.
LEMMA FutureIsCurrent ==
    ASSUME IInv, History, future \in Answers, AnsweredOnce(waitsFor)
    PROVE  future.round = round[waitsFor] + 1
<1> DEFINE t == waitsFor
<1>1. /\ t \in Tools /\ future.tool = t /\ Sent(future)
      /\ future.copy \in 1..MaxCopies
    BY Sentinels DEF IInv, Routing, Numbered, Answers
<1>2. /\ future.round \in 1..Rounds[t]
      /\ sent[t][future.round] \in Nat
      /\ future.copy <= sent[t][future.round]
      /\ sent[t][future.round] <= 1
    BY <1>1, ChatAssumption DEF Sent, IInv, TypeOK, AnsweredOnce
<1>3. future.copy = 1 /\ sent[t][future.round] > 0
    BY <1>1, <1>2, ChatAssumption
<1>4. /\ round[t] \in Nat /\ shown[t] \in Nat /\ future.round \in Nat
      /\ future.round <= shown[t] /\ shown[t] <= round[t] + 1
    BY <1>1, <1>2, <1>3, ChatAssumption DEF IInv, TypeOK, Shown, History, SentShown
<1>5. ASSUME future.round <= round[t]
      PROVE  FALSE
    <2>1. future.round \in 1..round[t]
        BY <1>2, <1>4, <1>5, ChatAssumption
    <2>2. PICK w \in returned : w.tool = t /\ w.round = future.round
        BY <1>1, <2>1 DEF History, EachReturned
    <2>3. w.answer \in Answers /\ w.answer.tool = t /\ w.answer.round = future.round
        BY <1>1, <2>2 DEF IInv, TypeOK, OwnAnswer, History, RightRound
    <2>4. Sent(w.answer) /\ w.answer.copy \in 1..MaxCopies
        BY <2>3 DEF IInv, Numbered, Answers
    <2>5. w.answer.copy = 1
        BY <1>2, <2>3, <2>4, ChatAssumption DEF Sent
    <2>6. w.answer = future
        BY <1>1, <1>3, <2>3, <2>5, AnswerEquality
    <2>. QED  BY <2>2, <2>6 DEF IInv, UsedOnce, Held
<1>. QED  BY <1>4, <1>5

\* Returning an answer ends its round.
LEMMA ReturnsHistory ==
    ASSUME IInv, History, WaitReturns
    PROVE  History'
<1> DEFINE t == waitsFor
           w0 == [tool |-> t, round |-> round[t] + 1, answer |-> future]
<1>1. future \in Answers /\ t \in Tools /\ round \in [Tools -> Nat]
    BY Sentinels DEF IInv, TypeOK, Routing, WaitReturns
<1>2. /\ returned' = returned \cup {w0}
      /\ round' = [round EXCEPT ![t] = @ + 1]
      /\ pc' \in {"executing", "loop"}
      /\ UNCHANGED <<client, sent, shown>>
    BY DEF WaitReturns, web, link
<1>3. w0.tool = t /\ w0.round = round[t] + 1 /\ w0.answer = future
    OBVIOUS
<1> HIDE DEF t, w0
<1>4. Starting'
    <2>1. future # None /\ pc # "start" => client # "connecting"
        BY <1>1, Sentinels DEF History, Starting
    <2>2. pc # "start"
        <3>1. ASSUME pc = "start" PROVE FALSE
            <4>1. Sent(future) /\ future.tool = waitsFor /\ future.copy \in 1..MaxCopies
                BY <1>1 DEF IInv, Routing, Numbered, Answers
            <4>2. /\ future.round \in 1..Rounds[waitsFor] /\ waitsFor \in Tools
                  /\ future.copy <= sent[waitsFor][future.round]
                BY <1>1, <4>1 DEF Sent, t
            <4>3. sent[waitsFor][future.round] \in 0..MaxCopies
                BY <4>2 DEF IInv, TypeOK
            <4>4. sent[waitsFor][future.round] > 0
                BY <4>1, <4>2, <4>3, ChatAssumption
            <4>5. future.round <= shown[waitsFor] /\ shown[waitsFor] = 0
                BY <3>1, <4>2, <4>4 DEF History, SentShown, Starting
            <4>. QED  BY <4>2, <4>5, ChatAssumption
        <3>. QED  BY <3>1
    <2>. QED  BY <1>2, <2>1, <2>2, <1>1, Sentinels DEF Starting
<1>5. SentShown'
    BY <1>2 DEF History, SentShown
<1>6. EachReturned'
    <2> SUFFICES ASSUME NEW u \in Tools, NEW r \in 1..round'[u]
                 PROVE  \E w \in returned' : w.tool = u /\ w.round = r
        BY DEF EachReturned
    <2>1. round[u] \in Nat /\ round'[u] = IF u = t THEN round[t] + 1 ELSE round[u]
        BY <1>1, <1>2
    <2>2. CASE r \in 1..round[u]
        BY <1>2, <2>2 DEF History, EachReturned
    <2>3. CASE r \notin 1..round[u]
        <3>1. u = t /\ r = round[t] + 1
            BY <2>1, <2>3
        <3>. QED  BY <1>2, <1>3, <3>1
    <2>. QED  BY <2>2, <2>3
<1>7. RightRound'
    <2>1. \A u : AnsweredOnce(u)' <=> AnsweredOnce(u)
        BY <1>2 DEF AnsweredOnce
    <2>2. AnsweredOnce(t) => future.round = round[t] + 1
        BY <1>1, FutureIsCurrent DEF t
    <2>. QED  BY <1>2, <1>3, <2>1, <2>2 DEF History, RightRound
<1>. QED  BY <1>4, <1>5, <1>6, <1>7 DEF History

\* An answer is of the round shown; one more of it only makes AnsweredOnce false.
LEMMA AnswerHistory ==
    ASSUME IInv, History, NEW t \in Tools, ClientAnswers(t)
    PROVE  History'
<1>1. /\ shown[t] \in Nat /\ shown[t] > 0 /\ shown[t] \in 1..Rounds[t]
      /\ DOMAIN sent = Tools
      /\ \A u \in Tools : sent[u] \in [1..Rounds[u] -> 0..MaxCopies]
    BY ChatAssumption DEF IInv, TypeOK, Shown, ClientAnswers
<1>2. /\ sent' = [sent EXCEPT ![t][shown[t]] = @ + 1]
      /\ UNCHANGED <<client, pc, shown, returned, round>>
    BY DEF ClientAnswers, resumption, link
<1>3. \A u \in Tools : \A r \in 1..Rounds[u] :
          /\ sent[u][r] \in Nat /\ sent'[u][r] \in Nat
          /\ sent'[u][r] = sent[u][r] \/ (sent'[u][r] = sent[u][r] + 1 /\ u = t /\ r = shown[t])
    <2>1. \A u \in Tools : sent'[u] = IF u = t
                                     THEN [sent[t] EXCEPT ![shown[t]] = sent[t][shown[t]] + 1] ELSE sent[u]
        BY <1>1, <1>2
    <2>2. \A u \in Tools : \A r \in 1..Rounds[u] : sent[u][r] \in 0..MaxCopies
        BY <1>1
    <2>. QED  BY <1>1, <2>1, <2>2, ChatAssumption
<1>4. SentShown'
    <2> SUFFICES ASSUME NEW u \in Tools, NEW r \in 1..Rounds[u], sent'[u][r] > 0
                 PROVE  r <= shown[u]
        BY <1>2 DEF SentShown
    <2>1. CASE u = t /\ r = shown[t]
        BY <1>1, <2>1
    <2>2. CASE ~(u = t /\ r = shown[t])
        BY <1>3, <2>2 DEF History, SentShown
    <2>. QED  BY <2>1, <2>2
<1>5. RightRound'
    <2>1. \A u \in Tools : AnsweredOnce(u)' => AnsweredOnce(u)
        BY <1>3 DEF AnsweredOnce
    <2>2. \A w \in returned : w.tool \in Tools
        BY DEF IInv, TypeOK
    <2>. QED  BY <1>2, <2>1, <2>2 DEF History, RightRound
<1>6. Starting' /\ EachReturned'
    BY <1>2 DEF History, Starting, EachReturned
<1>. QED  BY <1>4, <1>5, <1>6 DEF History

\* Steps that answer nothing and return nothing; being shown more is harmless.
LEMMA QuietHistory ==
    ASSUME IInv, History, Starting', UNCHANGED <<sent, returned, round>>,
           \A t \in Tools : shown[t] \in Nat /\ shown'[t] \in Nat /\ shown[t] <= shown'[t]
    PROVE  History'
<1>1. SentShown'
    <2> SUFFICES ASSUME NEW t \in Tools, NEW r \in 1..Rounds[t], sent[t][r] > 0
                 PROVE  r <= shown'[t]
        BY DEF SentShown
    <2>1. r <= shown[t] /\ shown[t] \in Nat /\ shown'[t] \in Nat /\ shown[t] <= shown'[t] /\ r \in Nat
        BY ChatAssumption DEF History, SentShown
    <2>. QED  BY <2>1
<1>2. EachReturned' /\ RightRound'
    BY DEF History, EachReturned, RightRound, AnsweredOnce
<1>. QED  BY <1>1, <1>2 DEF History

\* Every step keeps the history in order.
LEMMA HistoryStep == IInv /\ History /\ [Next]_vars => History'
<1> SUFFICES ASSUME IInv, History, [Next]_vars PROVE History'
    OBVIOUS
<1>0. /\ shown \in [Tools -> Nat] /\ Starting
      /\ 1 \in Nat /\ \A n \in Nat : n + 1 \in Nat /\ n <= n + 1 /\ n <= n
    BY DEF IInv, TypeOK, History
<1>1. CASE Connect \/ HandleConnect \/ HandleDisconnect \/ ConnectFails \/ Disconnect \/ LoopEnds
    <2>1. UNCHANGED <<sent, returned, round, shown>>
        BY <1>1 DEF Connect, HandleConnect, HandleDisconnect, ConnectFails, Disconnect, LoopEnds,
                    resumption, web
    <2>2. Starting'
        BY <1>0, <1>1, <2>1 DEF Starting, Connect, HandleConnect, HandleDisconnect, ConnectFails,
                          Disconnect, LoopEnds, link
    <2>. QED  BY <1>0, <2>1, <2>2, QuietHistory
<1>2. CASE ConnectReturns
    <2>1. /\ UNCHANGED <<sent, returned, round>>
          /\ \A t \in Tools : shown[t] = 0 /\ shown'[t] = 1
          /\ Starting'
        BY <1>0, <1>2 DEF ConnectReturns, Starting, resumption
    <2>. QED  BY <2>1, QuietHistory
<1>3. CASE EmitExecuting
    <2>1. waitsFor \in Tools /\ pc = "executing"
        BY <1>3 DEF IInv, Shown, EmitExecuting
    <2>2. /\ UNCHANGED <<sent, returned, round>>
          /\ shown' = shown \/ shown' = [shown EXCEPT ![waitsFor] = @ + 1]
          /\ Starting'
        BY <1>0, <1>3, <2>1 DEF EmitExecuting, Starting, link
    <2>3. \A t \in Tools : shown[t] \in Nat /\ shown'[t] \in Nat /\ shown[t] <= shown'[t]
        BY <1>0, <2>1, <2>2
    <2>. QED  BY <2>2, <2>3, QuietHistory
<1>4. CASE \/ Wait \/ CancelWait \/ UNCHANGED vars
           \/ \E t \in Tools : EmitInterrupt(t)
           \/ \E a \in inflight : HandleConversationEvent(a) \/ LoseAnswer(a)
    <2>1. UNCHANGED <<sent, returned, round, shown, client, pc>>
        BY <1>4 DEF Wait, CancelWait, vars, EmitInterrupt, HandleConversationEvent, LoseAnswer, resumption, web, link
    <2>. QED  BY <1>0, <2>1, QuietHistory DEF Starting
<1>5. CASE WaitReturns
    BY <1>5, ReturnsHistory
<1>6. ASSUME NEW t \in Tools, ClientAnswers(t) PROVE History'
    BY <1>6, AnswerHistory
<1>. QED
    BY <1>1, <1>2, <1>3, <1>4, <1>5, <1>6 DEF Next, Loop

\* As long as the client answers each round of a tool once, a confirmation
\* never stands in for the end: the wait for a round returns that round's
\* answer (_bridge.py, wait_for_resume).
THEOREM RoundsAreRight == Spec => []RightRound
<1>1. Init => History
    BY ChatAssumption DEF Init, History, Starting, SentShown, EachReturned, RightRound
<1>2. History => RightRound
    BY DEF History
<1>. QED  BY <1>1, <1>2, HistoryStep, Initially, Preservation, PTL DEF Spec

-------------------------------------------------------------------------------
(***************************************************************************)
(* VoiceSession, for any set of tool calls and any number of lost          *)
(* connections.                                                            *)
(*                                                                         *)
(* The argument: over a connection that is never lost the inbox holds the  *)
(* calls in the order they were sent and the end of the session after      *)
(* them, so when the end is handled every call has been; the handler       *)
(* starts a task unless the session is over, and run() closes the session  *)
(* when no task is left.                                                   *)
(***************************************************************************)
\* From the drain on the session is over; when it is closed no task is left.
DrainEmpties ==
    /\ run \in {"draining", "cancelling", "closing", "returned"} => done
    /\ run \in {"closing", "returned"} => Voice!InFlight = {}

CancelledInTime ==
    /\ run = "cancelling" => timedOut
    /\ \A c \in Calls : call[c] = "cancelled" => timedOut

CallsIn(m) == IF m.type = "calls" THEN m.calls ELSE {}

\* What a connection that was never lost has delivered.
InOrder ==
    outages = 0 =>
        /\ run \in {"waiting", "draining", "cancelling", "closing"} => linked
        /\ run = "connecting" /\ ~linked => inbox = <<>> /\ ~ended /\ \A c \in Calls : call[c] = "unsent"
        /\ \A i \in 1 .. Len(inbox) : inbox[i].type \in {"calls", "ended"}
        /\ \A i \in 1 .. Len(inbox) : inbox[i].type = "ended" => i = Len(inbox) /\ ended
        /\ detail => ended /\ inbox = <<>>
        /\ \A c \in Calls : call[c] = "sent" => \E i \in 1 .. Len(inbox) : c \in CallsIn(inbox[i])

\* What becomes of calls while nothing else has ended the session.
Served ==
    outages = 0 /\ reason \in {"none", "completed"} =>
        \A c \in Calls \ refused :
            call[c] # "ignored" /\ (run # "raised" => call[c] \notin {"lost", "unsendable"})

VoiceIInv == Voice!TypeOK /\ Voice!OneOutcome /\ DrainEmpties /\ CancelledInTime /\ InOrder /\ Served

-------------------------------------------------------------------------------
LEMMA MessageCalls ==
    ASSUME NEW m \in Voice!Message
    PROVE  CallsIn(m) \subseteq Calls /\ (m.type = "calls" => m.calls \subseteq Calls)
  BY DEF Voice!Message, CallsIn

LEMMA AppendEntry ==
    ASSUME NEW S, NEW t \in Seq(S), NEW e \in S
    PROVE  /\ Append(t, e) \in Seq(S)
           /\ Len(t) \in Nat /\ Len(Append(t, e)) = Len(t) + 1
           /\ \A k \in 1 .. Len(t) : Append(t, e)[k] = t[k]
           /\ Append(t, e)[Len(t) + 1] = e
  OBVIOUS

LEMMA TailEntry ==
    ASSUME NEW S, NEW t \in Seq(S), t # <<>>
    PROVE  /\ Tail(t) \in Seq(S) /\ Head(t) = t[1] /\ Head(t) \in S
           /\ Len(t) \in Nat \ {0} /\ Len(Tail(t)) = Len(t) - 1
           /\ \A k \in 1 .. Len(t) - 1 : Tail(t)[k] = t[k + 1]
           /\ Len(t) = 1 => Tail(t) = <<>>
<1>1. /\ Tail(t) \in Seq(S) /\ Head(t) = t[1] /\ Head(t) \in S
      /\ Len(t) \in Nat \ {0} /\ Len(Tail(t)) = Len(t) - 1
      /\ \A k \in 1 .. Len(t) - 1 : Tail(t)[k] = t[k + 1]
  OBVIOUS
<1>2. Len(Tail(t)) = 0 => Tail(t) = <<>>
  BY <1>1, EmptySeq
<1> QED BY <1>1, <1>2

LEMMA MoveType ==
    ASSUME call \in [Calls -> Voice!CallStates], NEW cs, NEW to \in Voice!CallStates
    PROVE  /\ Voice!Move(cs, to) \in [Calls -> Voice!CallStates]
           /\ \A c \in Calls : Voice!Move(cs, to)[c] = IF c \in cs THEN to ELSE call[c]
  BY DEF Voice!Move

LEMMA InitInv == Voice!Init => VoiceIInv
<1> SUFFICES ASSUME Voice!Init PROVE VoiceIInv
  OBVIOUS
<1> USE DEF Voice!Init
<1>1. Voice!TypeOK
  <2>1. inbox \in Seq(Voice!Message)
    OBVIOUS
  <2>2. call \in [Calls -> Voice!CallStates]
    BY DEF Voice!CallStates
  <2>3. linked \in BOOLEAN /\ done \in BOOLEAN /\ detail \in BOOLEAN /\ ready \in BOOLEAN
        /\ ended \in BOOLEAN /\ timedOut \in BOOLEAN
    OBVIOUS
  <2> QED BY <2>1, <2>2, <2>3 DEF Voice!TypeOK
<1>2. Voice!OneOutcome /\ DrainEmpties /\ CancelledInTime /\ InOrder /\ Served
  BY DEF Voice!OneOutcome, DrainEmpties, CancelledInTime, InOrder, Served
<1> QED BY <1>1, <1>2 DEF VoiceIInv

-------------------------------------------------------------------------------
(***************************************************************************)
(* The service and the network.                                            *)
(***************************************************************************)
LEMMA SendCallsInv == ASSUME VoiceIInv, NEW batch \in SUBSET Calls, Voice!SendCalls(batch) PROVE VoiceIInv'
<1> DEFINE m == [type |-> "calls", calls |-> batch]
<1> USE DEF Voice!session, Voice!service, Voice!history
<1>1. m \in Voice!Message /\ m.type = "calls" /\ CallsIn(m) = batch
  BY DEF Voice!Message, CallsIn
<1>2. inbox' = Append(inbox, m) /\ linked /\ ready /\ ~ended /\ batch \subseteq Voice!In({"unsent"})
  BY DEF Voice!SendCalls
<1>3. UNCHANGED <<run, done, reason, detail, linked, ready, ended, outages, timedOut, refused>>
  BY DEF Voice!SendCalls
<1> HIDE DEF m
<1>4. /\ inbox' \in Seq(Voice!Message) /\ Len(inbox) \in Nat /\ Len(inbox') = Len(inbox) + 1
      /\ \A k \in 1 .. Len(inbox) : inbox'[k] = inbox[k]
      /\ inbox'[Len(inbox) + 1] = m
  BY <1>1, <1>2, AppendEntry DEF VoiceIInv, Voice!TypeOK
<1>5. /\ call' \in [Calls -> Voice!CallStates]
      /\ \A c \in Calls : call'[c] = IF c \in batch THEN "sent" ELSE call[c]
  BY MoveType DEF Voice!SendCalls, VoiceIInv, Voice!TypeOK, Voice!CallStates
<1>6. Voice!TypeOK'
  BY <1>3, <1>4, <1>5 DEF VoiceIInv, Voice!TypeOK
<1>7. Voice!OneOutcome' /\ CancelledInTime'
  BY <1>3, <1>5 DEF VoiceIInv, Voice!OneOutcome, CancelledInTime
<1>8. DrainEmpties'
  BY <1>3, <1>5 DEF VoiceIInv, DrainEmpties, Voice!InFlight, Voice!In
<1>9. InOrder'
  <2> SUFFICES ASSUME outages = 0 PROVE InOrder'
    BY <1>3 DEF InOrder
  <2>1. \A i \in 1 .. Len(inbox') : inbox'[i].type \in {"calls", "ended"}
    BY <1>1, <1>4 DEF VoiceIInv, InOrder
  <2>2. \A i \in 1 .. Len(inbox') : inbox'[i].type # "ended"
    BY <1>1, <1>2, <1>4 DEF VoiceIInv, InOrder
  <2>3. \A c \in Calls : call'[c] = "sent" => \E i \in 1 .. Len(inbox') : c \in CallsIn(inbox'[i])
    <3> SUFFICES ASSUME NEW c \in Calls, call'[c] = "sent"
                 PROVE  \E i \in 1 .. Len(inbox') : c \in CallsIn(inbox'[i])
      OBVIOUS
    <3>1. CASE c \in batch
      BY <1>1, <1>4, <3>1
    <3>2. CASE c \notin batch
      <4>1. PICK i \in 1 .. Len(inbox) : c \in CallsIn(inbox[i])
        BY <1>5, <3>2 DEF VoiceIInv, InOrder
      <4> QED BY <1>4, <4>1
    <3> QED BY <3>1, <3>2
  <2> QED BY <1>2, <1>3, <2>1, <2>2, <2>3 DEF VoiceIInv, InOrder, CallsIn
<1>10. Served'
  BY <1>3, <1>5 DEF VoiceIInv, Served
<1> QED BY <1>6, <1>7, <1>8, <1>9, <1>10 DEF VoiceIInv

LEMMA EndSessionInv == ASSUME VoiceIInv, Voice!EndSession PROVE VoiceIInv'
<1> DEFINE m == [type |-> "ended"]
<1> USE DEF Voice!session, Voice!service, Voice!history
<1>1. m \in Voice!Message /\ m.type = "ended"
  BY DEF Voice!Message
<1>2. inbox' = Append(inbox, m) /\ linked /\ ready /\ ~ended /\ ended'
  BY DEF Voice!EndSession
<1>3. UNCHANGED <<run, done, reason, detail, linked, ready, call, outages, timedOut, refused>>
  BY DEF Voice!EndSession
<1> HIDE DEF m
<1>4. /\ inbox' \in Seq(Voice!Message) /\ Len(inbox) \in Nat /\ Len(inbox') = Len(inbox) + 1
      /\ \A k \in 1 .. Len(inbox) : inbox'[k] = inbox[k]
      /\ inbox'[Len(inbox) + 1] = m
  BY <1>1, <1>2, AppendEntry DEF VoiceIInv, Voice!TypeOK
<1>5. ended' \in BOOLEAN
  BY DEF Voice!EndSession
<1>6. Voice!TypeOK'
  BY <1>3, <1>4, <1>5 DEF VoiceIInv, Voice!TypeOK
<1>7. Voice!OneOutcome' /\ CancelledInTime' /\ Served'
  BY <1>3 DEF VoiceIInv, Voice!OneOutcome, CancelledInTime, Served
<1>8. DrainEmpties'
  BY <1>3 DEF VoiceIInv, DrainEmpties, Voice!InFlight, Voice!In
<1>9. InOrder'
  <2> SUFFICES ASSUME outages = 0 PROVE InOrder'
    BY <1>3 DEF InOrder
  <2>1. \A i \in 1 .. Len(inbox) : inbox[i].type = "calls"
    BY <1>2 DEF VoiceIInv, InOrder
  <2>2. \A i \in 1 .. Len(inbox') : inbox'[i].type \in {"calls", "ended"}
    BY <1>1, <1>4, <2>1
  <2>3. \A i \in 1 .. Len(inbox') : inbox'[i].type = "ended" => i = Len(inbox')
    BY <1>1, <1>4, <2>1
  <2>4. \A c \in Calls : call'[c] = "sent" => \E i \in 1 .. Len(inbox') : c \in CallsIn(inbox'[i])
    <3> SUFFICES ASSUME NEW c \in Calls, call[c] = "sent"
                 PROVE  \E i \in 1 .. Len(inbox') : c \in CallsIn(inbox'[i])
      BY <1>3
    <3>1. PICK i \in 1 .. Len(inbox) : c \in CallsIn(inbox[i])
      BY DEF VoiceIInv, InOrder
    <3> QED BY <1>4, <3>1
  <2> QED BY <1>2, <1>3, <2>2, <2>3, <2>4 DEF VoiceIInv, InOrder, CallsIn
<1> QED BY <1>6, <1>7, <1>8, <1>9 DEF VoiceIInv

LEMMA LoseInv == ASSUME VoiceIInv, Voice!Lose PROVE VoiceIInv'
<1> USE DEF Voice!session, Voice!service, Voice!history
<1>1. UNCHANGED <<run, done, reason, detail, ended, timedOut, refused>> /\ outages' = outages + 1
  BY DEF Voice!Lose
<1>2. outages' \in Nat /\ outages' # 0
  BY <1>1 DEF VoiceIInv, Voice!TypeOK
<1>3. inbox' \in Seq(Voice!Message)
  <2>1. PICK n \in 0 .. Len(inbox) : inbox' = Append(SubSeq(inbox, 1, n), [type |-> "disconnect"])
    BY DEF Voice!Lose
  <2>2. SubSeq(inbox, 1, n) \in Seq(Voice!Message)
    BY SubSeqProperties DEF VoiceIInv, Voice!TypeOK
  <2>3. [type |-> "disconnect"] \in Voice!Message
    BY DEF Voice!Message
  <2> QED BY <2>1, <2>2, <2>3, AppendEntry
<1>4. PICK cs : call' = Voice!Move(cs, "lost")
  BY DEF Voice!Lose
<1>5. /\ call' \in [Calls -> Voice!CallStates]
      /\ \A c \in Calls : call'[c] \in {call[c], "lost"}
  BY <1>4, MoveType DEF VoiceIInv, Voice!TypeOK, Voice!CallStates
<1>6. Voice!TypeOK'
  BY <1>1, <1>2, <1>3, <1>5 DEF Voice!Lose, VoiceIInv, Voice!TypeOK
<1>7. Voice!OneOutcome' /\ CancelledInTime'
  BY <1>1, <1>5 DEF VoiceIInv, Voice!OneOutcome, CancelledInTime
<1>8. DrainEmpties'
  BY <1>1, <1>5 DEF VoiceIInv, DrainEmpties, Voice!InFlight, Voice!In
<1>9. InOrder' /\ Served'
  BY <1>2 DEF InOrder, Served
<1> QED BY <1>6, <1>7, <1>8, <1>9 DEF VoiceIInv

LEMMA ReconnectInv == ASSUME VoiceIInv, Voice!Reconnect PROVE VoiceIInv'
<1> USE DEF Voice!session, Voice!service, Voice!history
<1>1. /\ UNCHANGED <<run, done, reason, detail, call, ready, ended, outages, timedOut, refused>>
      /\ linked' = TRUE /\ outages # 0
  BY DEF Voice!Reconnect, VoiceIInv, InOrder
<1>2. inbox' \in Seq(Voice!Message)
  <2>1. [type |-> "connect"] \in Voice!Message
    BY DEF Voice!Message
  <2> QED BY <2>1, AppendEntry DEF Voice!Reconnect, VoiceIInv, Voice!TypeOK
<1>3. Voice!TypeOK'
  BY <1>1, <1>2 DEF VoiceIInv, Voice!TypeOK
<1>4. Voice!OneOutcome' /\ CancelledInTime' /\ DrainEmpties'
  BY <1>1 DEF VoiceIInv, Voice!OneOutcome, CancelledInTime, DrainEmpties, Voice!InFlight, Voice!In
<1>5. InOrder' /\ Served'
  BY <1>1 DEF InOrder, Served
<1> QED BY <1>3, <1>4, <1>5 DEF VoiceIInv

-------------------------------------------------------------------------------
(***************************************************************************)
(* The handlers.                                                           *)
(***************************************************************************)
\* An end that is not the service's keeps the outcome of one piece.
LEMMA FinishesOutcome ==
    ASSUME VoiceIInv, NEW r \in Voice!Reasons \ {"completed"}, Voice!Finishes(r), UNCHANGED detail
    PROVE  /\ Voice!OneOutcome' /\ done' = TRUE /\ reason' \in Voice!Reasons \cup {"none"}
           /\ reason' \in {"none", "completed"} => reason' = reason
  BY DEF Voice!Finishes, Voice!FirstReason, VoiceIInv, Voice!TypeOK, Voice!OneOutcome, Voice!Reasons

LEMMA AnnounceOutcome ==
    ASSUME VoiceIInv, Voice!Announce, UNCHANGED detail
    PROVE  /\ Voice!OneOutcome' /\ done' \in BOOLEAN /\ (done => done') /\ ready' \in BOOLEAN
           /\ reason' \in Voice!Reasons \cup {"none"}
           /\ reason' \in {"none", "completed"} => reason' = reason
<1>1. "ready_emit_failed" \in Voice!Reasons \ {"completed"}
  BY DEF Voice!Reasons
<1>2. CASE Voice!Finishes("ready_emit_failed") /\ UNCHANGED ready
  BY <1>1, <1>2, FinishesOutcome DEF VoiceIInv, Voice!TypeOK
<1>3. CASE ready' = TRUE /\ UNCHANGED <<reason, done>>
  BY <1>3 DEF VoiceIInv, Voice!TypeOK, Voice!OneOutcome
<1> QED BY <1>2, <1>3 DEF Voice!Announce

\* The message handled is the oldest; the others stay, in their order.
LEMMA Handling ==
    ASSUME VoiceIInv, NEW type, Voice!Next1(type)
    PROVE  /\ inbox # <<>> /\ Head(inbox) \in Voice!Message /\ Head(inbox) = inbox[1]
           /\ Head(inbox).type = type
           /\ inbox' \in Seq(Voice!Message) /\ Len(inbox) \in Nat \ {0} /\ Len(inbox') = Len(inbox) - 1
           /\ \A k \in 1 .. Len(inbox') : k + 1 \in 1 .. Len(inbox) /\ inbox'[k] = inbox[k + 1]
           /\ Len(inbox) = 1 => inbox' = <<>>
<1>1. inbox \in Seq(Voice!Message) /\ inbox # <<>> /\ inbox' = Tail(inbox) /\ Head(inbox).type = type
  BY DEF Voice!Next1, VoiceIInv, Voice!TypeOK
<1> QED BY <1>1, TailEntry

\* Handling a message keeps the order of the rest, when the calls in it are sent no more.
LEMMA HandlingInOrder ==
    ASSUME VoiceIInv, NEW type, Voice!Next1(type), UNCHANGED <<run, linked, ended, outages>>,
           ~detail, detail' => ended /\ inbox' = <<>>,
           \A c \in Calls : call'[c] = "sent" => call[c] = "sent" /\ c \notin CallsIn(Head(inbox))
    PROVE  InOrder'
<1> SUFFICES ASSUME outages = 0 PROVE InOrder'
  BY DEF InOrder
<1>1. ~(run = "connecting" /\ ~linked)
  BY Handling DEF VoiceIInv, InOrder
<1>2. \A i \in 1 .. Len(inbox') : inbox'[i].type \in {"calls", "ended"}
  BY Handling DEF VoiceIInv, InOrder
<1>3. \A i \in 1 .. Len(inbox') : inbox'[i].type = "ended" => i = Len(inbox') /\ ended
  <2> SUFFICES ASSUME NEW i \in 1 .. Len(inbox'), inbox'[i].type = "ended"
               PROVE  i = Len(inbox') /\ ended
    OBVIOUS
  <2>1. i + 1 \in 1 .. Len(inbox) /\ inbox[i + 1].type = "ended"
    BY Handling
  <2>2. i + 1 = Len(inbox) /\ ended
    BY <2>1 DEF VoiceIInv, InOrder
  <2> QED BY <2>2, Handling
<1>4. \A c \in Calls : call'[c] = "sent" => \E i \in 1 .. Len(inbox') : c \in CallsIn(inbox'[i])
  <2> SUFFICES ASSUME NEW c \in Calls, call'[c] = "sent"
               PROVE  \E i \in 1 .. Len(inbox') : c \in CallsIn(inbox'[i])
    OBVIOUS
  <2>1. PICK i \in 1 .. Len(inbox) : c \in CallsIn(inbox[i])
    BY DEF VoiceIInv, InOrder
  <2>2. i # 1
    BY <2>1, Handling
  <2>3. i - 1 \in 1 .. Len(inbox') /\ (i - 1) + 1 = i
    BY <2>1, <2>2, Handling
  <2>4. inbox'[i - 1] = inbox[i]
    BY <2>3, Handling
  <2> QED BY <2>1, <2>3, <2>4
<1> QED BY <1>1, <1>2, <1>3, <1>4 DEF VoiceIInv, InOrder, CallsIn

\* While the session is not over, or is over on the service's word, nothing that is in the
\* inbox has been overtaken by its end.
LEMMA NoDetailYet ==
    ASSUME VoiceIInv, inbox # <<>>, outages = 0
    PROVE  ~detail /\ (reason \in {"none", "completed"} => ~done)
  BY DEF VoiceIInv, InOrder, Voice!OneOutcome

LEMMA ConnectInv == ASSUME VoiceIInv, Voice!Connect \/ Voice!Connected PROVE VoiceIInv'
<1> USE DEF Voice!session, Voice!service, Voice!history
<1>1. CASE Voice!Connect
  <2>1. /\ run = "connecting" /\ ~linked /\ linked' = TRUE /\ Voice!Announce
        /\ UNCHANGED <<run, detail, inbox, call, ended, outages, timedOut, refused>>
    BY <1>1 DEF Voice!Connect
  <2>2. Voice!OneOutcome' /\ Voice!TypeOK'
    BY <2>1, AnnounceOutcome DEF VoiceIInv, Voice!TypeOK
  <2>3. DrainEmpties' /\ CancelledInTime'
    BY <2>1 DEF VoiceIInv, DrainEmpties, CancelledInTime
  <2>4. InOrder'
    BY <2>1 DEF VoiceIInv, InOrder, CallsIn
  <2>5. Served'
    BY <2>1, AnnounceOutcome DEF VoiceIInv, Served
  <2> QED BY <2>2, <2>3, <2>4, <2>5 DEF VoiceIInv
<1>2. CASE Voice!Connected
  <2>1. /\ run = "connecting" /\ linked /\ run' = "waiting"
        /\ UNCHANGED <<linked, inbox, call, done, reason, detail, ready, ended, outages, timedOut, refused>>
    BY <1>2 DEF Voice!Connected
  <2>2. Voice!TypeOK' /\ Voice!OneOutcome' /\ CancelledInTime'
    BY <2>1 DEF VoiceIInv, Voice!TypeOK, Voice!OneOutcome, CancelledInTime
  <2>3. DrainEmpties' /\ InOrder' /\ Served'
    BY <2>1 DEF VoiceIInv, DrainEmpties, InOrder, Served, CallsIn
  <2> QED BY <2>2, <2>3 DEF VoiceIInv
<1> QED BY <1>1, <1>2

LEMMA ConnectFailsInv == ASSUME VoiceIInv, Voice!ConnectFails PROVE VoiceIInv'
<1> USE DEF Voice!session, Voice!service, Voice!history
<1>1. /\ run' = "raised" /\ linked' = FALSE /\ ready' = FALSE /\ inbox' = <<>>
      /\ UNCHANGED <<done, reason, detail, ended, outages, timedOut, refused>>
  BY DEF Voice!ConnectFails, Voice!Disconnect
<1>2. /\ call' \in [Calls -> Voice!CallStates]
      /\ \A c \in Calls : call'[c] = IF call[c] = "sent" THEN "lost" ELSE call[c]
  BY MoveType DEF Voice!ConnectFails, Voice!Disconnect, Voice!In, VoiceIInv, Voice!TypeOK, Voice!CallStates
<1>3. Voice!TypeOK'
  <2>1. <<>> \in Seq(Voice!Message)
    OBVIOUS
  <2> QED BY <1>1, <1>2, <2>1 DEF VoiceIInv, Voice!TypeOK
<1>4. Voice!OneOutcome' /\ CancelledInTime' /\ DrainEmpties' /\ Served'
  BY <1>1, <1>2 DEF VoiceIInv, Voice!OneOutcome, CancelledInTime, DrainEmpties, Served
<1>5. InOrder'
  BY <1>1, <1>2 DEF Voice!ConnectFails, VoiceIInv, InOrder, DrainEmpties
<1> QED BY <1>3, <1>4, <1>5 DEF VoiceIInv

LEMMA HandleConnectInv == ASSUME VoiceIInv, Voice!HandleConnect PROVE VoiceIInv'
<1> USE DEF Voice!session, Voice!service, Voice!history
<1>1. /\ Voice!Next1("connect")
      /\ UNCHANGED <<run, detail, linked, call, ended, outages, timedOut, refused>>
  BY DEF Voice!HandleConnect
<1>2. /\ Voice!OneOutcome' /\ done' \in BOOLEAN /\ (done => done') /\ ready' \in BOOLEAN
      /\ reason' \in Voice!Reasons \cup {"none"}
  <2>1. "ready_emit_failed" \in Voice!Reasons \ {"completed"}
    BY DEF Voice!Reasons
  <2>2. CASE linked
    BY <1>1, <2>2, AnnounceOutcome DEF Voice!HandleConnect
  <2>3. CASE ~linked
    BY <1>1, <2>1, <2>3, FinishesOutcome DEF Voice!HandleConnect, VoiceIInv, Voice!TypeOK
  <2> QED BY <2>2, <2>3
<1>3. outages # 0
  <2>1. inbox[1].type = "connect" /\ 1 \in 1 .. Len(inbox)
    BY <1>1, Handling
  <2> QED BY <2>1 DEF VoiceIInv, InOrder
<1>4. Voice!TypeOK'
  BY <1>1, <1>2, Handling DEF VoiceIInv, Voice!TypeOK
<1>5. DrainEmpties' /\ CancelledInTime' /\ InOrder' /\ Served'
  BY <1>1, <1>2, <1>3 DEF VoiceIInv, DrainEmpties, CancelledInTime, InOrder, Served, Voice!InFlight, Voice!In
<1> QED BY <1>2, <1>4, <1>5 DEF VoiceIInv

LEMMA HandleDisconnectInv == ASSUME VoiceIInv, Voice!HandleDisconnect PROVE VoiceIInv'
<1> USE DEF Voice!session, Voice!service, Voice!history
<1>1. /\ Voice!Next1("disconnect") /\ Voice!Finishes("disconnected")
      /\ UNCHANGED <<run, detail, linked, call, ready, ended, outages, timedOut, refused>>
  BY DEF Voice!HandleDisconnect
<1>2. Voice!OneOutcome' /\ done' = TRUE /\ reason' \in Voice!Reasons \cup {"none"}
  <2>1. "disconnected" \in Voice!Reasons \ {"completed"}
    BY DEF Voice!Reasons
  <2> QED BY <1>1, <2>1, FinishesOutcome
<1>3. outages # 0
  <2>1. inbox[1].type = "disconnect" /\ 1 \in 1 .. Len(inbox)
    BY <1>1, Handling
  <2> QED BY <2>1 DEF VoiceIInv, InOrder
<1>4. Voice!TypeOK'
  BY <1>1, <1>2, Handling DEF VoiceIInv, Voice!TypeOK
<1>5. DrainEmpties' /\ CancelledInTime' /\ InOrder' /\ Served'
  BY <1>1, <1>2, <1>3 DEF VoiceIInv, DrainEmpties, CancelledInTime, InOrder, Served, Voice!InFlight, Voice!In
<1> QED BY <1>2, <1>4, <1>5 DEF VoiceIInv

LEMMA HandleToolCallInv == ASSUME VoiceIInv, Voice!HandleToolCall PROVE VoiceIInv'
<1> DEFINE batch == Head(inbox).calls
<1> USE DEF Voice!session, Voice!service, Voice!history
<1>1. /\ Voice!Next1("calls")
      /\ UNCHANGED <<run, done, reason, detail, linked, ready, ended, outages, timedOut>>
  BY DEF Voice!HandleToolCall
<1>2. batch \subseteq Calls /\ CallsIn(Head(inbox)) = batch
  BY <1>1, Handling, MessageCalls DEF CallsIn
<1>3. \/ done /\ call' = Voice!Move(batch, "ignored") /\ UNCHANGED refused
      \/ ~done /\ call' = Voice!Move(batch, "running") /\ UNCHANGED refused
      \/ ~done /\ call' = Voice!Move(batch, "ignored") /\ refused' = refused \cup batch
  BY DEF Voice!HandleToolCall
<1> HIDE DEF batch
<1>4. PICK to \in {"ignored", "running"} :
         /\ call' = Voice!Move(batch, to)
         /\ to = "running" => ~done
         /\ to = "ignored" => done \/ batch \subseteq refused'
         /\ refused \subseteq refused' /\ refused' \subseteq refused \cup batch
  BY <1>3
<1>5. /\ call' \in [Calls -> Voice!CallStates]
      /\ \A c \in Calls : call'[c] = IF c \in batch THEN to ELSE call[c]
  BY <1>4, MoveType DEF VoiceIInv, Voice!TypeOK, Voice!CallStates
<1>6. Voice!TypeOK'
  BY <1>1, <1>2, <1>4, <1>5, Handling DEF VoiceIInv, Voice!TypeOK
<1>7. Voice!OneOutcome' /\ CancelledInTime'
  BY <1>1, <1>5 DEF VoiceIInv, Voice!OneOutcome, CancelledInTime
<1>8. DrainEmpties'
  <2>1. run \in {"closing", "returned"} => done
    BY DEF VoiceIInv, DrainEmpties
  <2> QED BY <1>1, <1>4, <1>5, <2>1 DEF VoiceIInv, DrainEmpties, Voice!InFlight, Voice!In
<1>9. InOrder'
  <2>1. CASE outages = 0
    <3>1. ~detail
      BY <1>1, <2>1, Handling, NoDetailYet
    <3> QED BY <1>1, <1>2, <1>4, <1>5, <3>1, HandlingInOrder
  <2>2. CASE outages # 0
    BY <1>1, <2>2 DEF InOrder
  <2> QED BY <2>1, <2>2
<1>10. Served'
  <2> SUFFICES ASSUME outages = 0, reason \in {"none", "completed"}, NEW c \in Calls \ refused'
               PROVE  call'[c] # "ignored" /\ (run # "raised" => call'[c] \notin {"lost", "unsendable"})
    BY <1>1 DEF Served
  <2>1. ~done
    BY <1>1, Handling, NoDetailYet
  <2>2. CASE c \in batch
    BY <1>4, <1>5, <2>1, <2>2
  <2>3. CASE c \notin batch
    BY <1>4, <1>5, <2>3 DEF VoiceIInv, Served
  <2> QED BY <2>2, <2>3
<1> QED BY <1>6, <1>7, <1>8, <1>9, <1>10 DEF VoiceIInv

LEMMA HandleSessionEndedInv == ASSUME VoiceIInv, Voice!HandleSessionEnded PROVE VoiceIInv'
<1> USE DEF Voice!session, Voice!service, Voice!history
<1>1. /\ Voice!Next1("ended")
      /\ UNCHANGED <<run, linked, call, ready, ended, outages, timedOut, refused>>
  BY DEF Voice!HandleSessionEnded
<1>2. \/ ~done /\ detail' = TRUE /\ reason' = "completed" /\ done' = TRUE
      \/ done /\ UNCHANGED <<detail, reason, done>>
  BY DEF Voice!HandleSessionEnded, Voice!Finishes, Voice!FirstReason, VoiceIInv, Voice!OneOutcome, Voice!TypeOK
<1>3. Voice!TypeOK'
  BY <1>1, <1>2, Handling DEF VoiceIInv, Voice!TypeOK, Voice!Reasons
<1>4. Voice!OneOutcome'
  BY <1>2 DEF VoiceIInv, Voice!OneOutcome
<1>5. DrainEmpties' /\ CancelledInTime'
  BY <1>1, <1>2 DEF VoiceIInv, DrainEmpties, CancelledInTime, Voice!InFlight, Voice!In
<1>6. InOrder'
  <2>1. CASE outages = 0
    <3>1. ~detail /\ inbox[1].type = "ended" /\ 1 \in 1 .. Len(inbox)
      BY <1>1, <2>1, Handling, NoDetailYet
    <3>2. ended /\ Len(inbox) = 1
      BY <2>1, <3>1 DEF VoiceIInv, InOrder
    <3>3. inbox' = <<>>
      BY <1>1, <3>2, Handling
    <3>4. CallsIn(Head(inbox)) = {}
      BY <1>1, Handling DEF CallsIn
    <3> QED BY <1>1, <3>1, <3>2, <3>3, <3>4, HandlingInOrder
  <2>2. CASE outages # 0
    BY <1>1, <2>2 DEF InOrder
  <2> QED BY <2>1, <2>2
<1>7. Served'
  <2> SUFFICES ASSUME outages = 0, reason' \in {"none", "completed"} PROVE Served'
    BY <1>1 DEF Served
  <2>1. reason \in {"none", "completed"}
    BY <1>2 DEF VoiceIInv, Voice!OneOutcome, Voice!TypeOK
  <2> QED BY <1>1, <2>1 DEF VoiceIInv, Served
<1> QED BY <1>3, <1>4, <1>5, <1>6, <1>7 DEF VoiceIInv

-------------------------------------------------------------------------------
(***************************************************************************)
(* The tasks.                                                              *)
(***************************************************************************)
\* A task moves its call on; nothing else changes.
LEMMA TaskInv == ASSUME VoiceIInv, NEW c \in Calls, Voice!Task(c) PROVE VoiceIInv'
<1> USE DEF Voice!session, Voice!service, Voice!history
<1>1. UNCHANGED <<run, done, reason, detail, linked, inbox, ready, ended, outages, timedOut, refused>>
  BY DEF Voice!Task, Voice!ToolReturns, Voice!EmitResult, Voice!Cancelled
<1>2. call[c] \in {"running", "result"}
  BY DEF Voice!Task, Voice!ToolReturns, Voice!EmitResult, Voice!Cancelled, Voice!InFlight, Voice!In
<1>3. PICK to \in {"result", "answered", "unsendable", "cancelled"} :
         /\ call' = Voice!Move({c}, to)
         /\ to = "unsendable" => ~linked
         /\ to = "cancelled" => run = "cancelling"
  BY DEF Voice!Task, Voice!ToolReturns, Voice!EmitResult, Voice!Cancelled
<1>4. /\ call' \in [Calls -> Voice!CallStates]
      /\ \A d \in Calls : call'[d] = IF d \in {c} THEN to ELSE call[d]
  BY <1>3, MoveType DEF VoiceIInv, Voice!TypeOK, Voice!CallStates
<1>5. ~(run \in {"closing", "returned"})
  BY <1>2 DEF VoiceIInv, DrainEmpties, Voice!InFlight, Voice!In
<1>6. Voice!TypeOK' /\ Voice!OneOutcome'
  BY <1>1, <1>4 DEF VoiceIInv, Voice!TypeOK, Voice!OneOutcome
<1>7. DrainEmpties' /\ CancelledInTime'
  BY <1>1, <1>3, <1>4, <1>5 DEF VoiceIInv, DrainEmpties, CancelledInTime
<1>8. InOrder'
  BY <1>1, <1>2, <1>4 DEF VoiceIInv, InOrder, CallsIn
<1>9. Served'
  <2>1. outages = 0 /\ run # "raised" => linked
    BY <1>2, <1>5 DEF VoiceIInv, InOrder, Voice!TypeOK
  <2> QED BY <1>1, <1>3, <1>4, <2>1 DEF VoiceIInv, Served
<1> QED BY <1>6, <1>7, <1>8, <1>9 DEF VoiceIInv

-------------------------------------------------------------------------------
(***************************************************************************)
(* run().                                                                  *)
(***************************************************************************)
LEMMA RunInv == ASSUME VoiceIInv, Voice!WakeUp \/ Voice!DrainTimesOut \/ Voice!Drained PROVE VoiceIInv'
<1> USE DEF Voice!session, Voice!service, Voice!history
<1>1. /\ UNCHANGED <<linked, inbox, call, done, reason, detail, ready, ended, outages, refused>>
      /\ run \in {"waiting", "draining", "cancelling"} /\ run' \in {"draining", "cancelling", "closing"}
      /\ timedOut' \in BOOLEAN /\ (timedOut => timedOut')
      /\ run' = "cancelling" => timedOut'
      /\ run' = "closing" => Voice!InFlight = {}
      /\ done
  BY DEF Voice!WakeUp, Voice!DrainTimesOut, Voice!AfterTimeout, Voice!Drained, Voice!DrainedAll, VoiceIInv,
     Voice!TypeOK, DrainEmpties
<1>2. Voice!TypeOK' /\ Voice!OneOutcome'
  BY <1>1 DEF VoiceIInv, Voice!TypeOK, Voice!OneOutcome
<1>3. DrainEmpties' /\ CancelledInTime'
  BY <1>1 DEF VoiceIInv, DrainEmpties, CancelledInTime, Voice!InFlight, Voice!In
<1>4. InOrder' /\ Served'
  BY <1>1 DEF VoiceIInv, InOrder, Served, CallsIn
<1> QED BY <1>2, <1>3, <1>4 DEF VoiceIInv

LEMMA CloseInv == ASSUME VoiceIInv, Voice!Close PROVE VoiceIInv'
<1> USE DEF Voice!session, Voice!service, Voice!history
<1>1. /\ run = "closing" /\ run' = "returned" /\ linked' = FALSE /\ ready' = FALSE /\ inbox' = <<>>
      /\ UNCHANGED <<done, reason, detail, ended, outages, timedOut, refused>>
  BY DEF Voice!Close, Voice!Disconnect
<1>2. /\ call' \in [Calls -> Voice!CallStates]
      /\ \A c \in Calls : call'[c] = IF call[c] = "sent" THEN "lost" ELSE call[c]
  BY MoveType DEF Voice!Close, Voice!Disconnect, Voice!In, VoiceIInv, Voice!TypeOK, Voice!CallStates
<1>3. Voice!TypeOK'
  <2>1. <<>> \in Seq(Voice!Message)
    OBVIOUS
  <2> QED BY <1>1, <1>2, <2>1 DEF VoiceIInv, Voice!TypeOK
<1>4. Voice!OneOutcome' /\ CancelledInTime'
  BY <1>1, <1>2 DEF VoiceIInv, Voice!OneOutcome, CancelledInTime
<1>5. DrainEmpties'
  BY <1>1, <1>2 DEF VoiceIInv, DrainEmpties, Voice!InFlight, Voice!In
<1>6. InOrder'
  BY <1>1, <1>2 DEF VoiceIInv, InOrder
<1>7. Served'
  <2> SUFFICES ASSUME outages = 0, reason \in {"none", "completed"} PROVE Served'
    BY <1>1 DEF Served
  <2>1. inbox = <<>>
    BY <1>1 DEF VoiceIInv, DrainEmpties, Voice!OneOutcome, InOrder
  <2>2. \A c \in Calls : call[c] # "sent"
    BY <2>1 DEF VoiceIInv, InOrder
  <2> QED BY <1>1, <1>2, <2>2 DEF VoiceIInv, Served
<1> QED BY <1>3, <1>4, <1>5, <1>6, <1>7 DEF VoiceIInv

-------------------------------------------------------------------------------
LEMMA NextInv == VoiceIInv /\ [Voice!Next]_(Voice!vars) => VoiceIInv'
<1> SUFFICES ASSUME VoiceIInv, [Voice!Next]_(Voice!vars) PROVE VoiceIInv'
  OBVIOUS
<1>1. CASE Voice!Service
  BY <1>1, SendCallsInv, EndSessionInv DEF Voice!Service
<1>2. CASE Voice!Network
  BY <1>2, LoseInv, ReconnectInv DEF Voice!Network
<1>3. CASE Voice!Handlers
  BY <1>3, ConnectInv, ConnectFailsInv, HandleConnectInv, HandleDisconnectInv, HandleToolCallInv,
     HandleSessionEndedInv DEF Voice!Handlers
<1>4. ASSUME NEW c \in Calls, Voice!Task(c) PROVE VoiceIInv'
  BY <1>4, TaskInv
<1>5. CASE Voice!Run
  BY <1>5, RunInv, CloseInv DEF Voice!Run
<1>6. CASE UNCHANGED Voice!vars
  <2> USE <1>6 DEF Voice!vars, Voice!session, Voice!service, Voice!history, VoiceIInv
  <2>1. Voice!TypeOK' /\ Voice!OneOutcome' /\ CancelledInTime'
    BY DEF Voice!TypeOK, Voice!OneOutcome, CancelledInTime
  <2>2. DrainEmpties' /\ Served'
    BY DEF DrainEmpties, Served, Voice!InFlight, Voice!In
  <2>3. InOrder'
    BY DEF InOrder, CallsIn
  <2> QED BY <2>1, <2>2, <2>3
<1> QED BY <1>1, <1>2, <1>3, <1>4, <1>5, <1>6 DEF Voice!Next

LEMMA Invariant == Voice!Spec => []VoiceIInv
  BY InitInv, NextInv, PTL DEF Voice!Spec

-------------------------------------------------------------------------------
\* Every part of the session's state keeps its type (_voice_bridge.py).
THEOREM VoiceTypeCorrect == Voice!Spec => []Voice!TypeOK
  BY Invariant, PTL DEF VoiceIInv

\* The reason the session ended for and the service's word are of the same
\* event, whichever came first (_voice_bridge.py:137-141, 224-236).
THEOREM OutcomeIsOne == Voice!Spec => []Voice!OneOutcome
  BY Invariant, PTL DEF VoiceIInv

\* No task outlives a session that returned (_voice_bridge.py:123-129, 143-163).
THEOREM NoTaskIsLeft == Voice!Spec => []Voice!NothingLeft
<1>1. VoiceIInv => Voice!NothingLeft
  BY DEF VoiceIInv, DrainEmpties, Voice!NothingLeft
<1> QED BY <1>1, Invariant, PTL

\* A session that returned has no task left, and ended for one reason
\* (_voice_bridge.py:123-163, 224-236).
THEOREM SessionsAreOver == Voice!Spec => []OverForOneReason
  BY NoTaskIsLeft, OutcomeIsOne, PTL DEF OverForOneReason, Voice!OverForOneReason

\* A service that ends the session over a connection that was never lost has a
\* result for each of its calls, but for those it worded wrongly and those the
\* drain's timeout cut off (_voice_bridge.py:64-71, 143-222).
THEOREM CallsAreAnswered == Voice!Spec => []EveryCallAnswered
<1>1. VoiceIInv => EveryCallAnswered
  <2> SUFFICES ASSUME VoiceIInv, run = "returned", reason = "completed", outages = 0, NEW c \in Calls \ refused
               PROVE  call[c] \in {"unsent", "answered"} \/ (timedOut /\ call[c] = "cancelled")
    BY DEF EveryCallAnswered, Voice!EveryCallAnswered
  <2>1. call[c] \in Voice!CallStates
    BY DEF VoiceIInv, Voice!TypeOK
  <2>2. call[c] # "sent"
    BY DEF VoiceIInv, Voice!OneOutcome, InOrder
  <2>3. call[c] \notin {"running", "result"}
    BY DEF VoiceIInv, DrainEmpties, Voice!InFlight, Voice!In
  <2>4. call[c] \notin {"ignored", "lost", "unsendable"}
    BY DEF VoiceIInv, Served
  <2> QED BY <2>1, <2>2, <2>3, <2>4 DEF VoiceIInv, CancelledInTime, Voice!CallStates
<1> QED BY <1>1, Invariant, PTL

===============================================================================
