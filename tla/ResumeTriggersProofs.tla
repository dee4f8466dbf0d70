------------------------- MODULE ResumeTriggersProofs -------------------------
(***************************************************************************)
(* Proofs about ResumeTriggers, for any values offered and lists of any    *)
(* length.  Three parts: what the two tables make of a value (Types,       *)
(* Names); what a read computes from a trigger and the state of its work   *)
(* (AnswerOf); and the invariant, that each trigger made so far is the one *)
(* its value asks for and has its work (Made), which Covered and           *)
(* AnswerFits need of the steps before the suspension.                     *)
(***************************************************************************)
EXTENDS ResumeTriggers, SequenceTheorems, TLAPS

\* A set of rows has a first one.
LEMMA Least ==
    ASSUME NEW S \in SUBSET (1 .. 12), S # {}
    PROVE  \E k \in S : \A j \in S : k <= j
<1> DEFINE k == IF 1 \in S THEN 1 ELSE IF 2 \in S THEN 2 ELSE IF 3 \in S THEN 3 ELSE
                IF 4 \in S THEN 4 ELSE IF 5 \in S THEN 5 ELSE IF 6 \in S THEN 6 ELSE
                IF 7 \in S THEN 7 ELSE IF 8 \in S THEN 8 ELSE IF 9 \in S THEN 9 ELSE
                IF 10 \in S THEN 10 ELSE IF 11 \in S THEN 11 ELSE 12
<1>1. S \subseteq {1, 2, 3, 4, 5, 6, 7, 8, 9, 10, 11, 12}
  OBVIOUS
<1>2. k \in S
  BY <1>1
<1>3. \A j \in S : k <= j
  BY <1>1
<1> QED BY <1>2, <1>3

\* A chain of ifs takes the first row that fits, and API when none does.
LEMMA LookupTakes ==
    ASSUME NEW value, NEW table, DOMAIN table \subseteq 1 .. 12
    PROVE  \/ Hits(value, table) = {} /\ Lookup(value, table) = "API"
           \/ \E k \in Hits(value, table) :
                 /\ Lookup(value, table) = table[k].is
                 /\ \A j \in Hits(value, table) : k <= j
<1> DEFINE S == Hits(value, table)
<1>1. S \in SUBSET (1 .. 12)
  BY DEF Hits
<1>2. CASE S = {}
  BY <1>2 DEF Lookup
<1>3. CASE S # {}
  <2>1. \E k \in S : \A j \in S : k <= j
    BY <1>1, <1>3, Least
  <2>2. FirstHit(value, table) \in S /\ \A j \in S : FirstHit(value, table) <= j
    BY <2>1 DEF FirstHit
  <2> QED BY <1>3, <2>2 DEF Lookup
<1> QED BY <1>2, <1>3

\* The kind of trigger of the values with a raw form, and of a batch transform.
LEMMA Types ==
    ASSUME NEW value \in Values
    PROVE  /\ TypeOf[value] = "BATCH_RAG" => value \in {"CreateBatchTransform", "WaitBatchTransform"}
           /\ value = "CreateBatchTransform" => TypeOf[value] = "BATCH_RAG"
           /\ value \in DOMAIN Parent => TypeOf[value] \in {"TASK", "JOB", "DEEP_RAG", "INDEX_INGESTION"}
<1>1. TypeOf[value] = Lookup(value, TypeTable)
  BY DEF TypeOf
<1>2. DOMAIN TypeTable = 1 .. 9
  BY DEF TypeTable
<1>3. /\ Is(value, TypeTable[5].of) => value \in {"CreateBatchTransform", "WaitBatchTransform"}
      /\ \A k \in 1 .. 9 : TypeTable[k].is = "BATCH_RAG" => k = 5
  BY DEF TypeTable, Is, Parent
<1>4. value \in DOMAIN Parent => \E k \in 1 .. 4 : Is(value, TypeTable[k].of)
  BY DEF TypeTable, Is, Parent
<1>5. \A k \in 1 .. 4 : TypeTable[k].is \in {"TASK", "JOB", "DEEP_RAG", "INDEX_INGESTION"}
  BY DEF TypeTable
<1>6. /\ TypeTable[5].is = "BATCH_RAG" /\ Is("CreateBatchTransform", TypeTable[5].of)
      /\ \A k \in 1 .. 9 : Is("CreateBatchTransform", TypeTable[k].of) => k = 5
  BY DEF TypeTable, Is, Parent
<1>7. CASE Hits(value, TypeTable) = {} /\ TypeOf[value] = "API"
  <2>1. \A k \in 1 .. 9 : ~Is(value, TypeTable[k].of)
    BY <1>2, <1>7 DEF Hits
  <2> QED BY <1>4, <1>6, <1>7, <2>1
<1>8. CASE \E k \in Hits(value, TypeTable) :
               /\ TypeOf[value] = TypeTable[k].is
               /\ \A j \in Hits(value, TypeTable) : k <= j
  <2>1. PICK k \in Hits(value, TypeTable) :
               /\ TypeOf[value] = TypeTable[k].is
               /\ \A j \in Hits(value, TypeTable) : k <= j
    BY <1>8
  <2>2. k \in 1 .. 9 /\ Is(value, TypeTable[k].of)
    BY <1>2 DEF Hits
  <2>3. \A j \in 1 .. 9 : Is(value, TypeTable[j].of) => k <= j
    BY <1>2, <2>1 DEF Hits
  <2>4. value \in DOMAIN Parent => k \in 1 .. 4
    BY <1>4, <2>2, <2>3
  <2> QED BY <1>3, <1>5, <1>6, <2>1, <2>2, <2>4
<1>9. DOMAIN TypeTable \subseteq 1 .. 12
  BY <1>2
<1>10. \/ Hits(value, TypeTable) = {} /\ TypeOf[value] = "API"
       \/ \E k \in Hits(value, TypeTable) :
             /\ TypeOf[value] = TypeTable[k].is
             /\ \A j \in Hits(value, TypeTable) : k <= j
  BY <1>1, <1>9, LookupTakes
<1> QED BY <1>7, <1>8, <1>10

\* A trigger has the name of a raw request exactly when the value is one, or an escalation.
LEMMA Names ==
    ASSUME NEW value \in Values
    PROVE  NameOf[value] \in RawNames <=> value \in DOMAIN Parent
<1>1. NameOf[value] = Lookup(value, NameTable)
  BY DEF NameOf
<1>2. DOMAIN NameTable = 1 .. 12
  BY DEF NameTable
<1>3. \A k \in 1 .. 12 : NameTable[k].is \in RawNames <=> k \in {1, 3, 5, 7}
  BY DEF NameTable, RawNames
<1>4. \A k \in {1, 3, 5, 7} : Is(value, NameTable[k].of) => value \in DOMAIN Parent
  BY DEF NameTable, Is, Parent
<1>5. ASSUME value \in DOMAIN Parent
       PROVE  \E k \in {1, 3, 5, 7} : /\ Is(value, NameTable[k].of)
                                      /\ \A j \in 1 .. 12 : Is(value, NameTable[j].of) => k <= j
  BY <1>5 DEF NameTable, Is, Parent
<1>6. CASE Hits(value, NameTable) = {} /\ NameOf[value] = "API"
  <2>1. \A k \in 1 .. 12 : ~Is(value, NameTable[k].of)
    BY <1>2, <1>6 DEF Hits
  <2>2. value \notin DOMAIN Parent
    BY <1>5, <2>1
  <2>3. "API" \notin RawNames
    BY DEF RawNames
  <2> QED BY <1>6, <2>2, <2>3
<1>7. ASSUME NEW k \in Hits(value, NameTable), NameOf[value] = NameTable[k].is,
              \A j \in Hits(value, NameTable) : k <= j
       PROVE  NameOf[value] \in RawNames <=> value \in DOMAIN Parent
  <2>1. k \in 1 .. 12 /\ Is(value, NameTable[k].of)
    BY <1>2 DEF Hits
  <2>2. \A j \in 1 .. 12 : Is(value, NameTable[j].of) => k <= j
    BY <1>2, <1>7 DEF Hits
  <2>3. value \in DOMAIN Parent => k \in {1, 3, 5, 7}
    BY <1>5, <2>1, <2>2
  <2> QED BY <1>3, <1>4, <1>7, <2>1, <2>3
<1>8. DOMAIN NameTable \subseteq 1 .. 12
  BY <1>2
<1> QED BY <1>1, <1>6, <1>7, <1>8, LookupTakes

-------------------------------------------------------------------------------
\* Each trigger made so far is its value's, and its work is under way and known.
Made ==
    \A k \in 1 .. Len(trigger) :
        /\ trigger[k] = NewTrigger(wanted[k])
        /\ item[k] # "none"
        /\ jobKey /\ Foreign(Type(k)) => k \in saved

\* The work of the value create_trigger is at has been taken on.
Announced ==
    step = "announce" =>
        /\ run \in {"creating", "faulted"}
        /\ Child \in Siblings /\ item[Child] # "none"

Complete == run \in {"suspended", "woken", "resumed", "failed"} => Len(trigger) = Len(wanted)

IInv == TypeOK /\ Made /\ Announced /\ Complete /\ AnswerFits

\* The list of values.
LEMMA Wanted ==
    ASSUME TypeOK
    PROVE  /\ Len(wanted) \in Nat /\ Len(wanted) <= MaxSiblings
           /\ Siblings = 1 .. Len(wanted)
           /\ \A i \in Siblings : wanted[i] \in Offered /\ wanted[i] \in Values
<1>1. PICK n \in 0 .. MaxSiblings : wanted \in [1 .. n -> Offered]
  BY DEF TypeOK
<1>2. n \in Nat /\ n <= MaxSiblings
  BY TriggersAssumption
<1>3. wanted \in Seq(Offered)
  BY <1>1, <1>2, SeqDef
<1>4. DOMAIN wanted = 1 .. n /\ Len(wanted) \in Nat /\ DOMAIN wanted = 1 .. Len(wanted)
  BY <1>1, <1>3, LenProperties
<1>5. Len(wanted) = n
  BY <1>2, <1>4
<1> QED BY <1>1, <1>2, <1>4, <1>5, TriggersAssumption DEF Siblings

-------------------------------------------------------------------------------
(***************************************************************************)
(* What a read computes.                                                   *)
(***************************************************************************)
Ixp == {"IXP_EXTRACTION", "IXP_VS_ESCALATION"}
Direct == {"API", "INBOX", "TIMER"}

\* The read of a trigger with its work: what each answer says of the work and of the value.
LEMMA AnswerOf ==
    ASSUME TypeOK, Made, Len(trigger) = Len(wanted), NEW i \in Siblings
    PROVE  /\ Answer(i) \in {"data", "raw", "marker", "faulted", "error", "pending"}
           /\ Answer(i) = "error" =>
                 \/ wanted[i] = "WaitBatchTransform"
                 \/ Type(i) \in Ixp /\ item[i] = "failed"
           /\ Readable(i) /\ Answer(i) \in {"data", "raw", "marker"} =>
                 /\ Finished(i)
                 /\ Answer(i) = "raw" <=> AsksRaw(i)
                 /\ Answer(i) = "data" => item[i] = "succeeded"
                 /\ Answer(i) = "marker" => item[i] = "empty"
<1> DEFINE value == wanted[i]
<1>1. /\ value \in Values /\ i \in 1 .. Len(trigger)
      /\ item[i] \in {"none"} \cup Going \cup Ends(Type(i)) /\ item[i] # "none"
      /\ trigger[i] = NewTrigger(value) /\ Type(i) = TypeOf[value]
  BY Wanted DEF TypeOK, Made, Type
<1>2. trigger[i].name = NameOf[value] /\ trigger[i].fields = Fields(value)
  BY <1>1 DEF NewTrigger
<1>3. /\ TypeOf[value] = "BATCH_RAG" => value \in {"CreateBatchTransform", "WaitBatchTransform"}
      /\ value = "CreateBatchTransform" => TypeOf[value] = "BATCH_RAG"
      /\ value \in DOMAIN Parent => TypeOf[value] \in {"TASK", "JOB", "DEEP_RAG", "INDEX_INGESTION"}
      /\ NameOf[value] \in RawNames <=> value \in DOMAIN Parent
  BY <1>1, Types, Names
<1>4. AsksRaw(i) <=> value \in DOMAIN Parent
  BY DEF AsksRaw
<1> HIDE DEF value
<1>5. CASE Type(i) = "BATCH_RAG"
  <2>1. Ends(Type(i)) = {"succeeded", "failed"} /\ Needed(Type(i)) = {"destination_path"}
    BY <1>5 DEF Ends, Needed
  <2>2. value = "CreateBatchTransform" => Fields(value) = {"destination_path"}
    BY <1>1, <1>5 DEF Fields
  <2>3. ~AsksRaw(i)
    BY <1>1, <1>3, <1>4, <1>5
  <2>4. CASE ~(Needed(Type(i)) \subseteq trigger[i].fields)
    <3>1. Answer(i) = "error"
      BY <2>4 DEF Answer
    <3>2. value = "WaitBatchTransform"
      BY <1>1, <1>2, <1>3, <1>5, <2>1, <2>2, <2>4
    <3> QED BY <3>1, <3>2 DEF value
  <2>5. CASE Needed(Type(i)) \subseteq trigger[i].fields
    <3>1. Answer(i) = BatchAnswer(i)
      BY <1>5, <2>5 DEF Answer
    <3> QED BY <1>1, <2>1, <2>3, <3>1 DEF BatchAnswer, Finished, Going
  <2> QED BY <2>4, <2>5
<1>6. CASE Type(i) \in Ixp
  <2>1. Ends(Type(i)) = {"succeeded", "failed"} /\ Needed(Type(i)) = {"project_id", "tag"}
    BY <1>6 DEF Ends, Needed, Ixp
  <2>2. Fields(value) = {"project_id", "tag"}
    BY <1>1, <1>3, <1>6 DEF Fields, Ixp
  <2>3. ~AsksRaw(i)
    BY <1>1, <1>3, <1>4, <1>6 DEF Ixp
  <2>4. Answer(i) = IxpAnswer(i)
    BY <1>2, <1>6, <2>1, <2>2 DEF Answer, Ixp
  <2> QED BY <1>1, <1>6, <2>1, <2>3, <2>4 DEF IxpAnswer, Finished, Going, Unfinished
<1>7. CASE Type(i) \in Direct
  <2>1. Ends(Type(i)) = {"succeeded"} /\ Needed(Type(i)) = {}
    BY <1>7 DEF Ends, Needed, Direct
  <2>2. ~AsksRaw(i)
    BY <1>1, <1>3, <1>4, <1>7 DEF Direct
  <2>3. Answer(i) = "data"
    BY <1>7, <2>1 DEF Answer, Direct
  <2>4. Readable(i) => Finished(i)
    BY <1>7 DEF Readable, Direct, Fired
  <2> QED BY <1>1, <2>1, <2>2, <2>3, <2>4 DEF Finished
<1>8. CASE Type(i) \notin {"BATCH_RAG"} \cup Ixp \cup Direct
  <2>1. Ends(Type(i)) \subseteq {"succeeded", "empty"} \cup Bad /\ Needed(Type(i)) = {}
    BY <1>8 DEF Ends, Needed, Ixp, Direct, Bad
  <2>2. Answer(i) = ItemAnswer(i)
    BY <1>8, <2>1 DEF Answer, Ixp, Direct
  <2> QED BY <1>1, <1>2, <1>3, <1>4, <2>1, <2>2 DEF ItemAnswer, Finished, Going, Unfinished, Bad
<1> QED BY <1>5, <1>6, <1>7, <1>8

-------------------------------------------------------------------------------
(***************************************************************************)
(* The invariant.                                                          *)
(***************************************************************************)
LEMMA InitInv == Init => IInv
<1> SUFFICES ASSUME Init PROVE IInv
  OBVIOUS
<1>1. trigger = <<>> /\ Len(trigger) = 0 /\ trigger \in Seq({NewTrigger(value) : value \in Offered})
  BY DEF Init
<1>2. PICK n \in 0 .. MaxSiblings : wanted \in [1 .. n -> Offered]
  BY DEF Init
<1>3. wanted \in Seq(Offered)
  BY <1>2, TriggersAssumption, SeqDef
<1>4. Len(wanted) \in Nat
  BY <1>3, LenProperties
<1>5. DOMAIN item = Siblings /\ \A i \in Siblings : item[i] \in {"none"} \cup Going \cup Ends(Type(i))
  BY DEF Init, Going
<1>6. answer \in [of : 0 .. MaxSiblings, is : {"none"} \cup DOMAIN Outcome]
  BY TriggersAssumption DEF Init
<1>7. TypeOK
  BY <1>1, <1>4, <1>5, <1>6 DEF Init, TypeOK
<1>8. Made /\ Announced /\ Complete /\ AnswerFits
  BY <1>1 DEF Init, Made, Announced, Complete, AnswerFits
<1> QED BY <1>7, <1>8 DEF IInv

\* Making the trigger of the next value.
LEMMA KeepStep ==
    ASSUME IInv, run = "creating", Child \in Siblings, Keep(Child),
           UNCHANGED <<wanted, jobKey, run, tried, answer>>,
           DOMAIN item' = Siblings,
           \A i \in Siblings : item'[i] = item[i] \/ (item[i] = "none" /\ item'[i] = "working"),
           item'[Child] # "none",
           saved \subseteq saved', saved' \subseteq Siblings,
           jobKey /\ Foreign(Type(Child)) => Child \in saved'
    PROVE  IInv'
<1> DEFINE c == Child
           new == NewTrigger(wanted[c])
<1>1. /\ Len(trigger) \in Nat /\ c = Len(trigger) + 1
      /\ trigger \in Seq({NewTrigger(value) : value \in Offered})
      /\ Len(wanted) \in Nat /\ Siblings = 1 .. Len(wanted) /\ wanted[c] \in Offered
  BY Wanted DEF IInv, TypeOK, Child
<1>2. trigger' = Append(trigger, new) /\ step' = "start"
  BY DEF Keep
<1>3. new \in {NewTrigger(value) : value \in Offered}
  BY <1>1
<1> HIDE DEF new
<1>4. /\ trigger' \in Seq({NewTrigger(value) : value \in Offered})
      /\ Len(trigger') = c
      /\ \A k \in 1 .. Len(trigger) : trigger'[k] = trigger[k]
      /\ trigger'[c] = new
  BY <1>1, <1>2, <1>3
<1>5. c <= Len(wanted)
  BY <1>1
<1> HIDE DEF c
<1>6. \A i \in Siblings : item'[i] \in {"none"} \cup Going \cup Ends(Type(i))
  BY DEF IInv, TypeOK, Going
<1>7. Siblings' = Siblings /\ \A i : Type(i)' = Type(i) /\ Foreign(Type(i))' = Foreign(Type(i))
  BY DEF Siblings, Type, Foreign
<1>8. TypeOK'
  BY <1>2, <1>4, <1>5, <1>6, <1>7 DEF IInv, TypeOK
<1>9. Made'
  <2> SUFFICES ASSUME NEW k \in 1 .. Len(trigger')
               PROVE  /\ trigger'[k] = NewTrigger(wanted[k])
                      /\ item'[k] # "none"
                      /\ jobKey /\ Foreign(Type(k)) => k \in saved'
    BY <1>7 DEF Made, NewTrigger, Fields
  <2>1. CASE k = c
    BY <1>4, <2>1 DEF c, new
  <2>2. CASE k # c
    <3>1. k \in 1 .. Len(trigger) /\ k \in Siblings
      BY <1>1, <1>4, <1>5, <2>2 DEF c
    <3> QED BY <1>4, <3>1 DEF IInv, Made
  <2> QED BY <2>1, <2>2
<1>10. Announced' /\ Complete' /\ AnswerFits'
  BY <1>2 DEF Announced, Complete, AnswerFits
<1> QED BY <1>8, <1>9, <1>10 DEF IInv

\* Taking the next value on: its work is under way, and its trigger made or to be announced.
LEMMA StartWorkStep ==
    ASSUME IInv, StartWork
    PROVE  IInv'
<1>1. /\ run = "creating" /\ step = "start" /\ Child \in Siblings
      /\ item' = [item EXCEPT ![Child] = IF @ = "none" THEN "working" ELSE @]
      /\ UNCHANGED <<wanted, jobKey, run, saved, tried, answer>>
  BY DEF StartWork, TakeItem
<1>2. DOMAIN item = Siblings /\ saved \subseteq Siblings
  BY DEF IInv, TypeOK
<1>3. /\ DOMAIN item' = Siblings /\ item'[Child] # "none"
      /\ \A i \in Siblings : item'[i] = item[i] \/ (item[i] = "none" /\ item'[i] = "working")
  BY <1>1, <1>2
<1>4. CASE Announces(Child)
  <2>1. step' = "announce" /\ trigger' = trigger
    BY <1>4 DEF StartWork
  <2>2. /\ Child' = Child /\ Siblings' = Siblings
        /\ \A i : Type(i)' = Type(i)
    BY <1>1, <2>1 DEF Child, Siblings, Type
  <2>3. \A i \in Siblings : item'[i] \in {"none"} \cup Going \cup Ends(Type(i))
    BY <1>3 DEF IInv, TypeOK, Going
  <2>4. TypeOK'
    BY <1>1, <1>3, <2>1, <2>2, <2>3 DEF IInv, TypeOK
  <2>5. Made'
    <3>1. \A k \in 1 .. Len(trigger) : k \in Siblings
      BY Wanted DEF IInv, TypeOK
    <3> QED BY <1>1, <1>3, <2>1, <2>2, <3>1 DEF IInv, Made, NewTrigger, Fields
  <2>6. Announced' /\ Complete' /\ AnswerFits'
    BY <1>1, <1>3, <2>2 DEF Announced, Complete, AnswerFits
  <2> QED BY <2>4, <2>5, <2>6 DEF IInv
<1>5. CASE ~Announces(Child)
  <2>1. Keep(Child)
    BY <1>5 DEF StartWork
  <2> QED BY <1>1, <1>2, <1>3, <1>5, <2>1, KeepStep DEF Announces
<1> QED BY <1>4, <1>5

\* Telling Orchestrator of it.
LEMMA CreateExternalTriggerStep ==
    ASSUME IInv, CreateExternalTrigger
    PROVE  IInv'
<1>1. /\ run = "creating" /\ step = "announce" /\ Keep(Child)
      /\ saved' = IF jobKey THEN saved \cup {Child} ELSE saved
      /\ UNCHANGED <<wanted, jobKey, run, item, tried, answer>>
  BY DEF CreateExternalTrigger
<1>2. Child \in Siblings /\ item[Child] # "none" /\ DOMAIN item = Siblings /\ saved \subseteq Siblings
  BY <1>1 DEF IInv, TypeOK, Announced
<1> QED BY <1>1, <1>2, KeepStep

\* Steps that leave the triggers and their work alone.
LEMMA QuietStep ==
    ASSUME IInv, UNCHANGED <<wanted, jobKey, step, item, trigger, saved>>,
           run' \in {"creating", "raised", "suspended", "woken", "resumed", "failed", "faulted"},
           tried' \subseteq Siblings,
           answer' \in [of : 0 .. MaxSiblings, is : {"none"} \cup DOMAIN Outcome],
           step = "announce" => run' \in {"creating", "faulted"},
           run' \in {"suspended", "woken", "resumed", "failed"} => Len(trigger) = Len(wanted),
           AnswerFits'
    PROVE  IInv'
<1>1. Child' = Child /\ Siblings' = Siblings /\ \A i : Type(i)' = Type(i)
  BY DEF Child, Siblings, Type
<1>2. TypeOK'
  BY <1>1 DEF IInv, TypeOK
<1>3. Made' /\ Announced' /\ Complete'
  BY <1>1 DEF IInv, Made, Announced, Complete, NewTrigger, Fields
<1> QED BY <1>2, <1>3 DEF IInv

\* The work goes on by itself, never back.
LEMMA WorkStep ==
    ASSUME IInv, NEW i \in Siblings, Work(i)
    PROVE  IInv'
<1>1. /\ run \in {"creating", "suspended", "woken"} /\ item[i] \in Going
      /\ UNCHANGED <<wanted, jobKey, run, step, trigger, saved, tried, answer>>
  BY DEF Work
<1>2. PICK s \in Ends(Type(i)) \cup {"unreviewed"} : item' = [item EXCEPT ![i] = s]
  BY DEF Work
<1>3. Child' = Child /\ Siblings' = Siblings /\ \A j : Type(j)' = Type(j)
  BY <1>1 DEF Child, Siblings, Type
<1>4. DOMAIN item = Siblings /\ \A j \in Siblings : item'[j] = IF j = i THEN s ELSE item[j]
  BY <1>2 DEF IInv, TypeOK
<1>5. s # "none"
  BY DEF Ends
<1>6. TypeOK'
  <2>1. DOMAIN item' = Siblings /\ \A j \in Siblings : item'[j] \in {"none"} \cup Going \cup Ends(Type(j))
    BY <1>2, <1>4 DEF IInv, TypeOK, Going
  <2> QED BY <1>1, <1>3, <2>1 DEF IInv, TypeOK
<1>7. Made'
  <2>1. \A k \in 1 .. Len(trigger) : k \in Siblings
    BY Wanted DEF IInv, TypeOK
  <2> QED BY <1>1, <1>3, <1>4, <1>5, <2>1 DEF IInv, Made, NewTrigger, Fields
<1>8. Announced' /\ Complete' /\ AnswerFits'
  BY <1>1, <1>3, <1>4, <1>5 DEF IInv, Announced, Complete, AnswerFits
<1> QED BY <1>6, <1>7, <1>8 DEF IInv

\* A read resumes the run on what the trigger's work says.
LEMMA ReadTriggerStep ==
    ASSUME IInv, NEW i \in Siblings, ReadTrigger(i)
    PROVE  IInv'
<1>1. /\ run = "woken" /\ Readable(i) /\ tried' = tried \cup {i}
      /\ UNCHANGED <<wanted, jobKey, step, item, trigger, saved>>
  BY DEF ReadTrigger
<1>2. PICK a \in {Answer(i)} \cup Failure(i) : answer' = [of |-> i, is |-> a] /\ run' = Outcome[a]
  BY DEF ReadTrigger
<1>3. Len(trigger) = Len(wanted)
  BY <1>1 DEF IInv, Complete
<1>4. /\ Answer(i) \in {"data", "raw", "marker", "faulted", "error", "pending"}
      /\ Answer(i) \in {"data", "raw", "marker"} =>
            /\ Finished(i)
            /\ Answer(i) = "raw" <=> AsksRaw(i)
            /\ Answer(i) = "data" => item[i] = "succeeded"
            /\ Answer(i) = "marker" => item[i] = "empty"
  BY <1>1, <1>3, AnswerOf DEF IInv
<1>5. Failure(i) \subseteq {"faulted", "error"}
  BY DEF Failure
<1>6. a \in {"data", "raw", "marker", "faulted", "error", "pending"} /\ (a \notin {"faulted", "error"} => a = Answer(i))
  BY <1>4, <1>5
<1>7. /\ run' \in {"resumed", "failed", "woken"}
      /\ run' = "resumed" => a \in {"data", "raw", "marker"}
      /\ a \in DOMAIN Outcome
  BY <1>2, <1>6 DEF Outcome
<1>8. i \in 0 .. MaxSiblings
  BY Wanted, TriggersAssumption DEF IInv
<1>9. Finished(i)' = Finished(i) /\ AsksRaw(i)' = AsksRaw(i)
  BY <1>1 DEF Finished, AsksRaw
<1>10. AnswerFits'
  <2>1. ASSUME run' = "resumed"
        PROVE  /\ Finished(i)
               /\ a = "raw" <=> AsksRaw(i)
               /\ a = "data" => item[i] = "succeeded"
               /\ a = "marker" => item[i] = "empty"
    <3>1. a = Answer(i) /\ a \in {"data", "raw", "marker"}
      BY <1>6, <1>7, <2>1
    <3> QED BY <1>4, <3>1
  <2>2. answer'.of = i /\ answer'.is = a
    BY <1>2
  <2> QED BY <1>1, <1>9, <2>1, <2>2 DEF AnswerFits, Finished, AsksRaw
<1>11. step # "announce"
  BY <1>1 DEF IInv, Announced
<1>12. answer' \in [of : 0 .. MaxSiblings, is : {"none"} \cup DOMAIN Outcome]
  BY <1>2, <1>7, <1>8
<1>13. tried' \subseteq Siblings
  BY <1>1 DEF IInv, TypeOK
<1> QED BY <1>1, <1>3, <1>7, <1>10, <1>11, <1>12, <1>13, QuietStep

LEMMA NextInv == IInv /\ [Next]_vars => IInv'
<1> SUFFICES ASSUME IInv, [Next]_vars PROVE IInv'
  OBVIOUS
<1>1. CASE StartWork
  BY <1>1, StartWorkStep
<1>2. CASE CreateExternalTrigger
  BY <1>2, CreateExternalTriggerStep
<1>3. ASSUME NEW i \in Siblings, Work(i) PROVE IInv'
  BY <1>3, WorkStep
<1>4. ASSUME NEW i \in Siblings, ReadTrigger(i) PROVE IInv'
  BY <1>4, ReadTriggerStep
<1>5. CASE StartFails \/ AnnounceFails
  <2>1. /\ run' = "faulted"
        /\ UNCHANGED <<wanted, jobKey, step, item, trigger, saved, tried, answer>>
    BY <1>5 DEF StartFails, AnnounceFails, Fault
  <2>2. AnswerFits'
    BY <2>1 DEF AnswerFits
  <2> QED BY <2>1, <2>2, QuietStep DEF IInv, TypeOK
<1>6. CASE TriggersMade
  <2>1. /\ run' \in {"raised", "suspended"} /\ Child > Len(wanted) /\ run = "creating"
        /\ UNCHANGED <<wanted, jobKey, step, item, trigger, saved, tried, answer>>
    BY <1>6 DEF TriggersMade
  <2>2. Len(trigger) = Len(wanted) /\ Child \notin Siblings
    BY <2>1, Wanted DEF IInv, TypeOK, Child
  <2>3. step # "announce"
    BY <2>2 DEF IInv, Announced
  <2>4. AnswerFits'
    BY <2>1 DEF AnswerFits
  <2> QED BY <2>1, <2>2, <2>3, <2>4, QuietStep DEF IInv, TypeOK
<1>7. CASE Wake \/ SuspendAgain
  <2>1. /\ run \in {"suspended", "woken"} /\ run' \in {"suspended", "woken"}
        /\ tried' \in {tried, {}}
        /\ UNCHANGED <<wanted, jobKey, step, item, trigger, saved, answer>>
    BY <1>7 DEF Wake, SuspendAgain
  <2>2. AnswerFits' /\ step # "announce" /\ Len(trigger) = Len(wanted) /\ tried' \subseteq Siblings
    BY <2>1 DEF IInv, TypeOK, AnswerFits, Announced, Complete
  <2> QED BY <2>1, <2>2, QuietStep DEF IInv, TypeOK
<1>8. CASE UNCHANGED vars
  BY <1>8, QuietStep DEF vars, IInv, TypeOK, AnswerFits, Complete, Announced, Finished, AsksRaw
<1> QED BY <1>1, <1>2, <1>3, <1>4, <1>5, <1>6, <1>7, <1>8 DEF Next

LEMMA Invariant == Spec => []IInv
  BY InitInv, NextInv, PTL DEF Spec

-------------------------------------------------------------------------------
\* The run's state keeps its type.
THEOREM TypeCorrect == Spec => []TypeOK
  BY Invariant, PTL DEF IInv

\* A suspended run has a trigger for every value, its work under way, and Orchestrator knows of it.
THEOREM NothingIsForgotten == Spec => []Covered
<1>1. IInv => Covered
  <2> SUFFICES ASSUME IInv, run \in {"suspended", "woken", "resumed", "failed"}
               PROVE  /\ Len(trigger) = Len(wanted)
                      /\ \A i \in Siblings : item[i] # "none" /\ (jobKey /\ Foreign(Type(i)) => i \in saved)
    BY DEF Covered
  <2>1. Len(trigger) = Len(wanted)
    BY DEF IInv, Complete
  <2>2. \A i \in Siblings : i \in 1 .. Len(trigger)
    BY <2>1, Wanted DEF IInv
  <2> QED BY <2>1, <2>2 DEF IInv, Made
<1> QED BY <1>1, Invariant, PTL

\* What a run resumes with fits its value and what became of the work; what keeps a read from
\* an answer is known.
THEOREM ReadsAreFit == Spec => []ReadsFit
<1>1. IInv => ReadsFit
  <2> SUFFICES ASSUME IInv PROVE ErrorsKnown
    BY DEF IInv, ReadsFit
  <2>1. ASSUME run = "woken", NEW i \in Siblings, Answer(i) = "error"
        PROVE  \/ wanted[i] = "WaitBatchTransform"
               \/ Type(i) \in {"IXP_EXTRACTION", "IXP_VS_ESCALATION"} /\ item[i] = "failed"
    BY <2>1, AnswerOf DEF IInv, Complete, Ixp
  <2> QED BY <2>1 DEF ErrorsKnown
<1> QED BY <1>1, Invariant, PTL

===============================================================================
