---------------------------- MODULE ResumeTriggers ----------------------------
(***************************************************************************)
(* Suspending a run and resuming it (uipath/platform/resume_triggers/      *)
(* _protocol.py).  A run that suspends on one or more values (a task, a    *)
(* job, an extraction ...) has each of them turned into a trigger, which   *)
(* starts the work or refers to work already under way; when a trigger     *)
(* fires the run is woken and reads it, and gets data, `pending', or a     *)
(* fault.                                                                  *)
(*                                                                         *)
(* The services the work runs on, Orchestrator, which wakes a run, and     *)
(* the runtime that reads the triggers of a woken run one after the other  *)
(* are external.                                                           *)
(*                                                                         *)
(* A definition marked `variant' is a plausible mistake in the one below   *)
(* it; no action uses it.                                                  *)
(***************************************************************************)
EXTENDS Naturals, Sequences, FiniteSets

CONSTANTS
    Offered,      \* the classes of value a run may suspend on
    MaxSiblings   \* bound: values in one list

-------------------------------------------------------------------------------
(***************************************************************************)
(* The classes of suspend value.  A raw request and an escalation are      *)
(* subclasses of the plain one.                                            *)
(***************************************************************************)
Parent == [InvokeProcessRaw |-> "InvokeProcess", WaitJobRaw |-> "WaitJob",
           CreateEscalation |-> "CreateTask", WaitEscalation |-> "WaitTask",
           CreateDeepRagRaw |-> "CreateDeepRag", WaitDeepRagRaw |-> "WaitDeepRag",
           CreateEphemeralIndexRaw |-> "CreateEphemeralIndex",
           WaitEphemeralIndexRaw |-> "WaitEphemeralIndex"]

Waits == {"WaitTask", "WaitJob", "WaitSystemAgent", "WaitDeepRag", "WaitEphemeralIndex",
          "WaitBatchTransform", "WaitDocumentExtraction", "WaitDocumentExtractionValidation"}
Starts == {"CreateTask", "InvokeProcess", "InvokeSystemAgent", "CreateDeepRag", "CreateEphemeralIndex",
           "CreateBatchTransform", "DocumentExtraction", "DocumentExtractionValidation"}
Values == Waits \cup Starts \cup DOMAIN Parent \cup {"WaitIntegrationEvent", "WaitUntil", "anything else"}

ASSUME TriggersAssumption == Offered \subseteq Values /\ MaxSiblings \in Nat

\* isinstance(value, classes)
Is(value, classes) == value \in classes \/ (value \in DOMAIN Parent /\ Parent[value] \in classes)

\* The rows of a table whose classes the value belongs to: a chain of ifs takes the first.
Hits(value, table) == {i \in DOMAIN table : Is(value, table[i].of)}

\* variant: the plain classes are tested before their subclasses
LastHit(value, table) == CHOOSE i \in Hits(value, table) : \A j \in Hits(value, table) : j <= i
FirstHit(value, table) == CHOOSE i \in Hits(value, table) : \A j \in Hits(value, table) : i <= j

Lookup(value, table) == IF Hits(value, table) = {} THEN "API" ELSE table[FirstHit(value, table)].is

TypeTable ==
    <<[of |-> {"CreateTask", "WaitTask"}, is |-> "TASK"],
      [of |-> {"InvokeProcess", "WaitJob", "InvokeSystemAgent", "WaitSystemAgent"}, is |-> "JOB"],
      [of |-> {"CreateDeepRag", "WaitDeepRag"}, is |-> "DEEP_RAG"],
      [of |-> {"CreateEphemeralIndex", "WaitEphemeralIndex"}, is |-> "INDEX_INGESTION"],
      [of |-> {"CreateBatchTransform", "WaitBatchTransform"}, is |-> "BATCH_RAG"],
      [of |-> {"DocumentExtraction", "WaitDocumentExtraction"}, is |-> "IXP_EXTRACTION"],
      [of |-> {"DocumentExtractionValidation", "WaitDocumentExtractionValidation"}, is |-> "IXP_VS_ESCALATION"],
      [of |-> {"WaitIntegrationEvent"}, is |-> "INBOX"],
      [of |-> {"WaitUntil"}, is |-> "TIMER"]>>

\* A validation has no row of its own: it is named API.
NameTable ==
    <<[of |-> {"CreateEscalation", "WaitEscalation"}, is |-> "ESCALATION"],
      [of |-> {"CreateTask", "WaitTask"}, is |-> "TASK"],
      [of |-> {"InvokeProcessRaw", "WaitJobRaw"}, is |-> "JOB_RAW"],
      [of |-> {"InvokeProcess", "WaitJob", "InvokeSystemAgent", "WaitSystemAgent"}, is |-> "JOB"],
      [of |-> {"CreateDeepRagRaw", "WaitDeepRagRaw"}, is |-> "DEEP_RAG_RAW"],
      [of |-> {"CreateDeepRag", "WaitDeepRag"}, is |-> "DEEP_RAG"],
      [of |-> {"CreateEphemeralIndexRaw", "WaitEphemeralIndexRaw"}, is |-> "INDEX_INGESTION_RAW"],
      [of |-> {"CreateEphemeralIndex", "WaitEphemeralIndex"}, is |-> "INDEX_INGESTION"],
      [of |-> {"CreateBatchTransform", "WaitBatchTransform"}, is |-> "BATCH_RAG"],
      [of |-> {"DocumentExtraction", "WaitDocumentExtraction"}, is |-> "EXTRACTION"],
      [of |-> {"WaitIntegrationEvent"}, is |-> "INBOX"],
      [of |-> {"WaitUntil"}, is |-> "TIMER"]>>

TypeOf == [value \in Values |-> Lookup(value, TypeTable)]
NameOf == [value \in Values |-> Lookup(value, NameTable)]

-------------------------------------------------------------------------------
(***************************************************************************)
(* The work behind a trigger.  `unreviewed': the validation has been set   *)
(* up and its task is not done; `stopped': a job ended by someone.         *)
(***************************************************************************)
Going == {"working", "unreviewed"}
Bad == {"failed", "stopped", "deleted"}

Ends(type) ==
    CASE type = "TASK" -> {"succeeded", "empty", "deleted"}
      [] type = "JOB" -> {"succeeded", "empty", "failed", "stopped"}
      [] type = "DEEP_RAG" -> {"succeeded", "empty", "failed"}
      [] type \in {"INDEX_INGESTION", "BATCH_RAG", "IXP_EXTRACTION", "IXP_VS_ESCALATION"} -> {"succeeded", "failed"}
      [] OTHER -> {"succeeded"}

\* Work Orchestrator does not know of until it is told.
Foreign(type) == type \in {"DEEP_RAG", "INDEX_INGESTION", "BATCH_RAG", "IXP_EXTRACTION", "IXP_VS_ESCALATION"}

VARIABLES
    wanted,    \* the values the run suspends on
    jobKey,    \* the run is a job of Orchestrator
    run,       \* where it stands
    step,      \* where create_trigger stands for the next value
    item,      \* the work behind each value
    trigger,   \* the triggers made so far, one per value
    saved,     \* values whose external trigger Orchestrator has
    tried,     \* triggers read since the run was woken
    answer     \* the last read: the trigger and what came of it

vars == <<wanted, jobKey, run, step, item, trigger, saved, tried, answer>>

Siblings == DOMAIN wanted
Type(i) == TypeOf[wanted[i]]
Child == Len(trigger) + 1    \* the value create_triggers is at

Init ==
    /\ wanted \in UNION {[1 .. n -> Offered] : n \in 0 .. MaxSiblings}
    /\ jobKey \in BOOLEAN
    /\ run = "creating" /\ step = "start"
    /\ item \in [Siblings -> {"none", "working"}]
    /\ \A i \in Siblings : item[i] = "working" <=> Is(wanted[i], Waits)
    /\ trigger = <<>> /\ saved = {} /\ tried = {}
    /\ answer = [of |-> 0, is |-> "none"]

-------------------------------------------------------------------------------
(***************************************************************************)
(* create_triggers: one value after the other.  What fails faults the run  *)
(* and leaves the work of the values before it behind.                     *)
(***************************************************************************)
Fault ==
    /\ run' = "faulted"
    /\ UNCHANGED <<wanted, jobKey, step, trigger, saved, tried, answer>>

\* The fields of the payload the reader looks up; the handlers of extractions add theirs.
Fields(value) ==
    CASE value = "CreateBatchTransform" -> {"destination_path"}
      [] TypeOf[value] \in {"IXP_EXTRACTION", "IXP_VS_ESCALATION"} -> {"project_id", "tag"}
      [] OTHER -> {}

\* The work of the value: referred to, started, or awaited at a fresh inbox.
NewTrigger(value) == [type |-> TypeOf[value], name |-> NameOf[value], fields |-> Fields(value)]
Keep(i) ==
    /\ trigger' = Append(trigger, NewTrigger(wanted[i]))
    /\ step' = "start"

\* variant: Orchestrator is told of the work that was started here only
OnlyStarted(i) == Foreign(Type(i)) /\ Is(wanted[i], Starts)
Announces(i) == Foreign(Type(i))

TakeItem(i) == item' = [item EXCEPT ![i] = IF @ = "none" THEN "working" ELSE @]

StartWork ==
    /\ run = "creating" /\ step = "start" /\ Child \in Siblings
    /\ TakeItem(Child)
    /\ IF Announces(Child) THEN step' = "announce" /\ UNCHANGED trigger ELSE Keep(Child)
    /\ UNCHANGED <<wanted, jobKey, run, saved, tried, answer>>

\* The service refuses, or no connection has the name that is asked for.
StartFails ==
    /\ run = "creating" /\ step = "start" /\ Child \in Siblings
    /\ Is(wanted[Child], Starts \cup {"WaitIntegrationEvent"})
    /\ Fault /\ UNCHANGED item

CreateExternalTrigger ==
    /\ run = "creating" /\ step = "announce"
    /\ saved' = IF jobKey THEN saved \cup {Child} ELSE saved
    /\ Keep(Child)
    /\ UNCHANGED <<wanted, jobKey, run, item, tried, answer>>

AnnounceFails ==
    /\ run = "creating" /\ step = "announce" /\ jobKey
    /\ Fault /\ UNCHANGED item

\* An empty list is refused, with an error that is not a fault.
TriggersMade ==
    /\ run = "creating" /\ Child > Len(wanted)
    /\ run' = IF wanted = <<>> THEN "raised" ELSE "suspended"
    /\ UNCHANGED <<wanted, jobKey, step, item, trigger, saved, tried, answer>>

-------------------------------------------------------------------------------
(***************************************************************************)
(* The services and Orchestrator.                                          *)
(***************************************************************************)
Work(i) ==
    /\ run \in {"creating", "suspended", "woken"} /\ item[i] \in Going
    /\ \/ \E s \in Ends(Type(i)) : item' = [item EXCEPT ![i] = s]
       \/ /\ Type(i) = "IXP_VS_ESCALATION" /\ item[i] = "working"
          /\ item' = [item EXCEPT ![i] = "unreviewed"]
    /\ UNCHANGED <<wanted, jobKey, run, step, trigger, saved, tried, answer>>

Finished(i) == item[i] \notin Going \cup {"none"}
Fired(i) == Finished(i) /\ (Foreign(Type(i)) => i \in saved)

\* A run that is no job is polled.
Wake ==
    /\ run = "suspended"
    /\ ~jobKey \/ \E i \in Siblings : Fired(i)
    /\ run' = "woken" /\ tried' = {}
    /\ UNCHANGED <<wanted, jobKey, step, item, trigger, saved, answer>>

-------------------------------------------------------------------------------
(***************************************************************************)
(* read_trigger.                                                           *)
(***************************************************************************)
RawNames == {"ESCALATION", "JOB_RAW", "DEEP_RAG_RAW", "INDEX_INGESTION_RAW"}
Needed(type) ==
    CASE type = "BATCH_RAG" -> {"destination_path"}
      [] type \in {"IXP_EXTRACTION", "IXP_VS_ESCALATION"} -> {"project_id", "tag"}
      [] OTHER -> {}

\* variant: a task that was deleted before anyone took it up counts as pending
UntilDone(i) == item[i] \in Going \cup {"deleted"}
Unfinished(i) == item[i] \in Going

\* A task, a job, a deep RAG, an index.
ItemAnswer(i) ==
    IF Unfinished(i) THEN "pending"
    ELSE IF trigger[i].name \in RawNames THEN "raw"
    ELSE IF item[i] \in Bad THEN "faulted"
    ELSE IF item[i] = "empty" THEN "marker"
    ELSE "data"

\* The file of a batch transform is fetched once it has succeeded.
BatchAnswer(i) ==
    IF item[i] = "failed" THEN "faulted"
    ELSE IF item[i] # "succeeded" THEN "pending"
    ELSE "data"

\* A failed extraction is no fault: the error of the service goes through.
IxpAnswer(i) ==
    IF Unfinished(i) THEN "pending"
    ELSE IF item[i] = "failed" THEN "error"
    ELSE "data"

Answer(i) ==
    IF ~(Needed(Type(i)) \subseteq trigger[i].fields) THEN "error"    \* assert
    ELSE CASE Type(i) = "BATCH_RAG" -> BatchAnswer(i)
           [] Type(i) \in {"IXP_EXTRACTION", "IXP_VS_ESCALATION"} -> IxpAnswer(i)
           [] Type(i) \in {"API", "INBOX", "TIMER"} -> "data"
           [] OTHER -> ItemAnswer(i)

\* The request for the item fails: an inbox turns that into a fault, the others let it through.
Failure(i) == IF Type(i) \in {"API", "INBOX"} THEN {"faulted"} ELSE IF Type(i) = "TIMER" THEN {} ELSE {"error"}

\* The triggers that have no `pending' are read when they have fired.
Readable(i) == Type(i) \in {"API", "INBOX", "TIMER"} => Fired(i)

Outcome == [data |-> "resumed", raw |-> "resumed", marker |-> "resumed",
            faulted |-> "failed", error |-> "failed", pending |-> "woken"]

ReadTrigger(i) ==
    /\ run = "woken" /\ i \notin tried /\ Readable(i)
    /\ \E a \in {Answer(i)} \cup Failure(i) :
          /\ answer' = [of |-> i, is |-> a]
          /\ run' = Outcome[a]
    /\ tried' = tried \cup {i}
    /\ UNCHANGED <<wanted, jobKey, step, item, trigger, saved>>

\* Every trigger was pending.
SuspendAgain ==
    /\ run = "woken" /\ \A i \in Siblings : Readable(i) => i \in tried
    /\ run' = "suspended"
    /\ UNCHANGED <<wanted, jobKey, step, item, trigger, saved, tried, answer>>

-------------------------------------------------------------------------------
Next ==
    \/ StartWork \/ StartFails \/ CreateExternalTrigger \/ AnnounceFails \/ TriggersMade
    \/ Wake \/ SuspendAgain
    \/ \E i \in Siblings : Work(i) \/ ReadTrigger(i)

Spec == Init /\ [][Next]_vars

\* The run goes on, Orchestrator (or the poll) wakes it, and the runtime reads every trigger.
\* Nothing is said of the work: a task may stay open for ever.
LiveSpec ==
    /\ Spec
    /\ WF_vars(StartWork \/ CreateExternalTrigger \/ TriggersMade)
    /\ WF_vars(Wake) /\ WF_vars(SuspendAgain)
    /\ \A i \in 1 .. MaxSiblings : WF_vars(i \in Siblings /\ ReadTrigger(i))

-------------------------------------------------------------------------------
TypeOK ==
    /\ wanted \in UNION {[1 .. n -> Offered] : n \in 0 .. MaxSiblings}
    /\ jobKey \in BOOLEAN
    /\ run \in {"creating", "raised", "suspended", "woken", "resumed", "failed", "faulted"}
    /\ step \in {"start", "announce"}
    /\ DOMAIN item = Siblings
    /\ \A i \in Siblings : item[i] \in {"none"} \cup Going \cup Ends(Type(i))
    /\ trigger \in Seq({NewTrigger(value) : value \in Offered})
    /\ Len(trigger) <= Len(wanted)
    /\ saved \subseteq Siblings /\ tried \subseteq Siblings
    /\ answer \in [of : 0 .. MaxSiblings, is : {"none"} \cup DOMAIN Outcome]

\* A run that is suspended has a trigger for each value it asked for, each with its work under
\* way or over, and Orchestrator, when it is the one to wake the run, has been told of all the
\* work that is not its own (create_triggers, _create_external_trigger).
Covered ==
    run \in {"suspended", "woken", "resumed", "failed"} =>
        /\ Len(trigger) = Len(wanted)
        /\ \A i \in Siblings : item[i] # "none" /\ (jobKey /\ Foreign(Type(i)) => i \in saved)

AsksRaw(i) == wanted[i] \in DOMAIN Parent

\* A run resumes on work that is over, never early; on the item itself exactly when it asked
\* for the raw item or an escalation, whatever became of it; on data when the work succeeded,
\* and on the NO_CONTENT marker when it succeeded with nothing to say.
AnswerFits ==
    run = "resumed" =>
        LET i == answer.of IN
        /\ Finished(i)
        /\ answer.is = "raw" <=> AsksRaw(i)
        /\ answer.is = "data" => item[i] = "succeeded"
        /\ answer.is = "marker" => item[i] = "empty"

\* A read leaves with an error that is not a UiPath error only when the request for the item
\* failed, for an extraction that failed, and for a wait on a batch transform, whose payload
\* has nowhere to put the file.  Stated on the answer the reader computes, so that a request
\* that fails cannot hide another cause.
ErrorsKnown ==
    run = "woken" =>
        \A i \in Siblings :
            Answer(i) = "error" =>
                \/ wanted[i] = "WaitBatchTransform"
                \/ Type(i) \in {"IXP_EXTRACTION", "IXP_VS_ESCALATION"} /\ item[i] = "failed"

\* Every read ends in data, pending or a fault: `Raises: UiPathRuntimeError: If reading fails'.
ReadsReport == run = "woken" => \A i \in Siblings : Answer(i) # "error"

\* Together: what a run resumes with, and what keeps it from resuming (_protocol.py:113-448).
ReadsFit == AnswerFits /\ ErrorsKnown

\* A run that waits for work that is over, whatever its end, does not wait for ever; a
\* sibling that never ends does not keep it.
WokenUp == \A i \in 1 .. MaxSiblings :
    (i \in Siblings /\ Finished(i) /\ run \in {"suspended", "woken"}) ~> run \in {"resumed", "failed"}

===============================================================================
