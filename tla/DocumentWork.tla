----------------------------- MODULE DocumentWork -----------------------------
(***************************************************************************)
(* Document understanding (uipath/platform/documents/                      *)
(* _documents_service.py): a program has one document classified, its data *)
(* extracted and both validated by people, in calls that hand what they    *)
(* return to one another.  A call starts an operation of the service and   *)
(* polls its result until a deadline, or leaves that to a later call; the  *)
(* route to an operation, which names the version of the project by its    *)
(* tag or by the id of a classifier or an extractor, goes with what the    *)
(* calls return.                                                           *)
(*                                                                         *)
(* The synchronous and the asynchronous methods do the same.  The service  *)
(* and the people are external.                                            *)
(*                                                                         *)
(* A definition marked `variant' is a plausible mistake in the one below   *)
(* it; no action uses it.                                                  *)
(***************************************************************************)
EXTENDS ServiceRequest

CONSTANTS
    PollingTimeout,   \* polling_timeout, in polling intervals
    MaxCalls,         \* bound: calls of the program
    None

DocumentAssumption ==
    /\ PollingTimeout \in Nat \ {0} /\ MaxCalls \in Nat
    /\ None \notin {"tag", "number", "classifier", "extractor", "type"}

VARIABLES
    value,      \* what the program holds: what the last call that returned gave it
    source,     \* the operation that value is of
    operation,  \* the operation the present call started
    call,       \* the present call, or the last
    calls       \* how many there were

vars == <<value, source, operation, call, calls>>

ProjectTypes == {"ixp", "modern", "pretrained"}

\* A route by tag, or by the id of a classifier or an extractor.
Routes == [tag : {None, "tag"}, by : {None, "classifier", "extractor", "type"}]
Operation(route, status) == [route |-> route, status |-> status]
NoRoute == [tag |-> None, by |-> None]
NoOperation == Operation(NoRoute, "none")

\* Which version of which project: pretrained ones have one, in the others it
\* is named by its tag or by its number.
Params ==
    {[type |-> "pretrained", tag |-> None, version |-> None]} \cup
    [type : {"ixp", "modern"}, tag : {"tag"}, version : {None}] \cup
    [type : {"ixp", "modern"}, tag : {None}, version : {"number"}]

\* `kind' is what it is: results, an action for people, or the id of an
\* operation that was started; `of' tells classification from extraction.
Value(kind, of, type, route) == [kind |-> kind, of |-> of, type |-> type, route |-> route]
Nothing == Value("nothing", "nothing", "nothing", NoRoute)

NoCall == [name |-> "none", pc |-> "idle", of |-> "nothing", params |-> [type |-> "none", tag |-> None, version |-> None],
           route |-> NoRoute, status |-> "none", clock |-> 0, tries |-> 1, err |-> "none"]

Init ==
    /\ value = Nothing /\ source = NoOperation /\ operation = NoOperation
    /\ call = NoCall /\ calls = 0

-------------------------------------------------------------------------------
(***************************************************************************)
(* The route to an operation.                                              *)
(***************************************************************************)
\* variant: the version is named by the caller alone
GivenVersion(p, classified) == IF p.type = "pretrained" THEN None ELSE p.version
\* _get_version: of extractions, after a classification that of its classifier.
Version(p, classified) ==
    CASE p.type = "pretrained" -> None
      [] p.type # "pretrained" /\ p.version # None -> p.version
      [] OTHER -> IF classified.route.by = None THEN None ELSE "number"

\* _get_classifier_id and _get_tag.
ClassifierRoute(p) ==
    [tag |-> IF p.type = "pretrained" \/ p.version # None THEN None ELSE p.tag,
     by |-> IF p.type = "pretrained" \/ p.version # None THEN "classifier" ELSE None]

\* _get_extractor_id and _get_tag; `classified' is Nothing for a file.
ExtractorRoute(p, classified) ==
    LET version == Version(p, classified) IN
    [tag |-> IF p.type = "pretrained" \/ version # None THEN None
             ELSE IF classified # Nothing THEN classified.route.tag ELSE p.tag,
     by |-> IF p.type = "pretrained" THEN "type" ELSE IF version # None THEN "extractor" ELSE None]

\* variant: a result that does not say which extractor it came from
TagOnly(route) == [route EXCEPT !.by = None]
\* What the results and the actions are stamped with.
Stamp(route) == route

-------------------------------------------------------------------------------
(***************************************************************************)
(* Beginning a call.                                                       *)
(***************************************************************************)
Starts(name, pc, of, params, route) ==
    /\ call.pc = "idle" /\ calls < MaxCalls
    /\ calls' = calls + 1
    /\ call' = [NoCall EXCEPT !.name = name, !.pc = pc, !.of = of, !.params = params, !.route = route]
    /\ UNCHANGED <<value, source, operation>>

Classify == \E p \in Params : p.type # "ixp" /\ Starts("classify", "project", "classification", p, ClassifierRoute(p))

Extract ==
    \/ \E p \in Params : Starts("extract", "project", "extraction", p, ExtractorRoute(p, Nothing))
    \/ /\ value.kind = "results" /\ value.of = "classification"
       /\ LET p == [type |-> value.type, tag |-> None, version |-> None]
          IN Starts("extract", "resolve", "extraction", p, ExtractorRoute(p, value))

\* start_ixp_extraction takes a tag; it does not wait for the digitization.
StartExtraction ==
    \E p \in Params : p.type = "ixp" /\ p.tag # None
        /\ Starts("start extraction", "project", "extraction", p, [tag |-> p.tag, by |-> None])

OfValue == [type |-> value.type, tag |-> None, version |-> None]

\* create_validate_classification_action and create_validate_extraction_action.
CreateAction ==
    /\ value.kind = "results"
    /\ Starts("create action", "start", value.of, OfValue, value.route)

\* start_ixp_extraction_validation has no use for the id of an extractor.
StartValidation ==
    /\ value.kind = "results" /\ value.of = "extraction" /\ value.type = "ixp"
    /\ Starts("start validation", "start", "extraction", OfValue, [tag |-> value.route.tag, by |-> None])

\* retrieve_ixp_extraction_result and retrieve_ixp_extraction_validation_result:
\* one look.
Retrieve ==
    /\ value.kind \in {"started extraction", "started validation"}
    /\ Starts("retrieve", "look", "extraction", OfValue, value.route)

\* get_validate_classification_result and get_validate_extraction_result.
Validated ==
    /\ value.kind = "action"
    /\ Starts("validated", "wait", value.of, OfValue, value.route)

-------------------------------------------------------------------------------
(***************************************************************************)
(* A call.                                                                 *)
(***************************************************************************)
Go(pc) == [call EXCEPT !.pc = pc, !.tries = 1]
End(err) == [call EXCEPT !.pc = "idle", !.err = err]
After(a, answered) ==
    IF a.seen = "answer" THEN answered
    ELSE IF Retries(a, call.tries) THEN [call EXCEPT !.tries = @ + 1] ELSE End("request")

\* The project first; once there is a document, its version, type and
\* extractor or classifier.  What is looked up may not be there.
LookUp ==
    /\ call.pc \in {"project", "resolve"}
    /\ \/ call' = End("value")
       \/ \E a \in Attempts : call' = After(a, Go(IF call.pc = "project" THEN "digitize" ELSE "start"))
    /\ UNCHANGED <<value, source, operation, calls>>

Waits == call.name \in {"classify", "extract", "create action"}

StartOperation ==
    /\ call.pc \in {"digitize", "start"}
    /\ \E a \in Attempts :
          LET started == Operation(IF call.pc = "digitize" THEN NoRoute ELSE call.route, "Running")
              left == a.seen = "answer" /\ call.pc = "start" /\ ~Waits
          IN
          /\ operation' = IF left THEN NoOperation ELSE IF a.applied THEN started ELSE operation
          /\ LET after == IF call.pc = "digitize" THEN Go(IF Waits THEN "digitized" ELSE "start")
                          ELSE IF Waits THEN Go("wait") ELSE End("none")
                 waiting == [after EXCEPT !.status = "Running", !.clock = 0]
             IN call' = After(a, waiting)
          /\ IF left
             THEN /\ value' = Value(IF call.name = "start extraction" THEN "started extraction" ELSE "started validation",
                                    "extraction", "ixp", [tag |-> call.route.tag, by |-> None])
                  /\ source' = started
             ELSE UNCHANGED <<value, source>>
    /\ UNCHANGED calls

\* What is asked for, and the statuses that mean it is not over and that it is.
Asked == IF call.name \in {"validated", "retrieve"} THEN source ELSE operation
WaitStatuses == IF call.name = "validated" THEN {"Running", "Pending"} ELSE {"Running"}
Succeeded(status) ==
    IF call.name = "validated" THEN status = "Completed" ELSE status \in {"Succeeded", "Pending", "Completed", "Deleted"}

\* variant: the deadline is for the service to keep
Unlimited(clock) == TRUE
InTime(clock) == clock < PollingTimeout

Later(n) == IF call.clock + n > PollingTimeout THEN PollingTimeout ELSE call.clock + n

\* _wait_for_operation: it asks and sleeps while there is time.
Waiting == call.pc \in {"digitized", "wait"}
Poll ==
    /\ Waiting /\ call.status \in WaitStatuses \cup {"none"} /\ InTime(call.clock)
    /\ \E a \in Attempts, n \in {1, 2} :
          call' = After(a, [call EXCEPT !.status = Asked.status, !.tries = 1, !.clock = Later(n)])
    /\ UNCHANGED <<value, source, operation, calls>>

\* variant: the clock is looked at first
ClockFirst(status, clock) == IF clock >= PollingTimeout THEN "timeout" ELSE IF Succeeded(status) THEN "none" ELSE "failed"
\* A success is returned however late it is; a failure may be called a timeout.
Verdict(status, clock) == IF Succeeded(status) THEN "none" ELSE IF clock >= PollingTimeout THEN "timeout" ELSE "failed"

\* What a call that ends well gives the program.
Returned(route) ==
    Value(IF call.name = "create action" \/ (value.kind = "started validation" /\ call.name = "retrieve") THEN "action" ELSE "results",
          call.of, call.params.type, Stamp(route))

WaitEnds ==
    /\ Waiting /\ (call.status \notin WaitStatuses \cup {"none"} \/ ~InTime(call.clock))
    /\ \E n \in {0, 1} :
          LET err == Verdict(call.status, Later(n)) IN
          IF err = "none" /\ call.pc = "digitized"
          THEN call' = Go("resolve") /\ UNCHANGED <<value, source, operation>>
          ELSE /\ call' = End(err)
               /\ IF err = "none"
                  THEN value' = Returned(call.route) /\ source' = Asked /\ operation' = NoOperation
                  ELSE UNCHANGED <<value, source, operation>>
    /\ UNCHANGED calls

\* _retrieve_operation_result.
Look ==
    /\ call.pc = "look"
    /\ \E a \in Attempts :
          LET err == IF Asked.status = "Running" THEN "not complete" ELSE IF Succeeded(Asked.status) THEN "none" ELSE "failed"
          IN /\ call' = After(a, End(err))
             /\ IF a.seen = "answer" /\ err = "none" THEN value' = Returned(call.route) ELSE UNCHANGED value
    /\ UNCHANGED <<source, operation, calls>>

-------------------------------------------------------------------------------
(***************************************************************************)
(* The service runs an operation; once that of an action has made the      *)
(* action, people complete or delete it.  A person may never come.         *)
(***************************************************************************)
Outcomes(status, action) ==
    CASE status = "Running" -> {IF action THEN "Pending" ELSE "Succeeded", "Failed"}
      [] status = "Pending" -> {"Completed", "Deleted"}
      [] OTHER -> {}

ActionKinds == {"create action", "start validation"}
Work ==
    \/ /\ \E s \in Outcomes(operation.status, call.name \in ActionKinds) : operation' = [operation EXCEPT !.status = s]
       /\ UNCHANGED source
    \/ /\ \E s \in Outcomes(source.status, value.kind \in {"action", "started validation"}) : source' = [source EXCEPT !.status = s]
       /\ UNCHANGED operation

ServiceWorks == Work /\ UNCHANGED <<value, call, calls>>

Begin == Classify \/ Extract \/ StartExtraction \/ CreateAction \/ StartValidation \/ Retrieve \/ Validated
Step == LookUp \/ StartOperation \/ Poll \/ WaitEnds \/ Look

Next == Begin \/ Step \/ ServiceWorks
Spec == Init /\ [][Next]_vars

\* The program's calls run, and time goes by; nothing is asked of the service.
LiveSpec == Spec /\ WF_vars(Step)

-------------------------------------------------------------------------------
\* What the program holds is of an operation that came to the end it stands
\* for, and leads back to it: the route a later call takes is the one the
\* operation was started on (_wait_for_extraction, retrieve_ixp_...).
HeldIsTrue ==
    /\ value.kind \in {"results", "action"} => source.status \notin {"none", "Running", "Failed"}
    /\ value.kind # "nothing" => source.route = value.route

\* A wait tells the truth: it says it failed only of an operation that did, and
\* that it was not in time only when no success was seen (_wait_for_operation).
TrueVerdict ==
    /\ call.err = "failed" => ~Succeeded(Asked.status) /\ Asked.status # "Running"
    /\ call.err = "timeout" => ~Succeeded(call.status)

\* An extraction is done by the version that did its classification: by tag
\* after a tag, by the extractor of its version after a classifier (_get_version
\* and _get_tag).
RouteFollows ==
    (call.name = "extract" /\ call.pc # "idle" /\ call.params = OfValue /\ value.type # "pretrained") =>
       /\ call.route.tag = value.route.tag
       /\ call.route.by = "extractor" <=> value.route.by = "classifier"

\* A call ends, though the operation may never do.
CallsEnd == call.pc # "idle" ~> call.pc = "idle"

\* What the documentation of start_ixp_extraction_validation asks for is "The
\* extraction response from the IXP extraction process", which extract gives
\* for a version as well.  So there is a route for it.
ValidationHasRoute == call.name = "start validation" => call.route # NoRoute

===============================================================================
