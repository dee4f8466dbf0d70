------------------------------- MODULE Services -------------------------------
(***************************************************************************)
(* What the platform's clients and the helpers beside them do, for TLC and *)
(* for the proofs.  They share nothing but what a request comes to, so a   *)
(* behaviour starts in one of them and stays there: each is explored by    *)
(* itself.                                                                 *)
(***************************************************************************)
EXTENDS ServiceRequest, FiniteSets, Sequences

CONSTANTS
    Callers, None,
    AttachmentKeys, GivenAttachments, NoKey,
    IndexIds, Bucketed, NoId, MaxIngestions,
    PollingTimeout, MaxDocumentCalls,
    GatewayCalls, Limits, Default, Configs, Rejecting, Models, MaxLoops,
    Listing, Directories, Takes, MaxSkip, MaxKeys,
    WorkIds, GivenJob, MaxTriggers, MaxItems,
    Rows, GivenRows, BatchSize,
    ResourceNames, EntityIds, Folders, Contexts, EntitySets,
    MaxSpans, MaxOpen,
    Tools, ExpectedCalls, Sanitized, MaxToolCalls, MaxWanted,
    Guards, MaxGuards, Signatures, Excluded, InFields, OutFields, Contents, MaxRules

VARIABLES
    service,  \* the one this behaviour is of
    call,     \* the calls of the program, if they are modelled as calls
    refused, did,
    record, auth, blob, links, local, owner,
    index, accepted, bucket, ingested, deletedBy,
    value, source, operation, calls,
    limit, semaphore, semaphores, loop, running, details, unread,
    collection, walk, always, added, removed,
    work, input, trigger, paid,
    rows,
    context, method, plan, query,
    span, registry, current, external, frames, waiting, astray, last,
    made, score,
    guarded, bound, returned, asked, ruled

Attachments == INSTANCE AttachmentStore WITH
    Calls <- Callers, Keys <- AttachmentKeys, Given <- GivenAttachments
Indexes == INSTANCE ContextIndex WITH Calls <- Callers, Ids <- IndexIds
Documents == INSTANCE DocumentWork WITH MaxCalls <- MaxDocumentCalls
Gateway == INSTANCE LlmGateway WITH Calls <- GatewayCalls
Pages == INSTANCE PagedLookup WITH N <- Listing
Works == INSTANCE OrchestratorWork WITH Calls <- Callers, Ids <- WorkIds, Given <- GivenJob
Entities == INSTANCE EntityRecords WITH Calls <- Callers, Given <- GivenRows, N <- BatchSize
Overwrites == INSTANCE ResourceOverwrites WITH Names <- ResourceNames, Ids <- EntityIds, Sets <- EntitySets
Tracing == INSTANCE TraceParents
Scores == INSTANCE ToolCallScores WITH MaxCalls <- MaxToolCalls
Rails == INSTANCE Guardrails

ASSUME ServicesAssumption ==
    /\ Attachments!StoreAssumption /\ Indexes!IndexAssumption /\ Documents!DocumentAssumption
    /\ Gateway!GatewayAssumption /\ Pages!PagedAssumption /\ Works!WorkAssumption
    /\ Entities!RecordsAssumption /\ Overwrites!OverwritesAssumption /\ Tracing!TraceAssumption
    /\ Scores!ScoresAssumption /\ Rails!GuardrailsAssumption

attachments == <<record, auth, blob, links, local, owner>>
indexes == <<index, accepted, bucket, ingested, deletedBy>>
documents == <<value, source, operation, calls>>
gateway == <<limit, semaphore, semaphores, loop, running, details, unread>>
pages == <<collection, walk, always, added, removed>>
works == <<work, input, trigger, paid>>
overwrites == <<context, method, plan, query>>
tracing == <<span, registry, current, external, frames, waiting, astray, last>>
scores == <<made, score>>
rails == <<guarded, bound, returned, asked, ruled>>
vars ==
    <<service, call, refused, did, attachments, indexes, documents, gateway, pages, works, rows, overwrites, tracing,
      scores, rails>>

\* The variables of the models this behaviour is not of.
NoAttachments == record = 0 /\ auth = 0 /\ blob = 0 /\ links = 0 /\ local = 0 /\ owner = 0
NoIndexes == index = 0 /\ accepted = 0 /\ bucket = 0 /\ ingested = 0 /\ deletedBy = 0
NoDocuments == value = 0 /\ source = 0 /\ operation = 0 /\ calls = 0
NoGateway ==
    limit = 0 /\ semaphore = 0 /\ semaphores = 0 /\ loop = 0 /\ running = 0 /\ details = 0 /\ unread = 0
NoPages == collection = 0 /\ walk = 0 /\ always = 0 /\ added = 0 /\ removed = 0
NoWorks == work = 0 /\ input = 0 /\ trigger = 0 /\ paid = 0
NoOverwrites == context = 0 /\ method = 0 /\ plan = 0 /\ query = 0
NoTracing ==
    span = 0 /\ registry = 0 /\ current = 0 /\ external = 0 /\ frames = 0 /\ waiting = 0 /\ astray = 0 /\ last = 0
NoScores == made = 0 /\ score = 0
NoRails == guarded = 0 /\ bound = 0 /\ returned = 0 /\ asked = 0 /\ ruled = 0

Init ==
    /\ service \in {"attachments", "indexes", "documents", "gateway", "pages", "works", "entities",
                   "overwrites", "tracing", "scores", "guardrails"}
    /\ IF service = "attachments" THEN Attachments!Init ELSE NoAttachments
    /\ IF service = "indexes" THEN Indexes!Init ELSE NoIndexes
    /\ IF service = "documents" THEN Documents!Init ELSE NoDocuments
    /\ IF service = "gateway" THEN Gateway!Init ELSE NoGateway
    /\ IF service = "pages" THEN Pages!Init ELSE NoPages
    /\ IF service = "works" THEN Works!Init ELSE NoWorks
    /\ IF service = "entities" THEN Entities!Init ELSE rows = 0
    /\ IF service = "overwrites" THEN Overwrites!Init ELSE NoOverwrites
    /\ IF service = "tracing" THEN Tracing!Init ELSE NoTracing
    /\ IF service = "scores" THEN Scores!Init ELSE NoScores
    /\ IF service = "guardrails" THEN Rails!Init ELSE NoRails
    /\ IF service \in {"attachments", "indexes", "documents", "gateway", "works", "entities"}
       THEN TRUE ELSE call = 0
    /\ IF service \in {"attachments", "indexes"} THEN TRUE ELSE refused = 0
    /\ IF service \in {"works", "entities"} THEN TRUE ELSE did = 0

\* A behaviour of something else.
NoService ==
    /\ call = 0 /\ refused = 0 /\ did = 0 /\ rows = 0
    /\ NoAttachments /\ NoIndexes /\ NoDocuments /\ NoGateway /\ NoPages
    /\ NoWorks /\ NoOverwrites /\ NoTracing /\ NoScores /\ NoRails

Of(s, used) == service = s /\ UNCHANGED <<service, used>>
helpers == <<overwrites, tracing, scores, rails>>
InAttachments == Of("attachments", <<did, indexes, documents, gateway, pages, works, rows, helpers>>)
InIndexes == Of("indexes", <<did, attachments, documents, gateway, pages, works, rows, helpers>>)
InDocuments == Of("documents", <<did, refused, attachments, indexes, gateway, pages, works, rows, helpers>>)
InGateway == Of("gateway", <<did, refused, attachments, indexes, documents, pages, works, rows, helpers>>)
InWorks == Of("works", <<refused, attachments, indexes, documents, gateway, pages, rows, helpers>>)
InEntities == Of("entities", <<refused, attachments, indexes, documents, gateway, pages, works, helpers>>)
shared == <<did, refused, call, attachments, indexes, documents, gateway, works, rows>>
InPages == Of("pages", <<shared, helpers>>)
InOverwrites == Of("overwrites", <<shared, pages, tracing, scores, rails>>)
InTracing == Of("tracing", <<shared, pages, overwrites, scores, rails>>)
InScores == Of("scores", <<shared, pages, overwrites, tracing, rails>>)
InRails == Of("guardrails", <<shared, pages, overwrites, tracing, scores>>)

Next ==
    \/ InAttachments /\ Attachments!Next
    \/ InIndexes /\ Indexes!Next
    \/ InDocuments /\ Documents!Next
    \/ InGateway /\ Gateway!Next
    \/ InPages /\ Pages!Next
    \/ InWorks /\ Works!Next
    \/ InEntities /\ Entities!Next
    \/ InOverwrites /\ Overwrites!Next
    \/ InTracing /\ Tracing!Next
    \/ InScores /\ Scores!Next
    \/ InRails /\ Rails!Next

Spec == Init /\ [][Next]_vars

-------------------------------------------------------------------------------
\* A call leaves at most one record in Orchestrator unless an answer was lost;
\* what hangs on the job has its content; a deletion took what it says it took
\* (upload, create_attachment, delete).  A file that was added to an index is in
\* an ingestion, a deletion takes the index that was looked up, and a question
\* is put to one that is being ingested only if that began after the check
\* (add_to_index, delete_by_name, search).
StoresKept ==
    /\ service = "attachments" =>
          Attachments!FewOrphans /\ Attachments!LinkedIsWhole /\ Attachments!DeletedOnce
    /\ service = "indexes" =>
          Indexes!AddedIsIngested /\ Indexes!OwnIndexDeleted /\ Indexes!OnlyLaterIngestions

\* What the program holds leads back to an operation that came to the end it
\* stands for, a wait tells the truth, and an extraction follows the version
\* of its classification (_wait_for_operation, _get_version, _get_tag).
DocumentsTrue ==
    service = "documents" => Documents!HeldIsTrue /\ Documents!TrueVerdict /\ Documents!RouteFollows

\* No more requests than the limit in force are on their way, no slot is lost,
\* no call fails over another loop's semaphore, and a temperature is stripped
\* where it must be (get_llm_semaphore, should_skip_temperature).
GatewayKeepsLimit == service = "gateway" => Gateway!GatewayKeepsLimit

\* What was there all along is listed, and once, unless the collection changed
\* before it; keys are refused only for one that was missing (get_files,
\* retrieve_key, _resolve_job_identifiers).
PagesAddUp ==
    service = "pages" => Pages!NothingMissed /\ Pages!NothingTwice /\ Pages!RefusedForMissing

\* A call has only its own job, items or transaction made, stopped or asked to
\* stop, paid or completed, and only once unless an answer was lost; no job starts
\* before its input is there, and no payload goes to a later trigger than the one
\* looked up (invoke, stop, restart, resume, create_item, create_items,
\* create_transaction_item, complete_transaction_item).
\* A call on records that raises has changed nothing, a batch says of each of
\* its records what became of it, and each is changed once, but for the reasons
\* the model names (insert_records, update_records, delete_records).
ChangesKept ==
    /\ service = "works" =>
          Works!EffectsAreOwned /\ Works!InputIsThere /\ Works!PaidAsFound /\ Works!OverForGood
    /\ service = "entities" => Entities!RaisedIsClean /\ Entities!ReportIsTrue /\ Entities!ChangedOnce

\* What is found under an overwrite is what is used, an entity is queried where
\* it was fetched, and both kinds of services send its queries to the same place
\* (resource_override, create_resolution_draft, finalize_resolution_plan).
OverwritesAgree ==
    service = "overwrites" =>
       Overwrites!UsedAsFound /\ Overwrites!RoutedWhereFetched /\ Overwrites!RoutesAgree

\* While all ends in the order it began the current span is that of what runs;
\* of two spans on a line that the registry has seen the lower one is the parent;
\* and beneath a function that is not recorded nothing is, but where another
\* framework's span is the parent (get_parent_context, the traced wrappers).
TraceKept ==
    service = "tracing" =>
       Tracing!YoungestIsCurrent /\ Tracing!DeeperIsParent /\ Tracing!SilenceHolds

\* What a guardrail finds bad gets neither into the function it is around nor
\* out of it; each is asked once and in its place, first about the arguments and
\* last about the value; and one more rule never makes a guardrail fail
\* (_wrap_function, _dispatch_return, _evaluate_deterministic_guardrail).
GuardrailsHold ==
    service = "guardrails" =>
       /\ Rails!NothingBadPasses /\ Rails!NothingBadReturns
       /\ Rails!AskedInOrder /\ Rails!RulesOnlyExcuse

\* What is wrapped around a function keeps its word whatever the function does:
\* resource_override leads it to what was found, traced gives its span the right
\* parent, and guardrail lets nothing bad in or out.
WrappersHold == OverwritesAgree /\ TraceKept /\ GuardrailsHold

\* The score of the order is the longest common subsequence, no call counts
\* twice nor is one left over that an expectation could have, as many outputs
\* count as any pairing could make count, and calls in the expected order, by
\* sanitized names, are all counted (tool_calls_order_score, tool_calls_args_score,
\* tool_calls_output_score, tool_calls_count_score).
CallsScored ==
    service = "scores" =>
       /\ Scores!LongestFound /\ Scores!NothingOverlooked
       /\ Scores!OutputsCounted /\ Scores!OrderImpliesCount

===============================================================================
