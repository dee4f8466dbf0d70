----------------------------- MODULE ContextIndex -----------------------------
(***************************************************************************)
(* A context grounding index and the calls of a program on it              *)
(* (uipath/platform/context_grounding/_context_grounding_service.py, with  *)
(* the upload of orchestrator/_buckets_service.py).  An index is filled by *)
(* ingestions, which the service queues and runs over the files of a       *)
(* bucket.  Every call first looks its index up by name, and acts on what  *)
(* it was told by requests that come later: meanwhile the index may be     *)
(* ingested, deleted, or made anew under the same name.                    *)
(*                                                                         *)
(* The methods and their `_async' forms do the same, but for               *)
(* unified_search.  The service and the bucket's storage are external.     *)
(*                                                                         *)
(* A definition marked `variant' is a plausible mistake in the one below   *)
(* it; no action uses it.                                                  *)
(***************************************************************************)
EXTENDS ServiceRequest, FiniteSets

CONSTANTS
    Calls,           \* calls of the program, concurrent with one another
    Ids,             \* ids of the indexes that have the name, one at a time
    Bucketed,        \* those whose data source is a bucket of Orchestrator
    NoId,
    MaxIngestions    \* bound: ingestions of an index

IndexAssumption ==
    /\ Bucketed \subseteq Ids /\ NoId \notin Ids /\ MaxIngestions \in Nat
    /\ "others" \notin Calls

VARIABLES
    index,       \* each index: none yet, gone, or the state of its last ingestion
    accepted,    \* how many of its ingestions the service accepted
    bucket,      \* the files in the bucket, each named after the call that put it
    ingested,    \* the files an ingestion of the index was run over
    call,        \* each call
    deletedBy,   \* history: who deleted an index
    refused      \* history: the files the storage refused

server == <<index, accepted, bucket, ingested>>
history == <<deletedBy, refused>>
vars == <<server, call, history>>

\* search is by name; unified_search and start are by the id looked up, start
\* also by one the program has.  unified is unified_search_async, unchecked
\* the synchronous unified_search.
Checked == {"search", "unified", "start"}
Questions == Checked \cup {"unchecked"}
Ops == Questions \cup {"add", "put", "ingest", "delete", "create"}

\* `told': how many ingestions of the index had been accepted when a question
\* looked it up, and whether one was under way.  `hit': whether the service had accepted
\* no other when the question came, and that one was not over.
NoCall == [op |-> "none", pc |-> "idle", id |-> NoId, tries |-> 1,
           told |-> [ingestions |-> 0, busy |-> FALSE], hit |-> FALSE, err |-> "none"]

Init ==
    /\ \E i \in Ids, s \in {"new", "Successful"} : index = [j \in Ids |-> IF j = i THEN s ELSE "none"]
    /\ accepted = [i \in Ids |-> 0] /\ bucket = {} /\ ingested = [i \in Ids |-> {}]
    /\ call = [c \in Calls |-> NoCall]
    /\ deletedBy = [i \in Ids |-> {}] /\ refused = {}

Live == {i \in Ids : index[i] \notin {"none", "gone"}}

\* variant: one that is queued has not begun
OnlyRunning(s) == s = "InProgress"
in_progress_ingestion(s) == s \in {"Queued", "InProgress"}
Busy(i) == index[i] \in {"Queued", "InProgress"}

At(c, pc) == call[c].pc = pc
Go(c, pc) == [call EXCEPT ![c].pc = pc, ![c].tries = 1]
Raise(c, err) == [Go(c, "raised") EXCEPT ![c].err = err]

After(c, a, answered) ==
    IF a.seen = "answer" THEN answered
    ELSE IF Retries(a, call[c].tries) THEN [call EXCEPT ![c].tries = @ + 1] ELSE Raise(c, "request")

-------------------------------------------------------------------------------
(***************************************************************************)
(* The service: ingestions begin and end, and other programs delete the    *)
(* index, make it anew and have it ingested.                               *)
(***************************************************************************)
Ingested(i) == accepted' = [accepted EXCEPT ![i] = @ + 1] /\ index' = [index EXCEPT ![i] = "Queued"]

IngestionBegins(i) ==
    /\ index[i] = "Queued"
    /\ index' = [index EXCEPT ![i] = "InProgress"]
    /\ ingested' = [ingested EXCEPT ![i] = bucket]
    /\ UNCHANGED <<accepted, bucket, call, history>>

IngestionEnds(i) ==
    /\ index[i] = "InProgress"
    /\ \E s \in {"Successful", "Failed"} : index' = [index EXCEPT ![i] = s]
    /\ UNCHANGED <<accepted, bucket, ingested, call, history>>

Others(i) ==
    /\ \/ /\ i \in Live /\ ~Busy(i) /\ accepted[i] < MaxIngestions
          /\ Ingested(i) /\ UNCHANGED deletedBy
       \/ /\ i \in Live /\ index' = [index EXCEPT ![i] = "gone"]
          /\ deletedBy' = [deletedBy EXCEPT ![i] = @ \cup {"others"}] /\ UNCHANGED accepted
       \/ /\ Live = {} /\ index[i] = "none"
          /\ index' = [index EXCEPT ![i] = "new"] /\ UNCHANGED <<accepted, deletedBy>>
    /\ UNCHANGED <<bucket, ingested, call, refused>>

-------------------------------------------------------------------------------
(***************************************************************************)
(* A call: what it is, and retrieve, by which it looks its index up.       *)
(***************************************************************************)
Begin(c) ==
    /\ At(c, "idle")
    /\ \/ \E op \in Ops : call' = [call EXCEPT ![c].op = op, ![c].pc = IF op = "create" THEN "create" ELSE "retrieve"]
       \/ \E i \in Live : call' = [call EXCEPT ![c].op = "byid", ![c].id = i, ![c].pc = "ask"]
    /\ UNCHANGED <<server, history>>

\* What each goes on with.  add and put need a bucket.
First(c, i) ==
    CASE call[c].op \in {"add", "put"} -> IF i \in Bucketed THEN "bucket" ELSE "raised"
      [] call[c].op = "ingest" -> "ingest"
      [] call[c].op = "delete" -> "delete"
      [] OTHER -> IF call[c].op \in Checked /\ in_progress_ingestion(index[i]) THEN "raised" ELSE "ask"

Retrieve(c) ==
    /\ At(c, "retrieve")
    /\ \E a \in Attempts :
          IF Live = {} THEN call' = After(c, a, Raise(c, "not found"))
          ELSE \E i \in Live :
                  LET found == [Go(c, First(c, i)) EXCEPT ![c].id = i, ![c].told =
                                   IF call[c].op \in Questions THEN [ingestions |-> accepted[i], busy |-> Busy(i)] ELSE @]
                  IN call' = After(c, a, IF First(c, i) # "raised" THEN found
                                         ELSE [found EXCEPT ![c].err = IF call[c].op \in Checked THEN "ingestion" ELSE "data source"])
    /\ UNCHANGED <<server, history>>

\* upload of the bucket: the bucket's id, where the file goes, and the file
\* itself, through Orchestrator or straight to a storage.
Locate(c) ==
    /\ \/ At(c, "bucket") /\ \E a \in Attempts : call' = After(c, a, Go(c, "uri"))
       \/ At(c, "uri") /\ \E a \in Attempts, pc \in {"putBehind", "putStraight"} : call' = After(c, a, Go(c, pc))
    /\ UNCHANGED <<server, history>>

AfterPut(c) == Go(c, IF call[c].op = "add" THEN "ingest" ELSE "returned")

PutBehind(c) ==
    /\ At(c, "putBehind")
    /\ \E a \in Attempts :
          /\ bucket' = IF a.applied THEN bucket \cup {c} ELSE bucket
          /\ call' = After(c, a, AfterPut(c))
    /\ UNCHANGED <<index, accepted, ingested, history>>

\* The status of the answer is not looked at.
PutStraight(c) ==
    /\ At(c, "putStraight")
    /\ \/ bucket' = bucket \cup {c} /\ call' = AfterPut(c) /\ UNCHANGED refused
       \/ refused' = refused \cup {c} /\ call' = AfterPut(c) /\ UNCHANGED bucket
       \/ bucket' \in {bucket, bucket \cup {c}} /\ call' = Raise(c, "request") /\ UNCHANGED refused
    /\ UNCHANGED <<index, accepted, ingested, deletedBy>>

\* variant: the files are being ingested anyway
AnyIngestionWillDo(c) == Go(c, "returned")
\* ingest_data on a conflict (409): the clause that would say so is one for
\* HTTPStatusError, and request raises EnrichedException.
Conflict(c) == Raise(c, "request")

\* A conflict with the ingestion the call itself has started looks the same.
Ingest(c) ==
    /\ At(c, "ingest")
    /\ LET i == call[c].id IN
       \E a \in Attempts :
          /\ IF a.applied /\ i \in Live /\ ~Busy(i)
             THEN accepted[i] < MaxIngestions /\ Ingested(i)
             ELSE UNCHANGED <<index, accepted>>
          /\ call' = After(c, a, CASE i \notin Live -> Raise(c, "not found")
                                   [] i \in Live /\ Busy(i) -> [Conflict(c) EXCEPT ![c].hit = TRUE]
                                   [] OTHER -> Go(c, "returned"))
    /\ UNCHANGED <<bucket, ingested, history>>

\* variant: by the name it was found under
ByName(c) == Live
\* What delete_index deletes: what it was told of, if that is still there.
Condemned(c) == {call[c].id} \cap Live

Delete(c) ==
    /\ At(c, "delete")
    /\ \E a \in Attempts :
          /\ IF a.applied
             THEN /\ index' = [i \in Ids |-> IF i \in Condemned(c) THEN "gone" ELSE index[i]]
                  /\ deletedBy' = [i \in Ids |-> IF i \in Condemned(c) THEN deletedBy[i] \cup {c} ELSE deletedBy[i]]
             ELSE UNCHANGED <<index, deletedBy>>
          /\ call' = After(c, a, IF Condemned(c) = {} THEN Raise(c, "not found") ELSE Go(c, "returned"))
    /\ UNCHANGED <<accepted, bucket, ingested, refused>>

\* A search, or the start of a deep search or a batch transform.
Ask(c) ==
    /\ At(c, "ask")
    /\ \E a \in Attempts :
          LET targets == IF call[c].op = "search" THEN Live ELSE {call[c].id} \cap Live
              hit == \E i \in targets : i = call[c].id /\ Busy(i) /\ accepted[i] = call[c].told.ingestions
          IN call' = After(c, a, IF targets = {} THEN Raise(c, "not found")
                                 ELSE [Go(c, "returned") EXCEPT ![c].hit = hit])
    /\ UNCHANGED <<server, history>>

Create(c) ==
    /\ At(c, "create")
    /\ \E a \in Attempts :
          LET fresh == {i \in Ids : index[i] = "none" /\ Live = {}} IN
          IF fresh = {} THEN UNCHANGED index /\ call' = After(c, a, Raise(c, "request"))
          ELSE \E i \in fresh :
                  /\ index' = IF a.applied THEN [index EXCEPT ![i] = "new"] ELSE index
                  /\ call' = After(c, a, [Go(c, "returned") EXCEPT ![c].id = i])
    /\ UNCHANGED <<accepted, bucket, ingested, history>>

-------------------------------------------------------------------------------
Step(c) ==
    \/ Retrieve(c) \/ Locate(c) \/ PutBehind(c) \/ PutStraight(c)
    \/ Ingest(c) \/ Delete(c) \/ Ask(c) \/ Create(c)

Next ==
    \/ \E i \in Ids : IngestionBegins(i) \/ IngestionEnds(i) \/ Others(i)
    \/ \E c \in Calls : Begin(c) \/ Step(c)

Spec == Init /\ [][Next]_vars

-------------------------------------------------------------------------------
\* A file that add_to_index returned for is in the index: an ingestion was run
\* over it or waits to be, unless the storage refused the file or the index is
\* gone (upload before ingest_data, and the conflict that is not swallowed).
AddedIsIngested ==
    \A c \in Calls : call[c].op = "add" /\ At(c, "returned") =>
       \/ c \in ingested[call[c].id] \cup refused
       \/ index[call[c].id] \in {"Queued", "gone"}

\* A deletion takes the index the call looked up, and no other that has its
\* name since; one that returned did take it (delete_by_name, delete_index).
OwnIndexDeleted ==
    /\ \A i \in Ids, c \in Calls : c \in deletedBy[i] => call[c].id = i
    /\ \A c \in Calls : call[c].op = "delete" /\ At(c, "returned") => index[call[c].id] = "gone"
    /\ \A i \in Ids : Cardinality(deletedBy[i]) <= 1

\* A question that is checked is put to an index in the middle of an ingestion
\* only if the ingestion was asked for after the check (in_progress_ingestion).
OnlyLaterIngestions ==
    \A c \in Calls : call[c].op \in Checked => ~call[c].hit

\* What the documentation of ingest_by_name says: "IngestionInProgressException:
\* If ingestion is already in progress".
ConflictNamed ==
    \A c \in Calls : call[c].op = "ingest" /\ call[c].hit => call[c].err = "ingestion"

\* What the errors' documentation says of that exception: "Raised when a search
\* is attempted on an index during ingestion".
SearchRaises ==
    \A c \in Calls : call[c].op \in {"search", "unified", "unchecked"} /\ At(c, "returned") => ~call[c].told.busy

===============================================================================
