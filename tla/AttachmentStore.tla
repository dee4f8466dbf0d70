--------------------------- MODULE AttachmentStore ----------------------------
(***************************************************************************)
(* Attachments (uipath/platform/orchestrator/_attachments_service.py and   *)
(* create_attachment of _jobs_service.py).  An attachment is a record in   *)
(* Orchestrator and a blob in a storage of its own: it is created in the   *)
(* one, which answers with its key and where the blob goes, put into the   *)
(* other, and linked to a job in a third call.  Without a job it is a file *)
(* in a temporary folder, which downloads and deletions fall back on.      *)
(*                                                                         *)
(* The synchronous and the asynchronous methods do the same.               *)
(* Orchestrator and the blob storage are external.                         *)
(*                                                                         *)
(* A definition marked `variant' is a plausible mistake in the one below   *)
(* it; no action uses it.                                                  *)
(***************************************************************************)
EXTENDS ServiceRequest, FiniteSets

CONSTANTS
    Calls,   \* calls of the program, concurrent with one another
    Keys,    \* attachment keys; bound: nothing is created once all are drawn
    Given,   \* attachments the program was given, by a job that made them
    NoKey

StoreAssumption ==
    /\ IsFiniteSet(Calls) /\ IsFiniteSet(Keys)
    /\ Given \subseteq Keys /\ NoKey \notin Keys

VARIABLES
    record,   \* Orchestrator's record of each attachment
    auth,     \* RequiresAuth: the attachments whose blob is behind Orchestrator
    blob,     \* the keys whose content the blob storage holds
    links,    \* the attachments linked to the job
    local,    \* the files in the temporary folder
    call,     \* each call
    owner,    \* history: the call that created a record
    refused   \* history: keys whose content the blob storage refused

server == <<record, auth, blob, links>>
history == <<owner, refused>>
vars == <<server, local, call, history>>

\* `blind': an answer to one of its requests was lost.  `file': what is at the
\* destination of a download.
NoCall == [op |-> "none", pc |-> "idle", key |-> NoKey, tries |-> 1, blind |-> FALSE, file |-> "before"]

Init ==
    /\ record = [k \in Keys |-> IF k \in Given THEN "live" ELSE "none"]
    /\ auth \in SUBSET Given
    /\ blob = Given /\ links = {} /\ local = {}
    /\ call = [c \in Calls |-> NoCall]
    /\ owner = [k \in {} |-> NoCall] /\ refused = {}

Live == {k \in Keys : record[k] = "live"}

\* A key is drawn at random: it is none that ever was one.
Undrawn == {k \in Keys : record[k] = "none" /\ \A d \in Calls : call[d].key # k}
NewKey == CHOOSE k \in Undrawn : TRUE

\* The keys the program knows: what it was given and what its calls returned.
Known == Given \cup {call[c].key : c \in {d \in Calls : call[d].pc = "returned"}}

At(c, pc) == call[c].pc = pc
Go(c, pc) == [call EXCEPT ![c].pc = pc, ![c].tries = 1]

\* variant: what only reads is tried for as long as it takes
AfterReadingOn(c, a, answered) ==
    IF a.seen = "answer" THEN answered
    ELSE IF a.seen = "transient" /\ At(c, "locate") THEN [call EXCEPT ![c].tries = (@ % MaxRetryAttempts) + 1]
    ELSE [call EXCEPT ![c].pc = IF Retries(a, call[c].tries) THEN @ ELSE "raised",
                      ![c].tries = IF Retries(a, @) THEN @ + 1 ELSE @,
                      ![c].blind = @ \/ Unanswered(a)]
\* What becomes of call c after an attempt at its request, if `answered' is
\* where it goes on once it is answered.
After(c, a, answered) ==
    IF a.seen = "answer" THEN answered
    ELSE [call EXCEPT ![c].pc = IF Retries(a, call[c].tries) THEN @ ELSE "raised",
                      ![c].tries = IF Retries(a, @) THEN @ + 1 ELSE @,
                      ![c].blind = @ \/ Unanswered(a)]

-------------------------------------------------------------------------------
(***************************************************************************)
(* Creating an attachment: upload; attach, which is create_attachment for  *)
(* a job; keep, which is create_attachment without one; and write, which   *)
(* is open for writing.                                                    *)
(***************************************************************************)
Creating == {"upload", "attach", "write"}
Using == {"download", "read"}

Begin(c) ==
    /\ At(c, "idle")
    /\ \/ \E op \in Creating : call' = [call EXCEPT ![c].op = op, ![c].pc = "create"]
       \/ call' = [call EXCEPT ![c].op = "keep", ![c].pc = "keep"]
       \/ \E k \in Known, op \in Using : call' = [call EXCEPT ![c].op = op, ![c].pc = "locate", ![c].key = k]
       \/ \E k \in Known : call' = [call EXCEPT ![c].op = "delete", ![c].pc = "delete", ![c].key = k]
    /\ UNCHANGED <<server, local, history>>

\* The record, under a key the caller learns from the answer.
Create(c) ==
    /\ At(c, "create") /\ Undrawn # {}
    /\ \E a \in Attempts :
          /\ IF a.applied
             THEN /\ record' = [record EXCEPT ![NewKey] = "live"]
                  /\ auth' \in {auth, auth \cup {NewKey}}
                  /\ owner' = [k \in DOMAIN owner \cup {NewKey} |-> IF k = NewKey THEN c ELSE owner[k]]
             ELSE UNCHANGED <<record, auth, owner>>
          /\ call' = After(c, a, [Go(c, "put") EXCEPT ![c].key = NewKey])
    /\ UNCHANGED <<blob, links, local, refused>>

\* Where an upload goes on once it has put its content.
AfterPut(c) == IF call[c].op = "attach" THEN "link" ELSE "returned"

\* variant: the outcome is not looked at
PutUnchecked(c) ==
    /\ At(c, "put") /\ call[c].key \in auth /\ call[c].op # "write"
    /\ \E a \in Attempts :
          /\ blob' = IF a.applied THEN blob \cup {call[c].key} ELSE blob
          /\ call' = Go(c, AfterPut(c))
    /\ UNCHANGED <<record, auth, links, local, history>>
\* Through Orchestrator: a request like any other.
PutBehind(c) ==
    /\ At(c, "put") /\ call[c].key \in auth /\ call[c].op # "write"
    /\ \E a \in Attempts :
          /\ blob' = IF a.applied THEN blob \cup {call[c].key} ELSE blob
          /\ call' = After(c, a, Go(c, AfterPut(c)))
    /\ UNCHANGED <<record, auth, links, local, history>>

\* open does not go through Orchestrator: the record stays without content.
NoWriteBehind(c) ==
    /\ At(c, "put") /\ call[c].key \in auth /\ call[c].op = "write"
    /\ call' = Go(c, "raised")
    /\ UNCHANGED <<server, local, history>>

\* Straight to the storage: tried once, and the status of the answer is not
\* looked at; only a connection that breaks raises.
PutStraight(c) ==
    /\ At(c, "put") /\ call[c].key \notin auth
    /\ \/ /\ blob' = blob \cup {call[c].key}
          /\ call' = Go(c, AfterPut(c)) /\ UNCHANGED refused
       \/ /\ refused' = refused \cup {call[c].key}
          /\ call' = Go(c, AfterPut(c)) /\ UNCHANGED blob
       \/ /\ blob' \in {blob, blob \cup {call[c].key}}
          /\ call' = Go(c, "raised") /\ UNCHANGED refused
    /\ UNCHANGED <<record, auth, links, local, owner>>

Link(c) ==
    /\ At(c, "link")
    /\ \E a \in Attempts :
          /\ links' = IF a.applied THEN links \cup {call[c].key} ELSE links
          /\ call' = After(c, a, Go(c, "returned"))
    /\ UNCHANGED <<record, auth, blob, local, history>>

\* A file under a key drawn here.
Keep(c) ==
    /\ At(c, "keep") /\ Undrawn # {}
    /\ local' = local \cup {NewKey}
    /\ call' = [Go(c, "returned") EXCEPT ![c].key = NewKey]
    /\ UNCHANGED <<server, history>>

-------------------------------------------------------------------------------
(***************************************************************************)
(* Using an attachment.  A key Orchestrator does not know, which it        *)
(* answers with a 404, may be a local one to download and delete.          *)
(***************************************************************************)
FromLocal(c) ==
    IF call[c].op = "download" /\ call[c].key \in local
    THEN [Go(c, "returned") EXCEPT ![c].file = "content"]
    ELSE Go(c, "raised")

Locate(c) ==
    /\ At(c, "locate")
    /\ \E a \in Attempts :
          call' = After(c, a, IF call[c].key \in Live THEN Go(c, "fetch") ELSE FromLocal(c))
    /\ UNCHANGED <<server, local, history>>

\* The destination is emptied before anything is fetched.  What comes straight
\* from the storage is written, or handed to the reader, whatever its status;
\* through Orchestrator nothing comes, as open refuses and httpx's request
\* takes no `stream'.
Fetch(c) ==
    /\ At(c, "fetch")
    /\ LET k == call[c].key
           leaves(pc, file) ==
               call' = [Go(c, pc) EXCEPT ![c].file = IF call[c].op = "download" THEN file ELSE @]
       IN \/ leaves("raised", "partial")
          \/ k \notin auth /\ k \in blob /\ leaves("returned", "content")
          \/ k \notin auth /\ leaves("returned", "error page")
    /\ UNCHANGED <<server, local, history>>

Delete(c) ==
    /\ At(c, "delete") /\ call[c].key \in Live
    /\ \E a \in Attempts :
          /\ IF a.applied
             THEN record' = [record EXCEPT ![call[c].key] = "deleted"] /\ blob' = blob \ {call[c].key}
             ELSE UNCHANGED <<record, blob>>
          /\ call' = After(c, a, Go(c, "returned"))
    /\ UNCHANGED <<auth, links, local, history>>

\* variant: what is not there need not be deleted
Forgiving(k) == TRUE
FoundLocally(k) == k \in local

DeleteLocal(c) ==
    /\ At(c, "delete") /\ call[c].key \notin Live
    /\ \E a \in Attempts :
          /\ local' = IF a.seen = "answer" THEN local \ {call[c].key} ELSE local
          /\ call' = After(c, a, Go(c, IF FoundLocally(call[c].key) THEN "returned" ELSE "raised"))
    /\ UNCHANGED <<server, history>>

-------------------------------------------------------------------------------
Step(c) ==
    \/ Create(c) \/ PutBehind(c) \/ NoWriteBehind(c) \/ PutStraight(c) \/ Link(c) \/ Keep(c)
    \/ Locate(c) \/ Fetch(c) \/ Delete(c) \/ DeleteLocal(c)

Next == \E c \in Calls : Begin(c) \/ Step(c)
Spec == Init /\ [][Next]_vars

\* The calls are run; a request is answered, refused or times out.
LiveSpec == Spec /\ \A c \in Calls : WF_vars(Step(c))

-------------------------------------------------------------------------------
Made(c) == {k \in DOMAIN owner : owner[k] = c}

\* A call leaves at most one record in Orchestrator unless an answer was lost,
\* and then at most one an attempt; and it never returns the key of another
\* record than the one it filled (the retried POST of upload).
FewOrphans ==
    \A c \in Calls :
       /\ Cardinality(Made(c)) <= IF call[c].blind THEN MaxRetryAttempts ELSE 1
       /\ call[c].op \in Creating /\ At(c, "returned") =>
             call[c].key \in Made(c) /\ call[c].key \in blob \cup refused \cup {k \in Keys : record[k] = "deleted"}

\* What hangs on the job has its content, unless it was deleted since or the
\* storage refused it, and all that create_attachment returned for a job hangs
\* on it (upload before link_attachment).
LinkedIsWhole ==
    /\ \A k \in links : k \in blob \cup refused \/ record[k] = "deleted"
    /\ \A c \in Calls : call[c].op = "attach" /\ At(c, "returned") => call[c].key \in links

\* Of the deletions of an attachment at most one returns, and then it is
\* neither in Orchestrator nor local; one that raises with no answer lost did
\* not delete it (delete).
DeletedOnce ==
    \A c \in Calls : call[c].op = "delete" =>
       LET k == call[c].key
           others == {d \in Calls \ {c} : call[d].op = "delete" /\ call[d].key = k}
       IN /\ At(c, "returned") => k \notin Live \cup local /\ \A d \in others : ~At(d, "returned")
          /\ At(c, "raised") /\ ~call[c].blind /\ k \notin Live \cup local =>
                \E d \in others : At(d, "returned") \/ call[d].blind

\* Every call ends, though every attempt at a request may fail.
CallsEnd == \A c \in Calls : ~At(c, "idle") ~> At(c, "returned") \/ At(c, "raised")

\* What create_attachment's documentation says it raises: "Exception: If the
\* upload fails".  So what it returned has its content.  The status of the
\* answer of the storage is not looked at.
UploadFailureRaised ==
    \A c \in Calls : call[c].op \in {"upload", "attach"} /\ At(c, "returned") =>
       call[c].key \in blob \/ record[call[c].key] = "deleted"

\* What download's documentation says it raises: "Exception: If the download
\* fails and no local file is found".  So what it returned is the attachment.
DownloadFailureRaised ==
    \A c \in Calls : call[c].op = "download" /\ At(c, "returned") => call[c].file = "content"

===============================================================================
