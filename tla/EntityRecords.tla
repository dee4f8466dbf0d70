----------------------------- MODULE EntityRecords -----------------------------
(***************************************************************************)
(* Records of Data Fabric's entities: inserted, updated and deleted one by *)
(* one or in batches                                                       *)
(* (uipath/platform/entities/_entity_data_service.py, and the facade in    *)
(* _entities_service.py that passes every call on).  A batch may fail in   *)
(* part: the service answers with what succeeded and what did not, as a    *)
(* success or as status 400, and the client makes one response of both.    *)
(*                                                                         *)
(* The synchronous and the asynchronous methods do the same.  The service  *)
(* is external.  What a record holds is left out, but for whether the      *)
(* service takes it and whether it fits the program's schema.              *)
(*                                                                         *)
(* A definition marked `variant' is a plausible mistake in the one below   *)
(* it; no action uses it.                                                  *)
(***************************************************************************)
EXTENDS ServiceRequest, FiniteSets

CONSTANTS
    Calls,  \* calls of the program, concurrent with one another
    Rows,   \* ids of records; bound: nothing is inserted once all were drawn
    Given,  \* the records that are there at first
    N       \* bound: of records in a batch

RecordsAssumption ==
    /\ IsFiniteSet(Calls) /\ IsFiniteSet(Rows) /\ Given \subseteq Rows
    /\ N \in Nat \ {0}

VARIABLES
    rows,  \* what became of each record
    call,  \* each call
    did    \* history: which of its records each call changed, and in which row

vars == <<rows, call, did>>

\* `on' are the rows of a batch that updates or deletes, `bad' the records the
\* service refuses, `first' is fail_on_first and `misfit' whether an answer
\* does not have the shape of the schema.
NoCall == [op |-> "none", pc |-> "idle", batch |-> FALSE, size |-> 0, on |-> <<>>, bad |-> {},
           first |-> FALSE, schema |-> FALSE, misfit |-> FALSE,
           success |-> {}, failure |-> {}, tries |-> 1, blind |-> FALSE]

Init ==
    /\ rows = [r \in Rows |-> IF r \in Given THEN "there" ELSE "none"]
    /\ call = [c \in Calls |-> NoCall] /\ did = [c \in Calls |-> {}]

At(c, pc) == call[c].pc = pc
Go(c, pc) == [call[c] EXCEPT !.pc = pc]
Becomes(c, r) == call' = [call EXCEPT ![c] = r]

-------------------------------------------------------------------------------
(***************************************************************************)
(* Calls begin.                                                            *)
(***************************************************************************)
\* insert_record, and insert_records with a schema or without.
BeginInsert(c) ==
    \E n \in 1 .. N, batch, first, schema \in BOOLEAN : \E bad \in SUBSET (1 .. n) :
       /\ ~batch => n = 1 /\ ~first /\ ~schema
       /\ Becomes(c, [NoCall EXCEPT !.op = "insert", !.pc = "ask", !.batch = batch, !.size = n,
                                    !.bad = bad, !.first = first, !.schema = schema])

\* update_record and update_records.  A record of a batch that does not fit the
\* schema raises before anything is sent.
BeginUpdate(c) ==
    \E n \in 1 .. N, batch, first, schema \in BOOLEAN :
    \E bad \in SUBSET (1 .. n), on \in [1 .. n -> Given] :
       /\ ~batch => n = 1 /\ ~first /\ ~schema
       /\ \A i, j \in 1 .. n : on[i] = on[j] => i = j
       /\ \E pc \in IF schema THEN {"ask", "raised"} ELSE {"ask"} :
             Becomes(c, [NoCall EXCEPT !.op = "update", !.pc = pc, !.batch = batch, !.size = n,
                                       !.on = on, !.bad = bad, !.first = first, !.schema = schema])

\* delete_record and delete_records.
BeginDelete(c) ==
    \E n \in 1 .. N, batch, first \in BOOLEAN, on \in UNION {[1 .. m -> Given] : m \in 1 .. N} :
       /\ DOMAIN on = 1 .. n /\ (~batch => n = 1 /\ ~first)
       /\ \A i, j \in 1 .. n : on[i] = on[j] => i = j
       /\ Becomes(c, [NoCall EXCEPT !.op = "delete", !.pc = "ask", !.batch = batch, !.size = n,
                                    !.on = on, !.first = first])

Begin(c) ==
    /\ At(c, "idle")
    /\ BeginInsert(c) \/ BeginUpdate(c) \/ BeginDelete(c)
    /\ UNCHANGED <<rows, did>>

-------------------------------------------------------------------------------
(***************************************************************************)
(* What the service does with the records of a request, in their order.    *)
(***************************************************************************)
Refused(r) == {i \in 1 .. r.size : i \in r.bad \/ (r.op # "insert" /\ rows[r.on[i]] # "there")}

\* Told to fail on the first, it goes no further than that.
Reached(r) == {i \in 1 .. r.size : r.first => \A j \in Refused(r) : i <= j}
Done(r) == Reached(r) \ Refused(r)
Failed(r) == Reached(r) \cap Refused(r)

\* The row each record that is done goes to; new rows for those inserted, and
\* it does not matter which.
Undrawn(r) ==
    {f \in [Done(r) -> {x \in Rows : rows[x] = "none"}] : \A i, j \in Done(r) : f[i] = f[j] => i = j}
Targets(r) ==
    IF r.op # "insert" THEN {[i \in Done(r) |-> r.on[i]]}
    ELSE LET u == Undrawn(r) IN IF u = {} THEN {} ELSE {CHOOSE f \in u : TRUE}

Take(c, t) ==
    /\ rows' = [x \in Rows |-> IF \A i \in Done(call[c]) : t[i] # x THEN rows[x]
                               ELSE IF call[c].op = "delete" THEN "gone" ELSE "there"]
    /\ did' = [did EXCEPT ![c] = @ \cup {<<i, t[i]>> : i \in Done(call[c])}]

-------------------------------------------------------------------------------
(***************************************************************************)
(* What the client makes of the answer.                                    *)
(***************************************************************************)
Response(r, t) ==
    [r EXCEPT !.pc = "returned", !.success = {<<i, t[i]>> : i \in Done(r)}, !.failure = Failed(r)]

\* variant: a status of 400 raises, whatever its body says
RaisedAt400(r, status) == FALSE
\* _extract_batch_response_from_error: the body of a 400 lists both kinds.
Extracted(r, status) == r.batch /\ status = 400

\* A success of an insertion or an update is checked against the schema, one
\* taken from an error or of a deletion is not.
Checked(r, status) == r.schema /\ status = 200 /\ r.op # "delete"

\* A record on its own that is refused is an error; a batch with failures may
\* be answered as either.
Statuses(r) ==
    IF Failed(r) = {} THEN {200} ELSE IF r.batch THEN {200, 400} ELSE {400}

Answered(r, status, t) ==
    IF status = 200 THEN
       {Response(r, t)} \cup
       IF Checked(r, status) THEN {[r EXCEPT !.pc = "raised", !.misfit = TRUE]} ELSE {}
    ELSE IF Extracted(r, status) THEN {Response(r, t)}
    ELSE {[r EXCEPT !.pc = "raised"]}

\* The request of a call, its refusal as a whole among the attempts.
Ask(c) ==
    /\ At(c, "ask")
    /\ \E a \in Attempts, status \in Statuses(call[c]), t \in Targets(call[c]) :
       \E r \in Answered(call[c], status, t) :
          /\ IF a.applied THEN Take(c, t) ELSE UNCHANGED <<rows, did>>
          /\ Becomes(c, Tried(call[c], a, r))

Next == \E c \in Calls : Begin(c) \/ Ask(c)
Spec == Init /\ [][Next]_vars

-------------------------------------------------------------------------------
\* A call that raises has changed nothing, unless an answer was lost or did not
\* fit the schema (_request_or_extract_batch).
RaisedIsClean ==
    \A c \in Calls : At(c, "raised") /\ ~call[c].blind /\ ~call[c].misfit => did[c] = {}

\* A batch that returns says of each of its records, or of those up to the first
\* failure, that it succeeded or failed and not both; what it says succeeded did,
\* and what it says failed did not, unless an answer was lost
\* (validate_entity_batch, _extract_batch_response_from_error).
ReportIsTrue ==
    \A c \in Calls : At(c, "returned") =>
       LET r == call[c]
           ok == {s[1] : s \in r.success}
       IN  /\ r.success \subseteq did[c] /\ ok \cap r.failure = {}
           /\ IF r.first /\ r.failure # {}
              THEN \E i \in r.failure : r.failure = {i} /\ ok = 1 .. (i - 1)
              ELSE ok \cup r.failure = 1 .. r.size
           /\ ~r.blind => did[c] = r.success

\* Each record is inserted, updated or deleted at most once, or once an attempt
\* if an answer was lost, in a row no other call inserted it into.
ChangedOnce ==
    \A c \in Calls :
       /\ \A i \in 1 .. call[c].size :
             Cardinality({s \in did[c] : s[1] = i}) <= IF call[c].blind THEN MaxRetryAttempts ELSE 1
       /\ call[c].op = "insert" => \A d \in Calls \ {c} :
             call[d].op = "insert" => {s[2] : s \in did[c]} \cap {s[2] : s \in did[d]} = {}

===============================================================================
