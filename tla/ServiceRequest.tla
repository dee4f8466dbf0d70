---------------------------- MODULE ServiceRequest ----------------------------
(***************************************************************************)
(* One request of a service client: BaseService.request and request_async  *)
(* (uipath/platform/common/_base_service.py, retry.py), which every client *)
(* of the platform's services goes through.  A request is attempted up to  *)
(* MAX_RETRY_ATTEMPTS times, whatever its method: a POST that took effect  *)
(* and was not answered in time is sent again.                             *)
(***************************************************************************)
EXTENDS Naturals

CONSTANT MaxRetryAttempts

ASSUME RequestAssumption == MaxRetryAttempts \in Nat \ {0}

-------------------------------------------------------------------------------
(***************************************************************************)
(* What one attempt comes to.  It took effect at the service or it did     *)
(* not; and the client sees its answer, or a failure that may pass (a      *)
(* timeout, or a status such as 429 or 503), or another (a refusal, or a   *)
(* broken connection, after which nobody knows whether it took effect).    *)
(***************************************************************************)
Attempts == {a \in [applied : BOOLEAN, seen : {"answer", "transient", "fatal"}] :
                a.seen = "answer" => a.applied}

\* variant: an attempt too many
RetriesOnceMore(a, n) == a.seen = "transient" /\ n <= MaxRetryAttempts
\* variant: a failure is never tried again
RetriesNever(a, n) == FALSE
\* Whether the n-th attempt is followed by another.
Retries(a, n) == a.seen = "transient" /\ n < MaxRetryAttempts

\* The answer was lost: the service did what the client does not know of.
Unanswered(a) == a.applied /\ a.seen # "answer"

\* What becomes of a call r after an attempt at its request, if `answered' is
\* the call once it is answered.
Tried(r, a, answered) ==
    IF a.seen = "answer" THEN answered
    ELSE [r EXCEPT !.pc = IF Retries(a, r.tries) THEN @ ELSE "raised",
                   !.tries = IF Retries(a, @) THEN @ + 1 ELSE @,
                   !.blind = @ \/ Unanswered(a)]

===============================================================================
