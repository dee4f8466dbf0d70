------------------------------ MODULE PagedLookup ------------------------------
(***************************************************************************)
(* Walking a collection of the platform page by page while others add to   *)
(* it and remove from it: the folder looked up by its path                 *)
(* (orchestrator/_folder_service.py), the resources of the catalogue       *)
(* (resource_catalog/_resource_catalog_service.py), the files of a bucket  *)
(* (_buckets_service.py: get_files, list_files and exists_file), buckets,  *)
(* jobs and assets (_assets_service.py), the records of an entity          *)
(* (entities/_entity_data_service.py) and the jobs asked for by key        *)
(* (_jobs_service.py).  A program that asks for single pages asks for them *)
(* in the loop that common/paging.py gives.                                *)
(*                                                                         *)
(* The synchronous and the asynchronous methods do the same.  The          *)
(* collection, and the pages the service cuts from it, are external.       *)
(*                                                                         *)
(* A definition marked `variant' is a plausible mistake in the one below   *)
(* it; no action uses it.                                                  *)
(***************************************************************************)
EXTENDS Naturals, FiniteSets, FiniteSetsExt, Functions, Sequences

CONSTANTS
    N,            \* entries are 1 .. N, in the order the service lists them
    Directories,  \* the entries that are directories of a bucket
    Takes,        \* page sizes: 20, at most 100, up to a 1000, or chunks of 50
    MaxSkip,      \* MAX_SKIP_OFFSET
    MaxKeys       \* bound: keys asked for

Entries == 1 .. N

PagedAssumption ==
    /\ N \in Nat /\ Directories \subseteq Entries /\ Takes \subseteq Nat \ {0} /\ MaxSkip \in Nat /\ MaxKeys \in Nat

VARIABLES
    collection,  \* the entries there are
    walk,        \* the walk
    always,      \* history: the entries that were there all along
    added,       \* history: those added since it began
    removed      \* history: those removed since

vars == <<collection, walk, always, added, removed>>

\* find is retrieve_key; each is search, list and list_by_type of the catalogue;
\* pages is get_files; listed is the list of buckets, jobs and assets; files is
\* list_files; records is list_records and retrieve_records with a limit; exists
\* is exists_file; keys is _resolve_job_identifiers.
\* `from' is the number of entries, or of keys, to skip, or the last entry the
\* continuation token stands for; `twice' is what was got more than once.
NoWalk ==
    [kind |-> "none", take |-> 1, target |-> 0, asked |-> <<>>, from |-> 0, got |-> {}, twice |-> {}, pc |-> "idle"]

Init ==
    /\ collection \in SUBSET Entries
    /\ walk = NoWalk
    /\ always = collection /\ added = {} /\ removed = {}

Others ==
    /\ walk.pc = "walking"
    /\ \/ \E e \in Entries \ collection :
             collection' = collection \cup {e} /\ added' = added \cup {e} /\ UNCHANGED <<always, removed>>
       \/ \E e \in collection :
             collection' = collection \ {e} /\ removed' = removed \cup {e} /\ always' = always \ {e} /\ UNCHANGED added
    /\ UNCHANGED walk

-------------------------------------------------------------------------------
Begin(kind, take, target, asked) ==
    /\ walk.pc = "idle"
    /\ walk' = [NoWalk EXCEPT !.kind = kind, !.take = take, !.target = target, !.asked = asked, !.pc = "walking"]
    /\ UNCHANGED <<collection, always, added, removed>>

BeginWalk ==
    \E take \in Takes :
       \/ \E kind \in {"find", "exists"}, e \in Entries : Begin(kind, take, e, <<>>)
       \/ \E kind \in {"each", "pages", "listed", "files", "records"} : Begin(kind, take, 0, <<>>)
       \/ \E n \in 1 .. MaxKeys : \E asked \in [1 .. n -> Entries] : Begin("keys", take, 0, asked)

\* Where an entry is in the list of those there are, or would be.
Place(e) == Cardinality({x \in collection : x <= e})

\* A page of at most `take', after the first `from'.
OnPage(n) == walk.from < n /\ n <= walk.from + walk.take

\* A page by offset.
Page == {e \in collection : OnPage(Place(e))}

\* variant: one more page is asked for only if this one had too many
NotFullBeforeLast(page) == Cardinality(page) <= walk.take
Short(page) == Cardinality(page) < walk.take

\* variant: the last entry of a page is the first of the next
OneBack == walk.from + walk.take - 1
NextSkip == walk.from + walk.take

\* What was got before, and these.
With(entries) == [walk EXCEPT !.got = @ \cup entries, !.twice = @ \cup (walk.got \cap entries)]
\* variant: the same page again
SamePage(so) == so
GoOn(so) == [so EXCEPT !.from = NextSkip]
Done(so) == [so EXCEPT !.pc = "done"]
Raised(so) == [so EXCEPT !.pc = "raised"]

Walking(kinds) == walk.pc = "walking" /\ walk.kind \in kinds /\ UNCHANGED <<collection, always, added, removed>>

\* retrieve_key: until the folder is on the page or the page is short.
Find ==
    /\ Walking({"find"})
    /\ walk' = IF walk.target \in Page THEN Done(With({walk.target}))
               ELSE IF Short(Page) THEN Done(walk) ELSE GoOn(walk)

\* search, list and list_by_type: until a page is empty or short.
Each ==
    /\ Walking({"each"})
    /\ walk' = IF Page = {} \/ Short(Page) THEN Done(With(Page)) ELSE GoOn(With(Page))

\* has_more of the pages by offset, and the offsets they take.
Full(page) == Cardinality(page) = walk.take
TooFar == walk.from > MaxSkip

\* get_files returns the files of the page, and says that there are more by
\* the page, directories and all; it takes no offset beyond the maximum.
GetFiles ==
    /\ Walking({"pages"})
    /\ LET so == With(Page \ Directories)
       IN walk' = IF TooFar THEN Raised(walk) ELSE IF Full(Page) THEN GoOn(so) ELSE Done(so)

\* list says that there are more if the page is full, up to the same maximum.
ListPage ==
    /\ Walking({"listed"})
    /\ walk' = IF TooFar THEN Raised(walk)
               ELSE IF Full(Page) THEN GoOn(With(Page)) ELSE Done(With(Page))

\* list_records and retrieve_records say so by the number of records there are.
HasNextPage == walk.from + Cardinality(Page) < Cardinality(collection)
ListRecords ==
    /\ Walking({"records"})
    /\ walk' = IF HasNextPage THEN GoOn(With(Page)) ELSE Done(With(Page))

\* A page by continuation token, and the walk at the token that comes with it.
After == {e \in collection : e > walk.from}
TokenPage == {e \in After : Cardinality({x \in After : x <= e}) <= walk.take}
OnFromToken(so) ==
    IF Cardinality(After) <= walk.take THEN Done(so) ELSE [so EXCEPT !.from = Max(TokenPage)]

\* list_files goes by tokens until there is none, and so does exists_file, unless
\* the file is on the page.
ListFiles == Walking({"files"}) /\ walk' = OnFromToken(With(TokenPage))
Exists ==
    /\ Walking({"exists"})
    /\ walk' = IF walk.target \in TokenPage THEN Done(With({walk.target})) ELSE OnFromToken(walk)

\* variant: all the keys asked for, some of them twice
AsAsked(asked) == DOMAIN asked
\* The keys to ask for are those at these places of the list, in this order.
Unique(asked) == {i \in DOMAIN asked : \A j \in 1 .. i - 1 : asked[j] # asked[i]}

\* Chunks of the keys; if one of them has not been found they all are refused.
Resolve ==
    /\ Walking({"keys"})
    /\ LET keys == Unique(walk.asked)
           chunk == {walk.asked[i] : i \in {k \in keys : OnPage(Cardinality({j \in keys : j <= k}))}}
           so == With(chunk \cap collection)
       IN walk' = IF NextSkip < Cardinality(keys) THEN GoOn(so)
                  ELSE IF Cardinality(so.got) # Cardinality(keys) THEN Raised(so) ELSE Done(so)

\* A request that fails for good ends the walk.
Kinds == {"find", "each", "pages", "listed", "files", "records", "exists", "keys"}
Fail == Walking(Kinds) /\ walk' = [Raised(walk) EXCEPT !.kind = "failed"]

NextPage == Find \/ Each \/ GetFiles \/ ListPage \/ ListRecords \/ ListFiles \/ Exists \/ Resolve

Next == Others \/ BeginWalk \/ NextPage \/ Fail
Spec == Init /\ [][Next]_vars

\* The program walks on; others may add and remove for ever.
LiveSpec == Spec /\ WF_vars(NextPage)

-------------------------------------------------------------------------------
\* What the walk is to bring.
Wanted ==
    CASE walk.kind \in {"find", "exists"} -> {walk.target}
      [] walk.kind = "pages" -> Entries \ Directories
      [] OTHER -> Entries

\* An entry that was there all along is missed by no walk with tokens, and by
\* one with offsets only if another listed before it was removed meanwhile
\* (`len < take' and has_more).
NothingMissed ==
    walk.pc = "done" /\ walk.kind # "keys" =>
       \A e \in (Wanted \cap always) \ walk.got :
          walk.kind \notin {"exists", "files"} /\ \E r \in removed : r < e

\* An entry comes twice only by offsets, and if one was added before it
\* meanwhile, or it was itself removed and added again (skip).  No key is asked
\* for twice.
NothingTwice == \A e \in walk.twice : walk.kind \notin {"files", "keys"} /\ \E a \in added : a <= e

\* Keys are refused only if one of them was missing at some time, and are
\* answered only if each of them was found (_resolve_job_identifiers).
RefusedForMissing ==
    walk.kind = "keys" =>
       /\ walk.pc = "raised" => Range(walk.asked) \ always # {}
       /\ walk.pc = "done" => walk.got = Range(walk.asked)

\* A walk ends, though others add and remove all the time.
WalkEnds == walk.pc = "walking" ~> walk.pc \in {"done", "raised"}

===============================================================================
