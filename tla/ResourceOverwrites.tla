--------------------------- MODULE ResourceOverwrites ---------------------------
(***************************************************************************)
(* A deployment may have a program use other resources than it names: a    *)
(* context holds overwrites (uipath/platform/common/_bindings.py), and     *)
(* methods decorated with resource_override apply them to their arguments, *)
(* those that other decorated methods call included.  Entities are routed  *)
(* in two ways of their own (entities/_entity_resolution.py): a set of     *)
(* them is resolved once, with a plan, its entities fetched and a service  *)
(* made that routes by the plan; a service without one looks at the        *)
(* context at every query.                                                 *)
(*                                                                         *)
(* The synchronous and the asynchronous methods do the same.  The folders  *)
(* of Orchestrator and the requests that fetch are external.  Contexts do  *)
(* not nest here: the code warns when they do.                             *)
(*                                                                         *)
(* A definition marked `variant' is a plausible mistake in the one below   *)
(* it; no action uses it.                                                  *)
(***************************************************************************)
EXTENDS Naturals, Sequences, FiniteSets

CONSTANTS
    Names,     \* of resources
    Ids,       \* of entities, which a key may have instead of the name
    Folders,
    None,
    Contexts,  \* the overwrites of a deployment
    Sets       \* the sets of entities an agent names

\* A folder is given by its path or by its key.  The key of an overwrite is the
\* name or the id of what it replaces, and it may have the folder's path.
Places == {"path", "key"} \X Folders
Keys == {<<n>> : n \in Names \cup Ids} \cup (Names \X Folders)
Overwrites == [name : Names, folder : Places]
Items == [name : Names, id : Ids, folder : {"key"} \X Folders]

OverwritesAssumption ==
    /\ Names \cap Ids = {} /\ IsFiniteSet(Folders)
    /\ \A m \in Contexts : DOMAIN m \subseteq Keys /\ \A k \in DOMAIN m : m[k] \in Overwrites
    /\ Sets \subseteq Seq(Items)

VARIABLES
    context,  \* the overwrites in force; None outside a context
    method,   \* the decorated method that was called last, and what it did
    plan,     \* the resolution of a set of entities
    query     \* the last query of a service without a plan

vars == <<context, method, plan, query>>

NoPlan == [pc |-> "none", items |-> <<>>, overwrites |-> <<>>, resolved |-> <<>>,
           fetched |-> {}, left |-> {}]

Init == context = None /\ method = None /\ plan = NoPlan /\ query = None

\* ResourceOverwritesContext: entered before the program does anything.
Enter ==
    /\ context = None /\ method = None /\ plan = NoPlan /\ context' \in Contexts
    /\ UNCHANGED <<method, plan, query>>
Exit ==
    /\ context # None /\ context' = None
    /\ UNCHANGED <<method, plan, query>>

InForce == IF context = None THEN <<>> ELSE context

-------------------------------------------------------------------------------
(***************************************************************************)
(* Decorated methods: arguments are a name, and a folder by path or key.   *)
(***************************************************************************)
Arguments == [name : Names, path : Folders \cup {None}, key : Folders \cup {None}]

\* The key with the folder's path, if there is such an overwrite.
KeyOf(o, q) ==
    IF q.path # None /\ <<q.name, q.path>> \in DOMAIN o THEN <<q.name, q.path>> ELSE <<q.name>>

\* process_args: name and path are replaced, a folder's key stays.
Overridden(o, q) ==
    IF KeyOf(o, q) \notin DOMAIN o THEN q
    ELSE [q EXCEPT !.name = o[KeyOf(o, q)].name, !.path = o[KeyOf(o, q)].folder[2]]

\* header_folder takes a path or a key and raises at both.
Header(q) ==
    IF q.path # None /\ q.key # None THEN "raised" ELSE IF q.path # None THEN q.path ELSE q.key

\* What a method that looks a resource up asks for: retrieve.
Retrieved(o, q) == LET r == Overridden(o, q) IN [name |-> r.name, folder |-> Header(r)]

\* What the arguments of a method called from a decorated one are.
Passed(o, q) == Overridden(o, q)

\* upload, download, delete and the like are decorated, look the resource up by
\* a decorated method, and send what they do to the folder of their arguments.
Use ==
    /\ plan = NoPlan
    /\ \E q \in Arguments :
          /\ q.path = None \/ q.key = None
          /\ method' = [overwrites |-> InForce, arguments |-> q,
                        found |-> Retrieved(InForce, Passed(InForce, q)),
                        folder |-> Header(Overridden(InForce, q))]
    /\ UNCHANGED <<context, plan, query>>

-------------------------------------------------------------------------------
(***************************************************************************)
(* The resolution of a set of entities.                                    *)
(***************************************************************************)
\* The overwrite of an item, by its id or else by its name.
OverwriteKey(item) == IF <<item.id>> \in DOMAIN plan.overwrites THEN <<item.id>> ELSE <<item.name>>
Overwritten(item) == OverwriteKey(item) \in DOMAIN plan.overwrites
Overwrite(item) == plan.overwrites[OverwriteKey(item)]

Place(item) == IF Overwritten(item) THEN Overwrite(item).folder ELSE item.folder
Renamed(item) == Overwritten(item) /\ Overwrite(item).name # item.name

\* variant: only those with another name are fetched by it
OnlyRenamed(item) == Renamed(item)
\* Fetched by name, in the folder of the overwrite; the others by their key.
ByName(item) == Renamed(item) \/ (Overwritten(item) /\ Place(item) # item.folder)

\* The folders to look up, those given by a path.
Paths == {Place(plan.items[i]) : i \in DOMAIN plan.items} \cap ({"path"} \X Folders)

\* create_resolution_draft
BeginResolve ==
    /\ plan = NoPlan /\ method = None
    /\ \E s \in Sets :
          plan' = [NoPlan EXCEPT !.pc = "paths", !.items = s, !.overwrites = InForce]
    /\ UNCHANGED <<context, method, query>>

\* One path is looked up: its key, or the path itself if it is not found.
Looked(place, found) == IF found THEN <<"key", place[2]>> ELSE place
ResolvePath ==
    /\ plan.pc = "paths"
    /\ \E p \in Paths \ DOMAIN plan.resolved, found \in BOOLEAN :
          \/ plan' = [plan EXCEPT !.resolved =
                         [x \in DOMAIN @ \cup {p} |-> IF x = p THEN Looked(p, found) ELSE @[x]]]
          \/ plan' = [plan EXCEPT !.pc = "raised"]
    /\ UNCHANGED <<context, method, query>>

\* finalize_resolution_plan
Finalize ==
    /\ plan.pc = "paths" /\ Paths \subseteq DOMAIN plan.resolved
    /\ plan' = [plan EXCEPT !.pc = "fetch", !.left = DOMAIN plan.items]
    /\ UNCHANGED <<context, method, query>>

Resolved(place) == IF place \in DOMAIN plan.resolved THEN plan.resolved[place] ELSE place

\* What is asked for to fetch an item.
Wanted(item) ==
    [name |-> IF ByName(item) THEN Overwrite(item).name ELSE item.name,
     folder |-> IF ByName(item) THEN Resolved(Place(item)) ELSE item.folder]

\* fetch_resolved_entities: one that cannot be fetched is skipped.
Fetch ==
    /\ plan.pc = "fetch"
    /\ \E i \in plan.left, skipped \in BOOLEAN :
          plan' = [plan EXCEPT !.left = @ \ {i}, !.fetched = IF skipped THEN @ ELSE @ \cup {i}]
    /\ UNCHANGED <<context, method, query>>

\* folders_map and effective_entity_names go by the item's name: of several of
\* one name the last one counts.
Named(n) == {i \in DOMAIN plan.items : plan.items[i].name = n}
LastOf(S) == CHOOSE i \in S : \A j \in S : j <= i
RenamedOf(n) == {i \in Named(n) : Renamed(plan.items[i])}
Routes ==
    {[entity |-> n,
      folder |-> Resolved(Place(plan.items[LastOf(Named(n))])),
      as |-> IF RenamedOf(n) = {} THEN n ELSE Overwrite(plan.items[LastOf(RenamedOf(n))]).name] :
        n \in {plan.items[i].name : i \in DOMAIN plan.items}}

\* build_resolution_service
Serve ==
    /\ plan.pc = "fetch" /\ plan.left = {}
    /\ plan' = [plan EXCEPT !.pc = "ready"]
    /\ UNCHANGED <<context, method, query>>

\* A query of a service without a plan: each overwrite is a route, for what its
\* key says after the type, and each path is looked up again.
RouteOf(k, found) ==
    [entity |-> IF Len(k) = 1 THEN k[1] ELSE k,
     folder |-> IF InForce[k].folder[1] = "key" THEN InForce[k].folder
                ELSE Looked(InForce[k].folder, InForce[k].folder[2] \in found),
     as |-> InForce[k].name]
Query ==
    /\ plan.pc = "ready"
    /\ \E found \in SUBSET Folders :
          query' = [overwrites |-> InForce, found |-> found, routes |-> {RouteOf(k, found) : k \in DOMAIN InForce}]
    /\ UNCHANGED <<context, method, plan>>

-------------------------------------------------------------------------------
Next ==
    \/ Enter \/ Exit \/ Use
    \/ BeginResolve \/ ResolvePath \/ Finalize \/ Fetch \/ Serve \/ Query

Spec == Init /\ [][Next]_vars

-------------------------------------------------------------------------------
\* A method uses the resource that a look-up with its arguments would find, in
\* the folder it was found in, unless a name that takes the place of another is
\* itself overwritten in another way (resource_override is applied twice).
UsedAsFound ==
    method # None =>
       LET o == method.overwrites
           found == Retrieved(o, method.arguments)
       IN  \/ \E k, l \in DOMAIN o : o[k].name = l[1] /\ o[k] # o[l]
           \/ method.found = found /\ method.folder = found.folder

\* A query of an entity that was fetched goes where it was fetched from, if its
\* name is the only one of its kind in the set (create_resolution_draft).
RoutedWhereFetched ==
    plan.pc = "ready" => \A i \in plan.fetched :
       LET item == plan.items[i] IN
       Cardinality(Named(item.name)) = 1 =>
          [entity |-> item.name, folder |-> Wanted(item).folder, as |-> Wanted(item).name] \in Routes

\* Under the same overwrites both kinds of services route an entity alike, if it
\* is the only one of its name, is overwritten by that, and its folder is found
\* by both or neither (ContextOverwriteRoutingStrategy, FoldersMapRoutingStrategy).
RoutesAgree ==
    plan.pc = "ready" /\ query # None => \A route \in Routes :
       LET item == plan.items[LastOf(Named(route.entity))] IN
       (/\ query.overwrites = plan.overwrites
        /\ Cardinality(Named(item.name)) = 1
        /\ Overwritten(item) /\ OverwriteKey(item) = <<item.name>>
        /\ Place(item)[1] = "path" =>
              Resolved(Place(item)) = Looked(Place(item), Place(item)[2] \in query.found))
       => route \in query.routes

\* Not so in the code: each of several entities of one name is routed where it
\* was fetched from (folders_map goes by the name) ...
EachIsRouted ==
    plan.pc = "ready" => \A i \in plan.fetched :
       [entity |-> plan.items[i].name, folder |-> Wanted(plan.items[i]).folder,
        as |-> Wanted(plan.items[i]).name] \in Routes

\* ... a service without a plan routes what is overwritten by its id ...
RoutedById == query # None => \A route \in query.routes : route.entity \in Names

\* ... a resource whose folder is given by its key can be overwritten ...
KeyAllowsOverwrite == method # None => method.folder # "raised"

\* ... and overwrites that lead to one another are applied once.
AppliedOnce == method # None => method.found = Retrieved(method.overwrites, method.arguments)

===============================================================================
