---------------------------- MODULE ServicesProofs ----------------------------
(***************************************************************************)
(* Proofs about the other models Services brings together; OneService and  *)
(* the lemmas about numbers are those of ChangeProofs.                     *)
(***************************************************************************)
EXTENDS ChangeProofs

-------------------------------------------------------------------------------
(***************************************************************************)
(* ResourceOverwrites, for any names, folders and overwrites.              *)
(*                                                                         *)
(* The argument: what a method or a query has recorded is what it does     *)
(* under the overwrites of its time, so each property is one of the        *)
(* operators: an overwrite applied to what it has made changes nothing, a  *)
(* folder given by its key is not looked up, and a name that one item has  *)
(* is of that item.                                                        *)
(***************************************************************************)
LEMMA OverwritesCardinality ==
    /\ \A S : Overwrites!Cardinality(S) = Cardinality(S)
    /\ \A S : Overwrites!IsFiniteSet(S) <=> IsFiniteSet(S)
<1>1. \A S : Overwrites!IsFiniteSet(S) <=> IsFiniteSet(S)
  BY DEF Overwrites!IsFiniteSet, IsFiniteSet
<1>2. \A S : Overwrites!Cardinality(S) = Cardinality(S)
  BY DEF Overwrites!Cardinality, Cardinality, Overwrites!IsFiniteSet, IsFiniteSet
<1> QED BY <1>1, <1>2

OverwritesInAnyForce == Contexts \cup {<<>>}
OverwritesResolutions == UNION {[D -> Overwrites!Places] : D \in SUBSET ({"path"} \X Folders)}
OverwritesPlans ==
    [pc : {"none", "paths", "fetch", "ready", "raised"}, items : EntitySets \cup {<<>>},
     overwrites : OverwritesInAnyForce,
     resolved : OverwritesResolutions, fetched : SUBSET Nat, left : SUBSET Nat]

\* What a method or a query has recorded is what it does under the overwrites of
\* its time; a resolution looks up nothing but folders given by a path.
OverwritesIInv ==
    /\ context = None \/ context \in Contexts
    /\ method # None => \E o \in OverwritesInAnyForce, q \in Overwrites!Arguments :
          method = [overwrites |-> o, arguments |-> q, found |-> Overwrites!Retrieved(o, Overwrites!Passed(o, q)),
                    folder |-> Overwrites!Header(Overwrites!Overridden(o, q))]
    /\ plan \in OverwritesPlans /\ plan.fetched \cup plan.left \subseteq DOMAIN plan.items
    /\ query # None => \E o \in OverwritesInAnyForce, found \in SUBSET Folders :
          query = [overwrites |-> o, found |-> found,
                   routes |-> {[entity |-> IF Len(k) = 1 THEN k[1] ELSE k,
                                folder |-> IF o[k].folder[1] = "key" THEN o[k].folder
                                           ELSE Overwrites!Looked(o[k].folder, o[k].folder[2] \in found),
                                as |-> o[k].name] : k \in DOMAIN o}]

LEMMA OverwritesInForceIs ==
    ASSUME Overwrites!OverwritesAssumption
    PROVE  \A o \in OverwritesInAnyForce :
              DOMAIN o \subseteq Overwrites!Keys /\ \A k \in DOMAIN o : o[k] \in Overwrites!Overwrites
  BY DEF Overwrites!OverwritesAssumption, OverwritesInAnyForce

\* Applied to what it has made, an overwrite changes nothing, but by another.
LEMMA OverwritesAppliedAgain ==
    ASSUME Overwrites!OverwritesAssumption, NEW o \in OverwritesInAnyForce, NEW q \in Overwrites!Arguments
    PROVE  \/ \E k, l \in DOMAIN o : o[k].name = l[1] /\ o[k] # o[l]
           \/ Overwrites!Overridden(o, Overwrites!Overridden(o, q)) = Overwrites!Overridden(o, q)
<1> DEFINE r == Overwrites!Overridden(o, q)
           k == Overwrites!KeyOf(o, q)
           l == Overwrites!KeyOf(o, r)
<1>1. CASE k \notin DOMAIN o
  BY <1>1 DEF Overwrites!Overridden
<1>2. CASE k \in DOMAIN o
  <2>1. r = [q EXCEPT !.name = o[k].name, !.path = o[k].folder[2]]
    BY <1>2 DEF Overwrites!Overridden
  <2>2. r.name = o[k].name /\ r.path = o[k].folder[2] /\ r.key = q.key
        /\ r = [name |-> o[k].name, path |-> o[k].folder[2], key |-> q.key]
    BY <2>1 DEF Overwrites!Arguments
  <2>3. l[1] = r.name
    BY DEF Overwrites!KeyOf
  <2> HIDE DEF r, k, l
  <2>4. CASE l \notin DOMAIN o
    BY <2>4 DEF Overwrites!Overridden, r, l
  <2>5. CASE l \in DOMAIN o /\ o[k] # o[l]
    BY <1>2, <2>2, <2>3, <2>5
  <2>6. CASE l \in DOMAIN o /\ o[k] = o[l]
    <3>1. Overwrites!Overridden(o, r) = [r EXCEPT !.name = o[l].name, !.path = o[l].folder[2]]
      BY <2>6 DEF Overwrites!Overridden, l
    <3>2. Overwrites!Overridden(o, r) = r
      BY <2>2, <2>6, <3>1
    <3> QED BY <3>2 DEF r
  <2> QED BY <2>4, <2>5, <2>6
<1> QED BY <1>1, <1>2

LEMMA OverwritesUsedWhereFound ==
    ASSUME Overwrites!OverwritesAssumption, OverwritesIInv
    PROVE  Overwrites!UsedAsFound
<1> SUFFICES ASSUME method # None
             PROVE  LET o == method.overwrites
                        found == Overwrites!Retrieved(o, method.arguments)
                    IN  \/ \E k, l \in DOMAIN o : o[k].name = l[1] /\ o[k] # o[l]
                        \/ method.found = found /\ method.folder = found.folder
  BY DEF Overwrites!UsedAsFound
<1>1. PICK o \in OverwritesInAnyForce, q \in Overwrites!Arguments :
          method = [overwrites |-> o, arguments |-> q, found |-> Overwrites!Retrieved(o, Overwrites!Passed(o, q)),
                    folder |-> Overwrites!Header(Overwrites!Overridden(o, q))]
  BY DEF OverwritesIInv
<1>2. /\ method.overwrites = o /\ method.arguments = q
      /\ method.found = Overwrites!Retrieved(o, Overwrites!Overridden(o, q))
         /\ method.folder = Overwrites!Header(Overwrites!Overridden(o, q))
  BY <1>1 DEF Overwrites!Passed
<1>3. Overwrites!Overridden(o, Overwrites!Overridden(o, q)) = Overwrites!Overridden(o, q)
      => /\ Overwrites!Retrieved(o, Overwrites!Overridden(o, q)) = Overwrites!Retrieved(o, q)
         /\ Overwrites!Retrieved(o, q).folder = Overwrites!Header(Overwrites!Overridden(o, q))
  BY DEF Overwrites!Retrieved
<1> QED BY <1>2, <1>3, OverwritesAppliedAgain

LEMMA OverwritesItemsAre ==
    ASSUME Overwrites!OverwritesAssumption, OverwritesIInv
    PROVE  plan.items \in Seq(Overwrites!Items)
<1>1. plan.items \in EntitySets \cup {<<>>}
  BY DEF OverwritesIInv, OverwritesPlans
<1>2. <<>> \in Seq(Overwrites!Items)
  OBVIOUS
<1> QED BY <1>1, <1>2 DEF Overwrites!OverwritesAssumption

\* One name, one item: the last of its name is that one.
LEMMA OverwritesOnlyOne ==
    ASSUME Overwrites!OverwritesAssumption, OverwritesIInv, NEW n, NEW i \in Overwrites!Named(n),
           Cardinality(Overwrites!Named(n)) = 1
    PROVE  Overwrites!Named(n) = {i} /\ Overwrites!LastOf(Overwrites!Named(n)) = i
<1>1. plan.items \in Seq(Overwrites!Items)
  BY OverwritesItemsAre
<1>2. Overwrites!Named(n) \subseteq 1 .. Len(plan.items) /\ Len(plan.items) \in Nat
  BY <1>1 DEF Overwrites!Named
<1>3. IsFiniteSet(Overwrites!Named(n))
  <2>1. IsFiniteSet(1 .. Len(plan.items))
    BY <1>2, FS_Interval
  <2> QED BY <1>2, <2>1, FS_Subset
<1>4. Overwrites!Named(n) = {i}
  BY <1>3, FS_Singleton
<1>5. i \in Nat
  BY <1>2
<1> QED BY <1>4, <1>5 DEF Overwrites!LastOf

LEMMA OverwritesLastIsNamed ==
    ASSUME Overwrites!OverwritesAssumption, OverwritesIInv, NEW n, Overwrites!Named(n) # {}
    PROVE  Overwrites!LastOf(Overwrites!Named(n)) \in Overwrites!Named(n)
<1>1. plan.items \in Seq(Overwrites!Items)
  BY OverwritesItemsAre
<1>2. Overwrites!Named(n) \subseteq 1 .. Len(plan.items) /\ Len(plan.items) \in Nat
  BY <1>1 DEF Overwrites!Named
<1>3. \E m \in Overwrites!Named(n) : \A i \in Overwrites!Named(n) : i <= m
  BY <1>2, HasMax
<1> QED BY <1>3 DEF Overwrites!LastOf

\* A folder given by its key is not looked up.
LEMMA OverwritesKeyStays ==
    ASSUME OverwritesIInv, NEW p, p[1] = "key"
    PROVE  Overwrites!Resolved(p) = p
<1>1. DOMAIN plan.resolved \subseteq {"path"} \X Folders
  BY DEF OverwritesIInv, OverwritesPlans, OverwritesResolutions
<1> QED BY <1>1 DEF Overwrites!Resolved

LEMMA OverwritesRouteIs ==
    ASSUME Overwrites!OverwritesAssumption, OverwritesIInv, NEW i \in DOMAIN plan.items,
           Cardinality(Overwrites!Named(plan.items[i].name)) = 1
    PROVE  LET item == plan.items[i] IN
           /\ Overwrites!LastOf(Overwrites!Named(item.name)) = i
           /\ [entity |-> item.name, folder |-> Overwrites!Resolved(Overwrites!Place(item)),
               as |-> IF Overwrites!Renamed(item) THEN Overwrites!Overwrite(item).name ELSE item.name]
              \in Overwrites!Routes
           /\ \A route \in Overwrites!Routes : route.entity = item.name =>
                 route = [entity |-> item.name, folder |-> Overwrites!Resolved(Overwrites!Place(item)),
                          as |-> IF Overwrites!Renamed(item) THEN Overwrites!Overwrite(item).name ELSE item.name]
<1> DEFINE item == plan.items[i]
           n == item.name
           this == [entity |-> n, folder |-> Overwrites!Resolved(Overwrites!Place(item)),
                    as |-> IF Overwrites!Renamed(item) THEN Overwrites!Overwrite(item).name ELSE n]
           of(x) == [entity |-> x,
                     folder |->
                        Overwrites!Resolved(Overwrites!Place(plan.items[Overwrites!LastOf(Overwrites!Named(x))])),
                     as |-> IF Overwrites!RenamedOf(x) = {} THEN x
                            ELSE Overwrites!Overwrite(plan.items[Overwrites!LastOf(Overwrites!RenamedOf(x))]).name]
<1>1. i \in Overwrites!Named(n)
  BY DEF Overwrites!Named
<1>2. Overwrites!Named(n) = {i} /\ Overwrites!LastOf(Overwrites!Named(n)) = i
  BY <1>1, OverwritesOnlyOne
<1>3. Overwrites!RenamedOf(n) = IF Overwrites!Renamed(item) THEN Overwrites!Named(n) ELSE {}
  BY <1>2 DEF Overwrites!RenamedOf
<1>4. of(n) = this
  BY <1>2, <1>3
<1>5. of(n) \in Overwrites!Routes
  BY DEF Overwrites!Routes
<1>6. \A route \in Overwrites!Routes : route = of(route.entity)
  BY DEF Overwrites!Routes
<1> QED BY <1>2, <1>4, <1>5, <1>6

LEMMA OverwritesRoutedRight ==
    ASSUME Overwrites!OverwritesAssumption, OverwritesIInv
    PROVE  Overwrites!RoutedWhereFetched
<1> SUFFICES ASSUME plan.pc = "ready", NEW i \in plan.fetched, Cardinality(Overwrites!Named(plan.items[i].name)) = 1
             PROVE  [entity |-> plan.items[i].name, folder |-> Overwrites!Wanted(plan.items[i]).folder,
                     as |-> Overwrites!Wanted(plan.items[i]).name] \in Overwrites!Routes
  BY OverwritesCardinality DEF Overwrites!RoutedWhereFetched
<1> DEFINE item == plan.items[i]
<1>1. i \in DOMAIN plan.items /\ item \in Overwrites!Items
  <2>1. plan.items \in Seq(Overwrites!Items)
    BY DEF OverwritesIInv, OverwritesPlans, Overwrites!OverwritesAssumption
  <2> QED BY <2>1 DEF OverwritesIInv
<1>2. [entity |-> item.name, folder |-> Overwrites!Resolved(Overwrites!Place(item)),
       as |-> IF Overwrites!Renamed(item) THEN Overwrites!Overwrite(item).name ELSE item.name] \in Overwrites!Routes
  BY <1>1, OverwritesRouteIs
<1>3. item.folder[1] = "key"
  BY <1>1 DEF Overwrites!Items
<1> HIDE DEF item
<1>4. Overwrites!Resolved(item.folder) = item.folder
  BY <1>3, OverwritesKeyStays
<1>5. Overwrites!Wanted(item).folder = Overwrites!Resolved(Overwrites!Place(item))
  BY <1>4 DEF Overwrites!Wanted, Overwrites!ByName, Overwrites!Place
<1>6. Overwrites!Wanted(item).name = IF Overwrites!Renamed(item) THEN Overwrites!Overwrite(item).name ELSE item.name
  BY DEF Overwrites!Wanted, Overwrites!ByName, Overwrites!Renamed
<1> QED BY <1>2, <1>5, <1>6 DEF item

LEMMA OverwritesRoutedAlike ==
    ASSUME Overwrites!OverwritesAssumption, OverwritesIInv
    PROVE  Overwrites!RoutesAgree
<1> SUFFICES ASSUME plan.pc = "ready", query # None, NEW route \in Overwrites!Routes,
                    LET item == plan.items[Overwrites!LastOf(Overwrites!Named(route.entity))] IN
                    /\ query.overwrites = plan.overwrites
                    /\ Cardinality(Overwrites!Named(item.name)) = 1
                    /\ Overwrites!Overwritten(item) /\ Overwrites!OverwriteKey(item) = <<item.name>>
                    /\ Overwrites!Place(item)[1] = "path" =>
                          Overwrites!Resolved(Overwrites!Place(item))
                             = Overwrites!Looked(Overwrites!Place(item), Overwrites!Place(item)[2] \in query.found)
             PROVE  route \in query.routes
  BY OverwritesCardinality DEF Overwrites!RoutesAgree
<1> DEFINE n == route.entity
           i == Overwrites!LastOf(Overwrites!Named(n))
           item == plan.items[i]
           key == <<item.name>>
<1>1. n \in {plan.items[j].name : j \in DOMAIN plan.items}
  BY DEF Overwrites!Routes
<1>2. i \in Overwrites!Named(n)
  <2>1. Overwrites!Named(n) # {}
    BY <1>1 DEF Overwrites!Named
  <2> QED BY <2>1, OverwritesLastIsNamed
<1>3. i \in DOMAIN plan.items /\ item.name = n
  BY <1>2 DEF Overwrites!Named
<1>4. PICK o \in OverwritesInAnyForce, found \in SUBSET Folders :
          query = [overwrites |-> o, found |-> found,
                   routes |-> {[entity |-> IF Len(k) = 1 THEN k[1] ELSE k,
                                folder |-> IF o[k].folder[1] = "key" THEN o[k].folder
                                           ELSE Overwrites!Looked(o[k].folder, o[k].folder[2] \in found),
                                as |-> o[k].name] : k \in DOMAIN o}]
  BY DEF OverwritesIInv
<1>5. /\ plan.overwrites = o /\ query.found = found
      /\ Overwrites!Overwritten(item) /\ Overwrites!OverwriteKey(item) = key
      /\ Overwrites!Place(item)[1] = "path" => Overwrites!Resolved(Overwrites!Place(item))
                             = Overwrites!Looked(Overwrites!Place(item), Overwrites!Place(item)[2] \in found)
  BY <1>4
<1>6. route = [entity |-> n, folder |-> Overwrites!Resolved(Overwrites!Place(item)),
               as |-> IF Overwrites!Renamed(item) THEN Overwrites!Overwrite(item).name ELSE n]
  BY <1>3, OverwritesRouteIs
<1> HIDE DEF i, item
<1>7. key \in DOMAIN o /\ Overwrites!Overwrite(item) = o[key] /\ Overwrites!Place(item) = o[key].folder
  BY <1>5 DEF Overwrites!Overwritten, Overwrites!Overwrite, Overwrites!Place
<1>8. o[key] \in Overwrites!Overwrites
  BY <1>7, OverwritesInForceIs
<1>9. Overwrites!Place(item)[1] \in {"path", "key"}
  BY <1>7, <1>8 DEF Overwrites!Overwrites, Overwrites!Places
<1>10. Overwrites!Resolved(Overwrites!Place(item)) = IF o[key].folder[1] = "key" THEN o[key].folder
                               ELSE Overwrites!Looked(o[key].folder, o[key].folder[2] \in found)
  BY <1>5, <1>7, <1>9, OverwritesKeyStays
<1>11. (IF Overwrites!Renamed(item) THEN Overwrites!Overwrite(item).name ELSE n) = o[key].name
  BY <1>3, <1>5, <1>7 DEF Overwrites!Renamed
<1>12. Len(key) = 1 /\ key[1] = n
  BY <1>3
<1> HIDE DEF key, n
<1>13. route = [entity |-> IF Len(key) = 1 THEN key[1] ELSE key,
                folder |-> IF o[key].folder[1] = "key" THEN o[key].folder
                           ELSE Overwrites!Looked(o[key].folder, o[key].folder[2] \in found),
                as |-> o[key].name]
  BY <1>6, <1>10, <1>11, <1>12
<1> QED BY <1>4, <1>7, <1>13

LEMMA OverwritesSteps ==
    ASSUME Overwrites!OverwritesAssumption, OverwritesIInv, [Overwrites!Next]_(Overwrites!vars)
    PROVE  OverwritesIInv'
<1>1. Overwrites!InForce \in OverwritesInAnyForce
  BY DEF OverwritesIInv, Overwrites!InForce, OverwritesInAnyForce
<1>2. (context = None \/ context \in Contexts)'
  BY DEF OverwritesIInv, Overwrites!Next, Overwrites!vars, Overwrites!Enter, Overwrites!Exit, Overwrites!Use,
     Overwrites!BeginResolve, Overwrites!ResolvePath, Overwrites!Finalize, Overwrites!Fetch, Overwrites!Serve,
     Overwrites!Query
<1>3. (method # None => \E o \in OverwritesInAnyForce, q \in Overwrites!Arguments :
          method = [overwrites |-> o, arguments |-> q, found |-> Overwrites!Retrieved(o, Overwrites!Passed(o, q)),
                    folder |-> Overwrites!Header(Overwrites!Overridden(o, q))])'
  <2>1. CASE Overwrites!Use
    BY <1>1, <2>1 DEF Overwrites!Use
  <2>2. CASE UNCHANGED method
    BY <2>2 DEF OverwritesIInv
  <2> QED BY <2>1, <2>2 DEF Overwrites!Next, Overwrites!vars, Overwrites!Enter, Overwrites!Exit,
             Overwrites!BeginResolve, Overwrites!ResolvePath, Overwrites!Finalize, Overwrites!Fetch,
             Overwrites!Serve, Overwrites!Query
<1>4. (plan \in OverwritesPlans /\ plan.fetched \cup plan.left \subseteq DOMAIN plan.items)'
  <2>0. plan \in OverwritesPlans /\ plan.fetched \cup plan.left \subseteq DOMAIN plan.items
    BY DEF OverwritesIInv
  <2>1. CASE Overwrites!BeginResolve
    <3>1. PICK s \in EntitySets : plan' = [Overwrites!NoPlan EXCEPT !.pc = "paths", !.items = s,
                                                     !.overwrites = Overwrites!InForce]
      BY <2>1 DEF Overwrites!BeginResolve
    <3>2. <<>> \in OverwritesResolutions
      <4>1. <<>> \in [{} -> Overwrites!Places]
        OBVIOUS
      <4> QED BY <4>1 DEF OverwritesResolutions
    <3> QED BY <1>1, <3>1, <3>2 DEF Overwrites!NoPlan, OverwritesPlans
  <2>2. CASE Overwrites!ResolvePath
    <3>1. PICK p \in Overwrites!Paths, found \in BOOLEAN :
              \/ plan' = [plan EXCEPT !.resolved =
                            [x \in DOMAIN @ \cup {p} |-> IF x = p THEN Overwrites!Looked(p, found) ELSE @[x]]]
              \/ plan' = [plan EXCEPT !.pc = "raised"]
      BY <2>2 DEF Overwrites!ResolvePath
    <3> DEFINE r == [x \in DOMAIN plan.resolved \cup {p} |->
                      IF x = p THEN Overwrites!Looked(p, found) ELSE plan.resolved[x]]
    <3>2. p \in {"path"} \X Folders /\ Overwrites!Looked(p, found) \in Overwrites!Places
      BY DEF Overwrites!Paths, Overwrites!Looked, Overwrites!Places
    <3>3. PICK D \in SUBSET ({"path"} \X Folders) : plan.resolved \in [D -> Overwrites!Places]
      BY <2>0 DEF OverwritesPlans, OverwritesResolutions
    <3>4. r \in [D \cup {p} -> Overwrites!Places] /\ D \cup {p} \in SUBSET ({"path"} \X Folders)
      BY <3>2, <3>3
    <3>5. r \in OverwritesResolutions
      BY <3>4 DEF OverwritesResolutions
    <3>6. plan' = [plan EXCEPT !.resolved = r] \/ plan' = [plan EXCEPT !.pc = "raised"]
      BY <3>1
    <3> HIDE DEF r
    <3> QED BY <2>0, <3>5, <3>6 DEF OverwritesPlans
  <2>3. CASE Overwrites!Finalize
    <3>1. DOMAIN plan.items \subseteq Nat
      BY <2>0 DEF OverwritesPlans, Overwrites!OverwritesAssumption
    <3>2. plan' = [plan EXCEPT !.pc = "fetch", !.left = DOMAIN plan.items]
      BY <2>3 DEF Overwrites!Finalize
    <3> QED BY <2>0, <3>1, <3>2 DEF OverwritesPlans
  <2>4. CASE Overwrites!Fetch
    <3>1. PICK i \in plan.left, skipped \in BOOLEAN :
              plan' = [plan EXCEPT !.left = @ \ {i}, !.fetched = IF skipped THEN @ ELSE @ \cup {i}]
      BY <2>4 DEF Overwrites!Fetch
    <3>2. i \in Nat
      BY <2>0 DEF OverwritesPlans
    <3> QED BY <2>0, <3>1, <3>2 DEF OverwritesPlans
  <2>5. CASE Overwrites!Serve
    <3>1. plan' = [plan EXCEPT !.pc = "ready"]
      BY <2>5 DEF Overwrites!Serve
    <3> QED BY <2>0, <3>1 DEF OverwritesPlans
  <2>6. CASE UNCHANGED plan
    BY <2>0, <2>6
  <2> QED BY <2>1, <2>2, <2>3, <2>4, <2>5, <2>6 DEF Overwrites!Next, Overwrites!vars, Overwrites!Enter,
             Overwrites!Exit, Overwrites!Use, Overwrites!Query
<1>5. (query # None => \E o \in OverwritesInAnyForce, found \in SUBSET Folders :
          query = [overwrites |-> o, found |-> found,
                   routes |-> {[entity |-> IF Len(k) = 1 THEN k[1] ELSE k,
                                folder |-> IF o[k].folder[1] = "key" THEN o[k].folder
                                           ELSE Overwrites!Looked(o[k].folder, o[k].folder[2] \in found),
                                as |-> o[k].name] : k \in DOMAIN o}])'
  <2>1. CASE Overwrites!Query
    BY <1>1, <2>1 DEF Overwrites!Query, Overwrites!RouteOf
  <2>2. CASE UNCHANGED query
    BY <2>2 DEF OverwritesIInv
  <2> QED BY <2>1, <2>2 DEF Overwrites!Next, Overwrites!vars, Overwrites!Enter, Overwrites!Exit,
             Overwrites!Use, Overwrites!BeginResolve, Overwrites!ResolvePath, Overwrites!Finalize,
             Overwrites!Fetch, Overwrites!Serve
<1> QED BY <1>2, <1>3, <1>4, <1>5 DEF OverwritesIInv

LEMMA OverwritesStarts ==
    ASSUME Overwrites!OverwritesAssumption, Overwrites!Init
    PROVE  OverwritesIInv
<1>1. <<>> \in OverwritesResolutions
  <2>1. <<>> \in [{} -> Overwrites!Places]
    OBVIOUS
  <2> QED BY <2>1 DEF OverwritesResolutions
<1> QED BY <1>1 DEF Overwrites!Init, OverwritesIInv, Overwrites!NoPlan, OverwritesPlans, OverwritesInAnyForce

\* What is found under an overwrite is what is used, an entity is queried where
\* it was fetched, and both kinds of services send its queries to the same
\* place, for any deployment (_bindings.py, _resource_override,
\* create_resolution_draft, finalize_resolution_plan).
THEOREM OverwritesAlwaysAgree == Spec => []OverwritesAgree
<1> DEFINE Inv == service = "overwrites" => OverwritesIInv
<1>1. Overwrites!OverwritesAssumption
  BY ServicesAssumption
<1>2. Init => Inv
  BY <1>1, OverwritesStarts DEF Init
<1>3. Inv /\ [Next]_vars => Inv'
  BY <1>1, OneService, OverwritesSteps
<1>4. Inv => OverwritesAgree
  BY <1>1, OverwritesUsedWhereFound, OverwritesRoutedRight, OverwritesRoutedAlike DEF OverwritesAgree
<1> HIDE DEF Inv
<1> QED BY <1>2, <1>3, <1>4, PTL DEF Spec
-------------------------------------------------------------------------------
(***************************************************************************)
(* DocumentWork, for any polling timeout and any number of calls.          *)
(*                                                                         *)
(* The argument: a call asks for the operation its route leads to (Leads), *)
(* and an operation that was seen to be over stays as it was seen (Over).  *)
(* Without the first what a wait returns could be of another operation     *)
(* than the route that is stamped on it, without the second a verdict      *)
(* could be overtaken. An extraction follows its classification because    *)
(* the route of what a classification gave names a version by the          *)
(* classifier alone (ClassifiersRoute).                                    *)
(***************************************************************************)
DocumentsStatuses == {"none", "Running", "Pending", "Succeeded", "Failed", "Completed", "Deleted"}
DocumentsOperations == [route : Documents!Routes, status : DocumentsStatuses]
DocumentsTypes == {"nothing", "none"} \cup Documents!ProjectTypes
DocumentsResults == {"nothing", "classification", "extraction"}
DocumentsValues ==
    [kind : {"nothing", "results", "action", "started extraction", "started validation"}, of : DocumentsResults,
     type : DocumentsTypes, route : Documents!Routes]
DocumentsAnyParams == [type : DocumentsTypes, tag : {None, "tag"}, version : {None, "number"}]
DocumentsRecords ==
    [name : {"none", "classify", "extract", "start extraction", "create action", "start validation",
             "retrieve", "validated"},
     pc : {"idle", "project", "resolve", "digitize", "digitized", "start", "wait", "look"},
     of : DocumentsResults, params : DocumentsAnyParams, route : Documents!Routes, status : DocumentsStatuses,
     clock : Nat, tries : Nat,
     err : {"none", "value", "request", "timeout", "failed", "not complete"}]
DocumentsTyped ==
    /\ value \in DocumentsValues /\ source \in DocumentsOperations /\ operation \in DocumentsOperations
    /\ call \in DocumentsRecords /\ calls \in Nat

\* A classifier's route names a version by the classifier alone.
DocumentsClassifies(route) == route.by # None => route.by = "classifier" /\ route.tag = None
DocumentsClassifiersRoute ==
    /\ value.of = "classification" => DocumentsClassifies(value.route)
    /\ call.of = "classification" => DocumentsClassifies(call.route)

\* Where a call may be, by its name.
DocumentsPlaces ==
    /\ call.pc \in {"project", "resolve", "digitize", "digitized", "start"} =>
          call.name \notin {"retrieve", "validated"}
    /\ call.name = "none" => call.pc = "idle"
    /\ call.pc = "look" => call.name = "retrieve"
    /\ call.pc = "digitized" => call.name # "validated"
    /\ call.pc = "wait" => call.name # "retrieve"

\* A call asks for the operation its route leads to.
DocumentsLeads ==
    /\ call.pc # "idle" /\ call.name \in {"retrieve", "validated"} =>
          call.route = value.route /\ value.kind # "nothing"
    /\ call.name \in {"start extraction", "start validation"} => call.route.by = None
    /\ call.pc = "wait" => Documents!Asked.route = call.route

\* What is over stays as it was seen.
DocumentsIsLater(seen, status) ==
    /\ seen \in {"Failed", "Succeeded", "Completed", "Deleted"} => status = seen
    /\ seen = "Pending" => status \in {"Pending", "Completed", "Deleted"}
DocumentsOver == Documents!Waiting => DocumentsIsLater(call.status, Documents!Asked.status)

DocumentsFailedForGood ==
    /\ call.err = "failed" =>
           ~Documents!Succeeded(Documents!Asked.status) /\ Documents!Asked.status \notin {"Running", "Pending"}
    /\ call.err = "timeout" => ~Documents!Succeeded(call.status)
    /\ call.err \in {"failed", "timeout"} => call.pc = "idle"

DocumentsIInv ==
    /\ DocumentsTyped /\ Documents!HeldIsTrue /\ DocumentsClassifiersRoute /\ DocumentsPlaces
       /\ DocumentsLeads /\ DocumentsOver /\ DocumentsFailedForGood /\ Documents!RouteFollows

LEMMA DocumentsOneMore == \A n \in Nat : n + 1 \in Nat
  OBVIOUS

LEMMA DocumentsOutcomesAre ==
    ASSUME NEW status \in DocumentsStatuses, NEW action, NEW s \in Documents!Outcomes(status, action)
    PROVE  \/ status = "Running" /\ s \in {"Pending", "Succeeded", "Failed"}
           \/ status = "Pending" /\ s \in {"Completed", "Deleted"}
<1>1. CASE status = "Running"
  BY <1>1 DEF Documents!Outcomes
<1>2. CASE status = "Pending"
  BY <1>2 DEF Documents!Outcomes
<1>3. CASE status \notin {"Running", "Pending"}
  BY <1>3 DEF Documents!Outcomes
<1> QED BY <1>1, <1>2, <1>3

LEMMA DocumentsVersionIs ==
    ASSUME NEW p, NEW classified
    PROVE  Documents!Version(p, classified) =
              IF p.type = "pretrained" THEN None ELSE IF p.version # None THEN p.version
              ELSE IF classified.route.by = None THEN None ELSE "number"
<1>1. CASE p.type = "pretrained"
  BY <1>1 DEF Documents!Version
<1>2. CASE p.type # "pretrained" /\ p.version # None
  BY <1>2 DEF Documents!Version
<1>3. CASE p.type # "pretrained" /\ p.version = None
  BY <1>3 DEF Documents!Version
<1> QED BY <1>1, <1>2, <1>3

LEMMA DocumentsRoutesAre ==
    ASSUME Documents!DocumentAssumption, NEW p \in DocumentsAnyParams, NEW v \in DocumentsValues
    PROVE  /\ Documents!ClassifierRoute(p) \in Documents!Routes
              /\ DocumentsClassifies(Documents!ClassifierRoute(p))
           /\ Documents!ExtractorRoute(p, v) \in Documents!Routes
<1>1. Documents!ClassifierRoute(p) \in Documents!Routes
  BY DEF Documents!ClassifierRoute, Documents!Routes, DocumentsAnyParams
<1>2. DocumentsClassifies(Documents!ClassifierRoute(p))
  BY DEF Documents!ClassifierRoute, DocumentsClassifies
<1>3. Documents!ExtractorRoute(p, v) \in Documents!Routes
  BY DEF Documents!ExtractorRoute, Documents!Routes, DocumentsAnyParams, DocumentsValues
<1> QED BY <1>1, <1>2, <1>3

LEMMA DocumentsFollowsAre ==
    ASSUME Documents!DocumentAssumption, NEW p \in DocumentsAnyParams, NEW v \in DocumentsValues,
           v # Documents!Nothing,
           p.type # "pretrained", p.version = None, DocumentsClassifies(v.route)
    PROVE  LET r == Documents!ExtractorRoute(p, v) IN
           r.tag = v.route.tag /\ (r.by = "extractor" <=> v.route.by = "classifier")
<1>1. Documents!Version(p, v) = IF v.route.by = None THEN None ELSE "number"
  BY DocumentsVersionIs
<1> QED BY <1>1 DEF Documents!ExtractorRoute, DocumentsClassifies, Documents!DocumentAssumption

\* A call begins.
LEMMA DocumentsStartsInv ==
    ASSUME Documents!DocumentAssumption, DocumentsIInv,
           NEW name \in {"classify", "extract", "start extraction", "create action", "start validation",
                         "retrieve", "validated"},
           NEW pc \in {"project", "resolve", "start", "look", "wait"},
           NEW of \in DocumentsResults, NEW params \in DocumentsAnyParams, NEW route \in Documents!Routes,
           Documents!Starts(name, pc, of, params, route),
           of = "classification" => DocumentsClassifies(route),
           name \in {"retrieve", "validated"} => route = value.route /\ value.kind # "nothing",
           pc = "look" <=> name = "retrieve", pc = "wait" <=> name = "validated",
           name \in {"start extraction", "start validation"} => route.by = None,
           name = "extract" /\ params = Documents!OfValue /\ value.type # "pretrained" =>
              route.tag = value.route.tag /\ (route.by = "extractor" <=> value.route.by = "classifier")
    PROVE  DocumentsIInv'
<1> DEFINE r == [Documents!NoCall EXCEPT !.name = name, !.pc = pc, !.of = of, !.params = params, !.route = route]
<1>1. call' = r /\ calls' = calls + 1 /\ UNCHANGED <<value, source, operation>>
  BY DEF Documents!Starts
<1>2. /\ r \in DocumentsRecords /\ r.name = name /\ r.pc = pc /\ r.of = of /\ r.params = params
         /\ r.route = route
      /\ r.status = "none" /\ r.err = "none"
  <2>1. /\ r.name = name /\ r.pc = pc /\ r.of = of /\ r.params = params /\ r.route = route
        /\ r.status = "none" /\ r.err = "none"
    BY DEF Documents!NoCall
  <2>2. r \in DocumentsRecords
    BY DEF Documents!NoCall, DocumentsRecords, DocumentsStatuses
  <2> QED BY <2>1, <2>2
<1> HIDE DEF r
<1>3. DocumentsTyped'
  <2>0. calls \in Nat
    BY DEF DocumentsIInv, DocumentsTyped
  <2>1. calls' = calls + 1
    BY DEF Documents!Starts
  <2>2. calls' \in Nat
    <3>1. \A n \in Nat : n + 1 \in Nat
      BY DocumentsOneMore
    <3>2. calls + 1 \in Nat
      BY <2>0, <3>1
    <3> QED BY <2>1, <3>2
  <2> QED BY <1>1, <1>2, <2>2 DEF DocumentsIInv, DocumentsTyped
<1>4. Documents!HeldIsTrue' /\ DocumentsClassifiersRoute'
  BY <1>1, <1>2 DEF DocumentsIInv, Documents!HeldIsTrue, DocumentsClassifiersRoute
<1>5. DocumentsPlaces'
  BY <1>1, <1>2 DEF DocumentsPlaces
<1>6. DocumentsLeads'
  BY <1>1, <1>2 DEF DocumentsIInv, DocumentsLeads, Documents!Asked, Documents!HeldIsTrue
<1>7. DocumentsOver' /\ DocumentsFailedForGood'
  BY <1>1, <1>2 DEF DocumentsOver, DocumentsIsLater, DocumentsFailedForGood
<1>8. Documents!RouteFollows'
  BY <1>1, <1>2 DEF Documents!RouteFollows, Documents!OfValue
<1> QED BY <1>3, <1>4, <1>5, <1>6, <1>7, <1>8 DEF DocumentsIInv

LEMMA DocumentsBeginInv ==
    ASSUME Documents!DocumentAssumption, DocumentsIInv, Documents!Begin
    PROVE  DocumentsIInv'
<1>0. value \in DocumentsValues /\ value.route \in Documents!Routes /\ value.of \in DocumentsResults
        /\ value.type \in DocumentsTypes
  BY DEF DocumentsIInv, DocumentsTyped, DocumentsValues
<1>p. \A p \in Documents!Params : p \in DocumentsAnyParams /\ (p.tag = None
        /\ p.version = None => p.type = "pretrained")
  BY DEF Documents!Params, DocumentsAnyParams, DocumentsTypes, Documents!ProjectTypes,
     Documents!DocumentAssumption
<1>n. Documents!Nothing \in DocumentsValues
  BY DEF Documents!Nothing, Documents!Value, DocumentsValues, Documents!NoRoute, Documents!Routes,
     DocumentsResults, DocumentsTypes
<1>o. Documents!OfValue \in DocumentsAnyParams /\ Documents!OfValue.tag = None
        /\ Documents!OfValue.version = None /\ Documents!OfValue.type = value.type
  BY <1>0 DEF Documents!OfValue, DocumentsAnyParams
<1>c. value.of = "classification" => DocumentsClassifies(value.route)
  BY DEF DocumentsIInv, DocumentsClassifiersRoute
<1>1. CASE Documents!Classify
  <2>1. PICK p \in Documents!Params :
            Documents!Starts("classify", "project", "classification", p, Documents!ClassifierRoute(p))
    BY <1>1 DEF Documents!Classify
  <2>2. p \in DocumentsAnyParams /\ Documents!ClassifierRoute(p) \in Documents!Routes
          /\ DocumentsClassifies(Documents!ClassifierRoute(p))
    BY <1>p, <1>0, DocumentsRoutesAre
  <2> QED BY <2>1, <2>2, DocumentsStartsInv DEF DocumentsResults
<1>2. ASSUME NEW p \in Documents!Params,
            Documents!Starts("extract", "project", "extraction", p, Documents!ExtractorRoute(p, Documents!Nothing))
      PROVE DocumentsIInv'
  <2>1. p \in DocumentsAnyParams /\ Documents!ExtractorRoute(p, Documents!Nothing) \in Documents!Routes
    BY <1>p, <1>n, DocumentsRoutesAre
  <2>2. p = Documents!OfValue => value.type = "pretrained"
    BY <1>p, <1>o
  <2> QED BY <1>2, <2>1, <2>2, DocumentsStartsInv DEF DocumentsResults
<1>3. ASSUME value.kind = "results", value.of = "classification",
             Documents!Starts("extract", "resolve", "extraction", Documents!OfValue,
                    Documents!ExtractorRoute(Documents!OfValue, value))
      PROVE  DocumentsIInv'
  <2>1. Documents!ExtractorRoute(Documents!OfValue, value) \in Documents!Routes
    BY <1>0, <1>o, DocumentsRoutesAre
  <2>2. value # Documents!Nothing
    BY <1>3 DEF Documents!Nothing, Documents!Value
  <2>3. value.type # "pretrained" =>
           /\ Documents!ExtractorRoute(Documents!OfValue, value).tag = value.route.tag
           /\ (Documents!ExtractorRoute(Documents!OfValue, value).by = "extractor" <=> value.route.by = "classifier")
    BY <1>0, <1>c, <1>o, <1>3, <2>2, DocumentsFollowsAre
  <2> QED BY <1>3, <1>o, <2>1, <2>3, DocumentsStartsInv DEF DocumentsResults
<1>4. CASE Documents!Extract
  BY <1>2, <1>3, <1>4 DEF Documents!Extract, Documents!OfValue
<1>5. CASE Documents!StartExtraction
  <2>1. PICK p \in Documents!Params :
            Documents!Starts("start extraction", "project", "extraction", p, [tag |-> p.tag, by |-> None])
    BY <1>5 DEF Documents!StartExtraction
  <2>2. p \in DocumentsAnyParams /\ [tag |-> p.tag, by |-> None] \in Documents!Routes
          /\ [tag |-> p.tag, by |-> None].by = None
    BY <1>p DEF Documents!Routes, DocumentsAnyParams
  <2> QED BY <2>1, <2>2, DocumentsStartsInv DEF DocumentsResults
<1>6. CASE Documents!CreateAction
  <2>1. Documents!Starts("create action", "start", value.of, Documents!OfValue, value.route)
    BY <1>6 DEF Documents!CreateAction
  <2> QED BY <1>0, <1>c, <1>o, <2>1, DocumentsStartsInv
<1>7. CASE Documents!StartValidation
  <2>1. /\ [tag |-> value.route.tag, by |-> None] \in Documents!Routes
        /\ [tag |-> value.route.tag, by |-> None].by = None
    BY <1>0 DEF Documents!Routes
  <2> QED BY <1>o, <1>7, <2>1, DocumentsStartsInv DEF Documents!StartValidation, DocumentsResults
<1>8. CASE Documents!Retrieve
  BY <1>0, <1>o, <1>8, DocumentsStartsInv DEF Documents!Retrieve, DocumentsResults
<1>9. CASE Documents!Validated
  BY <1>0, <1>c, <1>o, <1>9, DocumentsStartsInv DEF Documents!Validated
<1> QED BY <1>1, <1>4, <1>5, <1>6, <1>7, <1>8, <1>9 DEF Documents!Begin

\* Only the call goes on; what it was asked to do stays.
LEMMA DocumentsGoesOn ==
    ASSUME DocumentsIInv, NEW r \in DocumentsRecords, call' = r, UNCHANGED <<value, source, operation, calls>>,
           call.pc # "idle",
           r.name = call.name, r.of = call.of, r.params = call.params, r.route = call.route,
           DocumentsPlaces', (r.pc = "wait" => call.pc = "wait"),
           (r.pc \in {"digitized", "wait"} => DocumentsIsLater(r.status, Documents!Asked.status)),
           DocumentsFailedForGood'
    PROVE  DocumentsIInv'
<1>1. DocumentsTyped'
  BY DEF DocumentsIInv, DocumentsTyped
<1>2. Documents!HeldIsTrue' /\ DocumentsClassifiersRoute'
  BY DEF DocumentsIInv, Documents!HeldIsTrue, DocumentsClassifiersRoute
<1>3. Documents!Asked' = Documents!Asked
  BY DEF Documents!Asked
<1>4. DocumentsLeads'
  BY <1>3 DEF DocumentsIInv, DocumentsLeads
<1>5. DocumentsOver'
  BY <1>3 DEF DocumentsOver, Documents!Waiting
<1>6. Documents!RouteFollows'
  BY DEF DocumentsIInv, Documents!RouteFollows, Documents!OfValue
<1> QED BY <1>1, <1>2, <1>4, <1>5, <1>6 DEF DocumentsIInv


LEMMA DocumentsAttemptsAre ==
    ASSUME NEW a \in Documents!Attempts
    PROVE  a.seen = "answer" => a.applied
  BY DEF Documents!Attempts

\* What becomes of the call when an attempt is not answered.
LEMMA DocumentsUnheard ==
    ASSUME Documents!DocumentAssumption, DocumentsIInv, NEW a \in Documents!Attempts, a.seen # "answer", NEW x
    PROVE  /\ Documents!After(a, x) \in DocumentsRecords
           /\ Documents!After(a, x).name = call.name /\ Documents!After(a, x).of = call.of
              /\ Documents!After(a, x).params = call.params
           /\ Documents!After(a, x).route = call.route /\ Documents!After(a, x).status = call.status
           /\ \/ Documents!After(a, x).pc = call.pc /\ Documents!After(a, x).err = call.err
              \/ Documents!After(a, x).pc = "idle" /\ Documents!After(a, x).err = "request"
<1>1. call \in DocumentsRecords /\ call.tries \in Nat
  BY DEF DocumentsIInv, DocumentsTyped, DocumentsRecords
<1>2. CASE Documents!Retries(a, call.tries)
  <2>1. Documents!After(a, x) = [call EXCEPT !.tries = call.tries + 1]
    BY <1>2 DEF Documents!After
  <2>2. call.tries + 1 \in Nat
    BY <1>1
  <2> QED BY <1>1, <2>1, <2>2 DEF DocumentsRecords
<1>3. CASE ~Documents!Retries(a, call.tries)
  <2>1. Documents!After(a, x) = [call EXCEPT !.pc = "idle", !.err = "request"]
    BY <1>3 DEF Documents!After, Documents!End
  <2> QED BY <1>1, <2>1 DEF DocumentsRecords
<1> QED BY <1>2, <1>3

LEMMA DocumentsUnheardInv ==
    ASSUME Documents!DocumentAssumption, DocumentsIInv, NEW a \in Documents!Attempts, a.seen # "answer", NEW x,
           call' = Documents!After(a, x),
           call.pc # "idle", UNCHANGED <<value, source, operation, calls>>
    PROVE  DocumentsIInv'
<1> DEFINE r == Documents!After(a, x)
<1>1. /\ r \in DocumentsRecords
      /\ r.name = call.name /\ r.of = call.of /\ r.params = call.params
      /\ r.route = call.route /\ r.status = call.status
      /\ \/ r.pc = call.pc /\ r.err = call.err
         \/ r.pc = "idle" /\ r.err = "request"
  BY DocumentsUnheard
<1>2. call' = r
  OBVIOUS
<1> HIDE DEF r
<1>3. DocumentsPlaces'
  BY <1>1, <1>2 DEF DocumentsIInv, DocumentsPlaces
<1>4. DocumentsFailedForGood'
  BY <1>1, <1>2 DEF DocumentsIInv, DocumentsFailedForGood, Documents!Succeeded, Documents!Asked
<1>5. r.pc \in {"digitized", "wait"} => DocumentsIsLater(r.status, Documents!Asked.status)
  BY <1>1 DEF DocumentsIInv, DocumentsOver, Documents!Waiting
<1> QED BY <1>1, <1>2, <1>3, <1>4, <1>5, DocumentsGoesOn

LEMMA DocumentsLookUpInv ==
    ASSUME Documents!DocumentAssumption, DocumentsIInv, Documents!LookUp
    PROVE  DocumentsIInv'
<1>0. call \in DocumentsRecords /\ call.pc \in {"project", "resolve"}
        /\ UNCHANGED <<value, source, operation, calls>>
  BY DEF DocumentsIInv, DocumentsTyped, Documents!LookUp
<1>1. CASE call' = Documents!End("value")
  <2> DEFINE r == Documents!End("value")
  <2>1. /\ r \in DocumentsRecords /\ r.name = call.name /\ r.of = call.of /\ r.params = call.params
        /\ r.route = call.route /\ r.pc = "idle" /\ r.err = "value"
    BY <1>0 DEF Documents!End, DocumentsRecords
  <2>2. call' = r
    BY <1>1
  <2> HIDE DEF r
  <2>3. DocumentsPlaces' /\ DocumentsFailedForGood'
    BY <2>1, <2>2 DEF DocumentsPlaces, DocumentsFailedForGood
  <2> QED BY <1>0, <2>1, <2>2, <2>3, DocumentsGoesOn
<1>2. ASSUME NEW a \in Documents!Attempts,
             call' = Documents!After(a, Documents!Go(IF call.pc = "project" THEN "digitize" ELSE "start"))
      PROVE  DocumentsIInv'
  <2>1. CASE a.seen = "answer"
    <3> DEFINE pc == IF call.pc = "project" THEN "digitize" ELSE "start"
               r == Documents!Go(pc)
    <3>0. pc \in {"digitize", "start"}
      OBVIOUS
    <3>2. call' = r
      BY <1>2, <2>1 DEF Documents!After
    <3> HIDE DEF pc
    <3>1. /\ r \in DocumentsRecords /\ r.name = call.name /\ r.of = call.of /\ r.params = call.params
          /\ r.route = call.route /\ r.pc = pc /\ r.err = call.err /\ r.status = call.status
      BY <1>0, <3>0 DEF Documents!Go, DocumentsRecords
    <3> HIDE DEF r
    <3>3. DocumentsPlaces'
      BY <1>0, <3>0, <3>1, <3>2 DEF DocumentsIInv, DocumentsPlaces
    <3>4. DocumentsFailedForGood'
      BY <1>0, <3>1, <3>2 DEF DocumentsIInv, DocumentsFailedForGood, Documents!Succeeded, Documents!Asked
    <3> QED BY <1>0, <3>0, <3>1, <3>2, <3>3, <3>4, DocumentsGoesOn
  <2>2. CASE a.seen # "answer"
    BY <1>0, <1>2, <2>2, DocumentsUnheardInv
  <2> QED BY <2>1, <2>2
<1> QED BY <1>1, <1>2 DEF Documents!LookUp

LEMMA DocumentsPollInv ==
    ASSUME Documents!DocumentAssumption, DocumentsIInv, Documents!Poll
    PROVE  DocumentsIInv'
<1>0. call \in DocumentsRecords /\ call.pc \in {"digitized", "wait"}
        /\ UNCHANGED <<value, source, operation, calls>>
  BY DEF DocumentsIInv, DocumentsTyped, Documents!Poll, Documents!Waiting
<1>1. PICK a \in Documents!Attempts, n \in {1, 2} :
          call' = Documents!After(a, [call EXCEPT !.status = Documents!Asked.status, !.tries = 1,
                                        !.clock = Documents!Later(n)])
  BY DEF Documents!Poll
<1>2. CASE a.seen = "answer"
  <2> DEFINE r == [call EXCEPT !.status = Documents!Asked.status, !.tries = 1, !.clock = Documents!Later(n)]
  <2>1. Documents!Asked.status \in DocumentsStatuses
    BY DEF DocumentsIInv, DocumentsTyped, Documents!Asked, DocumentsOperations
  <2>2. Documents!Later(n) \in Nat
    <3>1. call.clock \in Nat /\ PollingTimeout \in Nat
      BY <1>0 DEF DocumentsRecords, Documents!DocumentAssumption
    <3> QED BY <3>1 DEF Documents!Later
  <2>3. /\ r \in DocumentsRecords /\ r.name = call.name /\ r.of = call.of /\ r.params = call.params
        /\ r.route = call.route /\ r.pc = call.pc /\ r.err = call.err /\ r.status = Documents!Asked.status
    BY <1>0, <2>1, <2>2 DEF DocumentsRecords
  <2>4. call' = r
    BY <1>1, <1>2 DEF Documents!After
  <2> HIDE DEF r
  <2>5. DocumentsPlaces'
    BY <2>3, <2>4 DEF DocumentsIInv, DocumentsPlaces
  <2>6. DocumentsIsLater(r.status, Documents!Asked.status)
    BY <2>3 DEF DocumentsIsLater
  <2>7. call.err \notin {"failed", "timeout"}
    BY <1>0 DEF DocumentsIInv, DocumentsFailedForGood
  <2>8. DocumentsFailedForGood'
    BY <2>3, <2>4, <2>7 DEF DocumentsFailedForGood
  <2> QED BY <1>0, <2>3, <2>4, <2>5, <2>6, <2>8, DocumentsGoesOn
<1>3. CASE a.seen # "answer"
  BY <1>0, <1>1, <1>3, DocumentsUnheardInv
<1> QED BY <1>2, <1>3

LEMMA DocumentsStartOperationInv ==
    ASSUME Documents!DocumentAssumption, DocumentsIInv, Documents!StartOperation
    PROVE  DocumentsIInv'
<1>0. call \in DocumentsRecords /\ call.pc \in {"digitize", "start"} /\ calls' = calls
  BY DEF DocumentsIInv, DocumentsTyped, Documents!StartOperation
<1>t. /\ call.route \in Documents!Routes /\ Documents!NoRoute \in Documents!Routes
         /\ call.name \notin {"retrieve", "validated"}
      /\ value \in DocumentsValues /\ source \in DocumentsOperations /\ operation \in DocumentsOperations
         /\ calls \in Nat
      /\ call.err \notin {"failed", "timeout"}
  BY <1>0 DEF DocumentsIInv, DocumentsTyped, DocumentsRecords, Documents!NoRoute, Documents!Routes,
     DocumentsPlaces, DocumentsFailedForGood
<1> DEFINE started == Documents!Operation(IF call.pc = "digitize" THEN Documents!NoRoute ELSE call.route, "Running")
           after == IF call.pc = "digitize" THEN Documents!Go(IF Documents!Waits THEN "digitized" ELSE "start")
                    ELSE IF Documents!Waits THEN Documents!Go("wait") ELSE Documents!End("none")
           polling == [after EXCEPT !.status = "Running", !.clock = 0]
<1>1. PICK a \in Documents!Attempts :
          LET left == a.seen = "answer" /\ call.pc = "start" /\ ~Documents!Waits IN
          /\ operation' = IF left THEN Documents!NoOperation ELSE IF a.applied THEN started ELSE operation
          /\ call' = Documents!After(a, polling)
          /\ IF left
             THEN /\ value' = Documents!Value(IF call.name = "start extraction" THEN "started extraction"
                                ELSE "started validation",
                                    "extraction", "ixp", [tag |-> call.route.tag, by |-> None])
                  /\ source' = started
             ELSE UNCHANGED <<value, source>>
  BY DEF Documents!StartOperation
<1>2. /\ started \in DocumentsOperations /\ started.status = "Running"
         /\ Documents!NoOperation \in DocumentsOperations
      /\ (call.pc = "start" => started.route = call.route)
  BY <1>0, <1>t DEF Documents!Operation, Documents!NoOperation, DocumentsOperations, DocumentsStatuses
<1>3. /\ polling \in DocumentsRecords /\ polling.name = call.name /\ polling.of = call.of
         /\ polling.params = call.params
      /\ polling.route = call.route /\ polling.status = "Running" /\ polling.err \in {call.err, "none"}
      /\ polling.pc = IF call.pc = "digitize" THEN (IF Documents!Waits THEN "digitized" ELSE "start")
                      ELSE IF Documents!Waits THEN "wait" ELSE "idle"
  <2>1. /\ after \in DocumentsRecords /\ after.name = call.name /\ after.of = call.of
           /\ after.params = call.params
        /\ after.route = call.route /\ after.err \in {call.err, "none"}
        /\ after.pc = IF call.pc = "digitize" THEN (IF Documents!Waits THEN "digitized" ELSE "start")
                      ELSE IF Documents!Waits THEN "wait" ELSE "idle"
    BY <1>0 DEF Documents!Go, Documents!End, DocumentsRecords
  <2> HIDE DEF after
  <2> QED BY <2>1 DEF DocumentsRecords, DocumentsStatuses
<1> HIDE DEF started, after, polling
<1>4. operation' \in DocumentsOperations
  BY <1>1, <1>2, <1>t
<1>5. CASE a.seen # "answer"
  <2> DEFINE r == Documents!After(a, polling)
  <2>1. /\ r \in DocumentsRecords
        /\ r.name = call.name /\ r.of = call.of /\ r.params = call.params
        /\ r.route = call.route /\ r.status = call.status
        /\ \/ r.pc = call.pc /\ r.err = call.err
           \/ r.pc = "idle" /\ r.err = "request"
    BY <1>5, DocumentsUnheard
  <2>2. call' = r /\ UNCHANGED <<value, source, calls>>
    BY <1>0, <1>1, <1>5
  <2> HIDE DEF r
  <2>3. DocumentsTyped'
    BY <1>4, <1>t, <2>1, <2>2 DEF DocumentsTyped
  <2>4. Documents!HeldIsTrue' /\ DocumentsClassifiersRoute'
    BY <2>1, <2>2 DEF DocumentsIInv, Documents!HeldIsTrue, DocumentsClassifiersRoute
  <2>5. DocumentsPlaces' /\ DocumentsOver'
    BY <1>0, <2>1, <2>2 DEF DocumentsIInv, DocumentsPlaces, DocumentsOver, Documents!Waiting
  <2>6. DocumentsLeads'
    BY <1>0, <1>t, <2>1, <2>2 DEF DocumentsIInv, DocumentsLeads
  <2>7. DocumentsFailedForGood'
    BY <1>t, <2>1, <2>2 DEF DocumentsFailedForGood
  <2>8. Documents!RouteFollows'
    BY <1>0, <2>1, <2>2 DEF DocumentsIInv, Documents!RouteFollows, Documents!OfValue
  <2> QED BY <2>3, <2>4, <2>5, <2>6, <2>7, <2>8 DEF DocumentsIInv
<1>6. CASE a.seen = "answer" /\ ~(call.pc = "start" /\ ~Documents!Waits)
  <2>1. call' = polling /\ operation' = started /\ UNCHANGED <<value, source, calls>>
    BY <1>0, <1>1, <1>6, DocumentsAttemptsAre DEF Documents!After
  <2>2. Documents!Asked' = started
    BY <1>3, <1>t, <2>1 DEF Documents!Asked
  <2>3. DocumentsTyped'
    BY <1>3, <1>4, <1>t, <2>1 DEF DocumentsTyped
  <2>4. Documents!HeldIsTrue' /\ DocumentsClassifiersRoute'
    BY <1>3, <2>1 DEF DocumentsIInv, Documents!HeldIsTrue, DocumentsClassifiersRoute
  <2>5. DocumentsPlaces'
    BY <1>0, <1>3, <1>t, <2>1 DEF DocumentsIInv, DocumentsPlaces
  <2>6. DocumentsLeads'
    BY <1>0, <1>2, <1>3, <1>t, <2>1, <2>2 DEF DocumentsIInv, DocumentsLeads
  <2>7. DocumentsOver' /\ DocumentsFailedForGood'
    BY <1>3, <1>t, <2>1 DEF DocumentsOver, DocumentsIsLater, DocumentsFailedForGood
  <2>8. Documents!RouteFollows'
    BY <1>0, <1>3, <2>1 DEF DocumentsIInv, Documents!RouteFollows, Documents!OfValue
  <2> QED BY <2>3, <2>4, <2>5, <2>6, <2>7, <2>8 DEF DocumentsIInv
<1>7. CASE a.seen = "answer" /\ call.pc = "start" /\ ~Documents!Waits
  <2> DEFINE v == Documents!Value(IF call.name = "start extraction" THEN "started extraction"
                                ELSE "started validation",
                        "extraction", "ixp", [tag |-> call.route.tag, by |-> None])
  <2>0. call' = polling /\ source' = started /\ value' = v /\ calls' = calls
    BY <1>0, <1>1, <1>7 DEF Documents!After
  <2>1. call.name \in {"start extraction", "start validation"} /\ call.name # "none"
    BY <1>0, <1>7, <1>t DEF Documents!Waits, DocumentsRecords, DocumentsIInv, DocumentsPlaces
  <2>2. v.kind \in {"started extraction", "started validation"} /\ v.of = "extraction" /\ v.type = "ixp"
        /\ v.route = call.route /\ v \in DocumentsValues
    <3>1. call.route.by = None
      BY <2>1 DEF DocumentsIInv, DocumentsLeads
    <3>2. [tag |-> call.route.tag, by |-> None] = call.route
      BY <1>t, <3>1 DEF Documents!Routes
    <3> QED BY <1>t, <3>2
               DEF Documents!Value, DocumentsValues, DocumentsResults, DocumentsTypes, Documents!ProjectTypes
  <2>3. started.route = call.route
    BY <1>2, <1>7
  <2> HIDE DEF v
  <2>4. DocumentsTyped'
    BY <1>2, <1>3, <1>4, <1>t, <2>0, <2>2 DEF DocumentsTyped
  <2>5. Documents!HeldIsTrue' /\ DocumentsClassifiersRoute'
    BY <1>3, <2>0, <2>2, <2>3 DEF DocumentsIInv, Documents!HeldIsTrue, DocumentsClassifiersRoute
  <2>6. polling.pc = "idle"
    BY <1>3, <1>7
  <2>7. DocumentsPlaces' /\ DocumentsOver'
    BY <2>0, <2>6 DEF DocumentsPlaces, DocumentsOver, Documents!Waiting
  <2>8. DocumentsLeads'
    BY <1>3, <2>0, <2>6 DEF DocumentsIInv, DocumentsLeads
  <2>9. DocumentsFailedForGood'
    BY <1>3, <1>t, <2>0 DEF DocumentsFailedForGood
  <2>10. Documents!RouteFollows'
    BY <2>0, <2>6 DEF Documents!RouteFollows
  <2> QED BY <2>4, <2>5, <2>7, <2>8, <2>9, <2>10 DEF DocumentsIInv
<1> QED BY <1>5, <1>6, <1>7

LEMMA DocumentsVerdictIs ==
    ASSUME Documents!DocumentAssumption, DocumentsIInv, Documents!Waiting, NEW n \in {0, 1},
           call.status \notin Documents!WaitStatuses \cup {"none"} \/ ~Documents!InTime(call.clock)
    PROVE  /\ Documents!Verdict(call.status, Documents!Later(n)) = "failed" =>
                 call.status \notin Documents!WaitStatuses \cup {"none"} /\ ~Documents!Succeeded(call.status)
           /\ Documents!Verdict(call.status, Documents!Later(n)) = "timeout" => ~Documents!Succeeded(call.status)
           /\ Documents!Verdict(call.status, Documents!Later(n)) = "none" => Documents!Succeeded(call.status)
           /\ Documents!Verdict(call.status, Documents!Later(n)) \in {"none", "timeout", "failed"}
<1>1. call.clock \in Nat /\ PollingTimeout \in Nat
  BY DEF DocumentsIInv, DocumentsTyped, DocumentsRecords, Documents!DocumentAssumption
<1>2. ~Documents!InTime(call.clock) => Documents!Later(n) >= PollingTimeout
  BY <1>1 DEF Documents!InTime, Documents!Later
<1>3. Documents!Verdict(call.status, Documents!Later(n)) = "failed" =>
        ~Documents!Succeeded(call.status) /\ ~(Documents!Later(n) >= PollingTimeout)
  BY DEF Documents!Verdict
<1>4. /\ Documents!Verdict(call.status, Documents!Later(n)) = "timeout" => ~Documents!Succeeded(call.status)
      /\ Documents!Verdict(call.status, Documents!Later(n)) = "none" => Documents!Succeeded(call.status)
      /\ Documents!Verdict(call.status, Documents!Later(n)) \in {"none", "timeout", "failed"}
  BY DEF Documents!Verdict
<1> HIDE DEF Documents!Verdict
<1> QED BY <1>2, <1>3, <1>4

LEMMA DocumentsReturnedIs ==
    ASSUME DocumentsIInv, NEW route \in Documents!Routes
    PROVE  /\ Documents!Returned(route) \in DocumentsValues
              /\ Documents!Returned(route).kind \in {"results", "action"}
           /\ Documents!Returned(route).of = call.of /\ Documents!Returned(route).route = route
<1>1. call.of \in DocumentsResults /\ call.params.type \in DocumentsTypes
  BY DEF DocumentsIInv, DocumentsTyped, DocumentsRecords, DocumentsAnyParams
<1> QED BY <1>1 DEF Documents!Returned, Documents!Value, DocumentsValues, Documents!Stamp

LEMMA DocumentsWaitEndsInv ==
    ASSUME Documents!DocumentAssumption, DocumentsIInv, Documents!WaitEnds
    PROVE  DocumentsIInv'
<1>0. call \in DocumentsRecords /\ call.pc \in {"digitized", "wait"} /\ calls' = calls /\ calls \in Nat
      /\ call.route \in Documents!Routes /\ call.status \in DocumentsStatuses /\ Documents!Waiting
      /\ (call.status \notin Documents!WaitStatuses \cup {"none"} \/ ~Documents!InTime(call.clock))
  BY DEF DocumentsIInv, DocumentsTyped, Documents!WaitEnds, Documents!Waiting, DocumentsRecords
<1>1. PICK n \in {0, 1} :
          LET err == Documents!Verdict(call.status, Documents!Later(n)) IN
          IF err = "none" /\ call.pc = "digitized"
          THEN call' = Documents!Go("resolve") /\ UNCHANGED <<value, source, operation>>
          ELSE /\ call' = Documents!End(err)
               /\ IF err = "none"
                  THEN value' = Documents!Returned(call.route) /\ source' = Documents!Asked
                          /\ operation' = Documents!NoOperation
                  ELSE UNCHANGED <<value, source, operation>>
  BY DEF Documents!WaitEnds
<1> DEFINE err == Documents!Verdict(call.status, Documents!Later(n))
<1>2. /\ err = "failed" =>
                 call.status \notin Documents!WaitStatuses \cup {"none"} /\ ~Documents!Succeeded(call.status)
      /\ err = "timeout" => ~Documents!Succeeded(call.status)
      /\ err = "none" => Documents!Succeeded(call.status)
      /\ err \in {"none", "timeout", "failed"}
  BY <1>0, DocumentsVerdictIs
<1>3. /\ err = "none" /\ call.pc = "digitized" => call' = Documents!Go("resolve")
         /\ UNCHANGED <<value, source, operation>>
      /\ ~(err = "none" /\ call.pc = "digitized") => call' = Documents!End(err)
      /\ err = "none" /\ call.pc # "digitized" =>
            value' = Documents!Returned(call.route) /\ source' = Documents!Asked
                    /\ operation' = Documents!NoOperation
      /\ err # "none" => UNCHANGED <<value, source, operation>>
  BY <1>1
<1> HIDE DEF err
<1>4. DocumentsIsLater(call.status, Documents!Asked.status)
  BY <1>0 DEF DocumentsIInv, DocumentsOver
<1>e. ASSUME ~(err = "none" /\ call.pc = "digitized")
      PROVE  /\ call' \in DocumentsRecords /\ call'.name = call.name /\ call'.of = call.of
                /\ call'.params = call.params
             /\ call'.route = call.route /\ call'.pc = "idle" /\ call'.err = err /\ call'.status = call.status
  BY <1>0, <1>2, <1>3, <1>e DEF Documents!End, DocumentsRecords
<1>5. CASE err = "none" /\ call.pc = "digitized"
  <2> DEFINE r == Documents!Go("resolve")
  <2>1. /\ r \in DocumentsRecords /\ r.name = call.name /\ r.of = call.of /\ r.params = call.params
        /\ r.route = call.route /\ r.pc = "resolve" /\ r.err = call.err
    BY <1>0 DEF Documents!Go, DocumentsRecords
  <2>2. call' = r /\ UNCHANGED <<value, source, operation, calls>>
    BY <1>0, <1>3, <1>5
  <2> HIDE DEF r
  <2>3. DocumentsPlaces'
    BY <1>5, <2>1, <2>2 DEF DocumentsIInv, DocumentsPlaces
  <2>4. DocumentsFailedForGood'
    BY <1>0, <2>1, <2>2 DEF DocumentsIInv, DocumentsFailedForGood
  <2> QED BY <1>0, <2>1, <2>2, <2>3, <2>4, DocumentsGoesOn
<1>6. CASE err # "none"
  <2>1. UNCHANGED <<value, source, operation, calls>> /\ Documents!Asked' = Documents!Asked
    BY <1>0, <1>3, <1>6, <1>e DEF Documents!Asked
  <2>2. DocumentsPlaces'
    BY <1>6, <1>e DEF DocumentsPlaces
  <2>3. err = "failed" =>
           ~Documents!Succeeded(Documents!Asked.status) /\ Documents!Asked.status \notin {"Running", "Pending"}
    BY <1>0, <1>2, <1>4 DEF DocumentsIsLater, DocumentsStatuses, Documents!WaitStatuses, Documents!Succeeded
  <2>4. DocumentsFailedForGood'
    BY <1>2, <1>6, <1>e, <2>1, <2>3 DEF DocumentsFailedForGood, Documents!Succeeded
  <2> QED BY <1>0, <1>6, <1>e, <2>1, <2>2, <2>4, DocumentsGoesOn
<1>7. CASE err = "none" /\ call.pc = "wait"
  <2>1. value' = Documents!Returned(call.route) /\ source' = Documents!Asked
          /\ operation' = Documents!NoOperation
    BY <1>3, <1>7
  <2>2. /\ value' \in DocumentsValues /\ value'.kind \in {"results", "action"} /\ value'.of = call.of
           /\ value'.route = call.route
    BY <1>0, <2>1, DocumentsReturnedIs
  <2>3. Documents!Asked.route = call.route /\ Documents!Asked \in DocumentsOperations
    BY <1>7 DEF DocumentsIInv, DocumentsLeads, Documents!Asked, DocumentsTyped
  <2>4. Documents!Asked.status \notin {"none", "Running", "Failed"}
    BY <1>2, <1>4, <1>7 DEF DocumentsIsLater, Documents!Succeeded
  <2>5. DocumentsTyped'
    <3>1. Documents!NoOperation \in DocumentsOperations
      BY DEF Documents!NoOperation, Documents!Operation, DocumentsOperations, Documents!NoRoute,
         Documents!Routes, DocumentsStatuses
    <3> QED BY <1>0, <1>7, <1>e, <2>1, <2>2, <2>3, <3>1 DEF DocumentsTyped
  <2>6. Documents!HeldIsTrue'
    BY <2>1, <2>2, <2>3, <2>4 DEF Documents!HeldIsTrue
  <2>7. DocumentsClassifiersRoute'
    BY <1>7, <1>e, <2>2 DEF DocumentsIInv, DocumentsClassifiersRoute
  <2>8. DocumentsPlaces' /\ DocumentsOver' /\ DocumentsFailedForGood' /\ Documents!RouteFollows'
    BY <1>7, <1>e
       DEF DocumentsPlaces, DocumentsOver, Documents!Waiting, DocumentsFailedForGood, Documents!RouteFollows
  <2>9. DocumentsLeads'
    BY <1>7, <1>e DEF DocumentsIInv, DocumentsLeads
  <2> QED BY <2>5, <2>6, <2>7, <2>8, <2>9 DEF DocumentsIInv
<1> QED BY <1>0, <1>5, <1>6, <1>7

LEMMA DocumentsLookInv ==
    ASSUME Documents!DocumentAssumption, DocumentsIInv, Documents!Look
    PROVE  DocumentsIInv'
<1>0. call \in DocumentsRecords /\ call.pc = "look" /\ call.name = "retrieve"
        /\ UNCHANGED <<source, operation, calls>>
      /\ call.route \in Documents!Routes
  BY DEF DocumentsIInv, DocumentsTyped, Documents!Look, DocumentsPlaces, DocumentsRecords
<1> DEFINE err == IF Documents!Asked.status = "Running" THEN "not complete"
                  ELSE IF Documents!Succeeded(Documents!Asked.status) THEN "none" ELSE "failed"
<1>1. PICK a \in Documents!Attempts :
          /\ call' = Documents!After(a, Documents!End(err))
          /\ IF a.seen = "answer"
             /\ err = "none" THEN value' = Documents!Returned(call.route) ELSE UNCHANGED value
  BY DEF Documents!Look
<1>2. Documents!Asked = source /\ source \in DocumentsOperations
  BY <1>0 DEF Documents!Asked, DocumentsIInv, DocumentsTyped
<1>3. /\ err \in {"not complete", "none", "failed"}
      /\ err = "none" => source.status \in {"Succeeded", "Pending", "Completed", "Deleted"}
      /\ err = "failed" => source.status \notin {"Running", "Pending", "Succeeded", "Completed", "Deleted"}
  BY <1>0, <1>2 DEF Documents!Succeeded
<1> HIDE DEF err
<1>4. CASE a.seen # "answer"
  BY <1>0, <1>1, <1>4, DocumentsUnheardInv
<1>5. CASE a.seen = "answer"
  <2>1. /\ call' \in DocumentsRecords /\ call'.name = call.name /\ call'.of = call.of
           /\ call'.params = call.params
        /\ call'.route = call.route /\ call'.pc = "idle" /\ call'.err = err /\ call'.status = call.status
    BY <1>0, <1>1, <1>3, <1>5 DEF Documents!End, Documents!After, DocumentsRecords
  <2>2. Documents!Asked' = source
    BY <1>0, <2>1 DEF Documents!Asked
  <2>3. DocumentsPlaces' /\ DocumentsOver' /\ Documents!RouteFollows'
    BY <2>1 DEF DocumentsPlaces, DocumentsOver, Documents!Waiting, Documents!RouteFollows
  <2>4. DocumentsLeads'
    BY <1>0, <2>1 DEF DocumentsIInv, DocumentsLeads
  <2>5. DocumentsFailedForGood'
    BY <1>0, <1>3, <2>1, <2>2 DEF DocumentsFailedForGood, Documents!Succeeded
  <2>6. CASE err # "none"
    <3>1. value' = value
      BY <1>1, <2>6
    <3> QED BY <1>0, <2>1, <2>3, <2>4, <2>5, <3>1
               DEF DocumentsIInv, DocumentsTyped, Documents!HeldIsTrue, DocumentsClassifiersRoute
  <2>7. CASE err = "none"
    <3>1. value' = Documents!Returned(call.route)
      BY <1>1, <1>5, <2>7
    <3>2. /\ value' \in DocumentsValues /\ value'.kind \in {"results", "action"} /\ value'.of = call.of
             /\ value'.route = call.route
      BY <1>0, <3>1, DocumentsReturnedIs
    <3>3. source.route = call.route
      BY <1>0 DEF DocumentsIInv, DocumentsLeads, Documents!HeldIsTrue
    <3>4. Documents!HeldIsTrue' /\ DocumentsClassifiersRoute'
      BY <1>0, <1>3, <2>1, <2>7, <3>2, <3>3 DEF DocumentsIInv, Documents!HeldIsTrue, DocumentsClassifiersRoute
    <3>5. DocumentsTyped'
      BY <1>0, <2>1, <3>2 DEF DocumentsIInv, DocumentsTyped
    <3> QED BY <2>3, <2>4, <2>5, <3>4, <3>5 DEF DocumentsIInv
  <2> QED BY <2>6, <2>7
<1> QED BY <1>4, <1>5

LEMMA DocumentsWorkInv ==
    ASSUME Documents!DocumentAssumption, DocumentsIInv, Documents!ServiceWorks
    PROVE  DocumentsIInv'
<1>0. UNCHANGED <<value, call, calls>> /\ source \in DocumentsOperations /\ operation \in DocumentsOperations
  BY DEF Documents!ServiceWorks, DocumentsIInv, DocumentsTyped
<1>2. /\ source' \in DocumentsOperations /\ source'.route = source.route
      /\ \/ source' = source
         \/ source.status = "Running" /\ source'.status \in {"Pending", "Succeeded", "Failed"}
         \/ source.status = "Pending" /\ source'.status \in {"Completed", "Deleted"}
      /\ operation' \in DocumentsOperations /\ operation'.route = operation.route
      /\ \/ operation' = operation
         \/ operation.status = "Running" /\ operation'.status \in {"Pending", "Succeeded", "Failed"}
         \/ operation.status = "Pending" /\ operation'.status \in {"Completed", "Deleted"}
  <2>1. CASE /\ \E s \in Documents!Outcomes(operation.status, call.name \in Documents!ActionKinds) :
                   operation' = [operation EXCEPT !.status = s]
             /\ UNCHANGED source
    <3>1. PICK s \in Documents!Outcomes(operation.status, call.name \in Documents!ActionKinds) :
                   operation' = [operation EXCEPT !.status = s]
      BY <2>1
    <3>2. operation.status \in DocumentsStatuses
      BY <1>0 DEF DocumentsOperations
    <3>3. \/ operation.status = "Running" /\ s \in {"Pending", "Succeeded", "Failed"}
          \/ operation.status = "Pending" /\ s \in {"Completed", "Deleted"}
      BY <3>2, DocumentsOutcomesAre
    <3>4. operation' \in DocumentsOperations /\ operation'.route = operation.route /\ operation'.status = s
      BY <1>0, <3>1, <3>3 DEF DocumentsOperations, DocumentsStatuses
    <3> QED BY <1>0, <2>1, <3>3, <3>4
  <2>2. CASE /\ \E s \in Documents!Outcomes(source.status, value.kind \in {"action", "started validation"}) :
                   source' = [source EXCEPT !.status = s]
             /\ UNCHANGED operation
    <3>1. PICK s \in Documents!Outcomes(source.status, value.kind \in {"action", "started validation"}) :
                  source' = [source EXCEPT !.status = s]
      BY <2>2
    <3>2. source.status \in DocumentsStatuses
      BY <1>0 DEF DocumentsOperations
    <3>3. \/ source.status = "Running" /\ s \in {"Pending", "Succeeded", "Failed"}
          \/ source.status = "Pending" /\ s \in {"Completed", "Deleted"}
      BY <3>2, DocumentsOutcomesAre
    <3>4. source' \in DocumentsOperations /\ source'.route = source.route /\ source'.status = s
      BY <1>0, <3>1, <3>3 DEF DocumentsOperations, DocumentsStatuses
    <3> QED BY <1>0, <2>2, <3>3, <3>4
  <2> QED BY <2>1, <2>2 DEF Documents!ServiceWorks, Documents!Work
<1>3. /\ Documents!Asked'.route = Documents!Asked.route
      /\ \/ Documents!Asked' = Documents!Asked
         \/ Documents!Asked.status = "Running" /\ Documents!Asked'.status \in {"Pending", "Succeeded", "Failed"}
         \/ Documents!Asked.status = "Pending" /\ Documents!Asked'.status \in {"Completed", "Deleted"}
  BY <1>0, <1>2 DEF Documents!Asked
<1>4. DocumentsTyped'
  BY <1>0, <1>2 DEF DocumentsIInv, DocumentsTyped
<1>5. Documents!HeldIsTrue'
  BY <1>0, <1>2 DEF DocumentsIInv, Documents!HeldIsTrue
<1>6. DocumentsClassifiersRoute' /\ DocumentsPlaces' /\ Documents!RouteFollows'
  BY <1>0
     DEF DocumentsIInv, DocumentsClassifiersRoute, DocumentsPlaces, Documents!RouteFollows, Documents!OfValue
<1>7. DocumentsLeads'
  BY <1>0, <1>3 DEF DocumentsIInv, DocumentsLeads
<1>8. DocumentsOver'
  BY <1>0, <1>3 DEF DocumentsIInv, DocumentsOver, Documents!Waiting, DocumentsIsLater
<1>9. DocumentsFailedForGood'
  BY <1>0, <1>3 DEF DocumentsIInv, DocumentsFailedForGood, Documents!Succeeded
<1> QED BY <1>4, <1>5, <1>6, <1>7, <1>8, <1>9 DEF DocumentsIInv

LEMMA DocumentsBeginning ==
    ASSUME Documents!DocumentAssumption, Documents!Init
    PROVE  DocumentsIInv
<1>1. Documents!NoRoute \in Documents!Routes
  BY DEF Documents!NoRoute, Documents!Routes
<1>2. DocumentsTyped
  BY <1>1 DEF Documents!Init, DocumentsTyped, Documents!Nothing, Documents!Value, DocumentsValues,
     Documents!NoOperation, Documents!Operation, DocumentsOperations, Documents!NoCall, DocumentsRecords,
     DocumentsAnyParams,
              DocumentsResults, DocumentsTypes, DocumentsStatuses
<1> QED BY <1>2 DEF Documents!Init, DocumentsIInv, Documents!HeldIsTrue, DocumentsClassifiersRoute,
           DocumentsPlaces, DocumentsLeads, DocumentsOver, Documents!Waiting, DocumentsFailedForGood,
           Documents!RouteFollows,
                    Documents!Nothing, Documents!Value, Documents!NoOperation, Documents!Operation, Documents!NoCall

LEMMA DocumentsSteps ==
    ASSUME Documents!DocumentAssumption, DocumentsIInv, [Documents!Next]_(Documents!vars)
    PROVE  DocumentsIInv'
<1>1. CASE Documents!Next
  BY <1>1, DocumentsBeginInv, DocumentsLookUpInv, DocumentsStartOperationInv, DocumentsPollInv,
     DocumentsWaitEndsInv, DocumentsLookInv, DocumentsWorkInv DEF Documents!Next, Documents!Step
<1>2. CASE UNCHANGED Documents!vars
  BY <1>2 DEF Documents!vars, DocumentsIInv, DocumentsTyped, Documents!HeldIsTrue, DocumentsClassifiersRoute,
     DocumentsPlaces, DocumentsLeads, DocumentsOver, Documents!Waiting, Documents!Asked,
     DocumentsFailedForGood, Documents!Succeeded,
              Documents!RouteFollows, Documents!OfValue
<1> QED BY <1>1, <1>2

LEMMA DocumentsIsTrue ==
    ASSUME DocumentsIInv
    PROVE  Documents!HeldIsTrue /\ Documents!TrueVerdict /\ Documents!RouteFollows
  BY DEF DocumentsIInv, DocumentsFailedForGood, Documents!TrueVerdict

\* What the program holds leads back to an operation that came to the end it
\* stands for, a wait tells the truth, and an extraction follows the version
\* of its classification, however many calls are made
\* (_documents_service.py _wait_for_operation, _get_version, _get_tag).
THEOREM DocumentsAlwaysTrue == Spec => []DocumentsTrue
<1> DEFINE Inv == service = "documents" => DocumentsIInv
<1>1. Documents!DocumentAssumption
  BY ServicesAssumption
<1>2. Init => Inv
  BY <1>1, DocumentsBeginning DEF Init
<1>3. Inv /\ [Next]_vars => Inv'
  BY <1>1, OneService, DocumentsSteps
<1>4. Inv => DocumentsTrue
  BY <1>1, DocumentsIsTrue DEF DocumentsTrue
<1> HIDE DEF Inv
<1> QED BY <1>2, <1>3, <1>4, PTL DEF Spec
-------------------------------------------------------------------------------
(***************************************************************************)
(* PagedLookup, for any listing, pages of any size, and any changes        *)
(* meanwhile.                                                              *)
(*                                                                         *)
(* The argument: what was there all along is got, or the offset is yet to  *)
(* reach its place; and what was got is behind the offset (Skipped).  A    *)
(* removal before it may pull it under the offset and an addition may push *)
(* it over it, and only these can, so that the properties name them.  A    *)
(* page that something comes after is full (PageFull), so a walk does not  *)
(* stop before the last. A token does not move with the others (Resumed);  *)
(* and the keys of a chunk are found unless they were removed, so that too *)
(* few of them in all are a missing key (Asked).                           *)
(***************************************************************************)
LEMMA PageCardinality ==
    /\ \A S : Pages!Cardinality(S) = Cardinality(S)
    /\ \A S : Pages!IsFiniteSet(S) <=> IsFiniteSet(S)
<1>1. \A S : Pages!IsFiniteSet(S) <=> IsFiniteSet(S)
  BY DEF Pages!IsFiniteSet, IsFiniteSet
<1>2. \A S : Pages!Cardinality(S) = Cardinality(S)
  BY DEF Pages!Cardinality, Cardinality, Pages!IsFiniteSet, IsFiniteSet
<1> QED BY <1>1, <1>2

PageLists == UNION {[1 .. n -> Pages!Entries] : n \in Nat}
PageWalks ==
    [kind : Pages!Kinds \cup {"none", "failed"}, take : Nat \ {0}, target : Nat, asked : PageLists, from : Nat,
     got : SUBSET Pages!Entries, twice : SUBSET Pages!Entries, pc : {"idle", "walking", "done", "raised"}]
PageTyped ==
    /\ collection \subseteq Pages!Entries /\ always \subseteq collection
    /\ added \subseteq Pages!Entries /\ removed \subseteq Pages!Entries
    /\ walk \in PageWalks

PageByOffset == {"find", "each", "pages", "listed", "records"}
PageByToken == {"files", "exists"}

PageGone(e) == \E r \in removed : r < e
PageCame(e) == \E a \in added : a <= e

\* What was there all along is got, or the offset is yet to reach it; what was got
\* is behind the offset.
PageSkipped ==
    walk.pc = "walking" /\ walk.kind \in PageByOffset =>
       /\ \A e \in (Pages!Wanted \cap always) \ walk.got : Pages!Place(e) > walk.from \/ PageGone(e)
       /\ \A e \in walk.got : Pages!Place(e) <= walk.from \/ PageCame(e)

\* So it is with tokens, whatever comes and goes.
PageResumed ==
    walk.pc = "walking" /\ walk.kind \in PageByToken =>
       /\ \A e \in (Pages!Wanted \cap always) \ walk.got : e > walk.from
       /\ \A e \in walk.got : e <= walk.from

\* The place of a key among those that are asked for.
PageKeyPlace(i) == Rank(Pages!Unique(walk.asked), i)

\* A key whose chunk was asked for was found if it was there all along.
PageAsked ==
    walk.kind = "keys" =>
       /\ walk.got \subseteq Pages!Range(walk.asked) /\ walk.twice = {}
       /\ walk.pc = "walking" => \A i \in Pages!Unique(walk.asked) :
             /\ PageKeyPlace(i) <= walk.from => walk.asked[i] \in walk.got \/ walk.asked[i] \notin always
             /\ walk.asked[i] \in walk.got => PageKeyPlace(i) <= walk.from

PageIInv ==
    /\ PageTyped /\ PageSkipped /\ PageResumed /\ PageAsked
    /\ Pages!NothingMissed /\ Pages!NothingTwice /\ Pages!RefusedForMissing

LEMMA PagePlaceIs ==
    ASSUME Pages!PagedAssumption, PageTyped
    PROVE  /\ Listing \in Nat /\ collection \subseteq 1 .. Listing
           /\ \A e : Pages!Place(e) = Rank(collection, e)
           /\ \A page : Pages!Short(page) <=> Cardinality(page) < walk.take
           /\ \A page : Pages!Full(page) <=> Cardinality(page) = walk.take
           /\ Pages!HasNextPage <=> walk.from + Cardinality(Pages!Page) < Cardinality(collection)
           /\ Pages!Page = {e \in collection : walk.from < Rank(collection, e)
                                         /\ Rank(collection, e) <= walk.from + walk.take}
<1>1. \A e : Pages!Place(e) = Rank(collection, e)
  BY PageCardinality DEF Pages!Place, Rank
<1>2. /\ \A page : Pages!Short(page) <=> Cardinality(page) < walk.take
      /\ \A page : Pages!Full(page) <=> Cardinality(page) = walk.take
      /\ Pages!HasNextPage <=> walk.from + Cardinality(Pages!Page) < Cardinality(collection)
  BY PageCardinality DEF Pages!Short, Pages!Full, Pages!HasNextPage
<1>3. Pages!Page = {e \in collection : walk.from < Rank(collection, e)
                                 /\ Rank(collection, e) <= walk.from + walk.take}
  BY <1>1 DEF Pages!Page, Pages!OnPage
<1> QED BY <1>1, <1>2, <1>3 DEF Pages!PagedAssumption, PageTyped, Pages!Entries

\* What a page by offset brings, and what it leaves.
LEMMA PageOffsetPage ==
    ASSUME Pages!PagedAssumption, PageIInv, walk.pc = "walking", walk.kind \in PageByOffset,
           NEW B, B \subseteq Pages!Page, Pages!Wanted \cap Pages!Page \subseteq B
    PROVE  /\ B \subseteq Pages!Entries
           /\ \A e \in walk.got \cap B : PageCame(e)
           /\ \A e \in walk.got \cup B : Pages!Place(e) <= Pages!NextSkip \/ PageCame(e)
           /\ \A e \in (Pages!Wanted \cap always) \ (walk.got \cup B) : Pages!Place(e) > Pages!NextSkip \/ PageGone(e)
           /\ Cardinality(Pages!Page) # walk.take \/ Cardinality(collection) <= walk.from + Cardinality(Pages!Page)
              => \A e \in (Pages!Wanted \cap always) \ (walk.got \cup B) : PageGone(e)
<1>1. /\ Listing \in Nat /\ collection \subseteq 1 .. Listing
      /\ \A e : Pages!Place(e) = Rank(collection, e)
      /\ Pages!Page = {e \in collection : walk.from < Rank(collection, e)
                                    /\ Rank(collection, e) <= walk.from + walk.take}
  BY PagePlaceIs DEF PageIInv
<1>2. /\ walk.from \in Nat /\ walk.take \in Nat /\ walk.take > 0 /\ walk.got \subseteq Pages!Entries
      /\ always \subseteq collection /\ collection \subseteq Pages!Entries
  BY DEF PageIInv, PageTyped, PageWalks
<1>3. \A e \in Nat : Pages!Place(e) \in Nat /\ Pages!Place(e) <= Cardinality(collection)
  BY <1>1, RankGrows
<1>4. \A e \in Pages!Entries : e \in Nat
  BY DEF Pages!Entries
<1>5. \A e \in B : e \in collection /\ walk.from < Pages!Place(e) /\ Pages!Place(e) <= walk.from + walk.take
  BY <1>1
<1>6. /\ \A e \in (Pages!Wanted \cap always) \ walk.got : Pages!Place(e) > walk.from \/ PageGone(e)
      /\ \A e \in walk.got : Pages!Place(e) <= walk.from \/ PageCame(e)
  BY DEF PageIInv, PageSkipped
<1>7. \A e \in walk.got \cap B : PageCame(e)
  BY <1>2, <1>3, <1>4, <1>5, <1>6
<1>8. \A e \in walk.got \cup B : Pages!Place(e) <= Pages!NextSkip \/ PageCame(e)
  BY <1>2, <1>3, <1>4, <1>5, <1>6 DEF Pages!NextSkip
<1>9. \A e \in (Pages!Wanted \cap always) \ (walk.got \cup B) : Pages!Place(e) > Pages!NextSkip \/ PageGone(e)
  <2>1. SUFFICES ASSUME NEW e \in (Pages!Wanted \cap always) \ (walk.got \cup B), ~PageGone(e)
                 PROVE  Pages!Place(e) > Pages!NextSkip
    OBVIOUS
  <2>2. e \notin Pages!Page /\ e \in collection /\ Pages!Place(e) > walk.from
    BY <1>2, <1>6, <2>1
  <2>3. ~(Pages!Place(e) <= walk.from + walk.take)
    BY <1>1, <2>2
  <2>4. Pages!Place(e) \in Nat
    BY <1>2, <1>3, <1>4, <2>2
  <2> QED BY <1>2, <2>3, <2>4 DEF Pages!NextSkip
<1>10. ASSUME Cardinality(Pages!Page) # walk.take \/ Cardinality(collection) <= walk.from + Cardinality(Pages!Page),
              NEW e \in (Pages!Wanted \cap always) \ (walk.got \cup B), ~PageGone(e)
       PROVE  FALSE
  <2>1. e \in collection /\ Rank(collection, e) > walk.from + walk.take
    BY <1>1, <1>2, <1>9, <1>10 DEF Pages!NextSkip
  <2>2. Cardinality(Pages!Page) = walk.take
    BY <1>1, <1>2, <2>1, PageFull
  <2>3. Rank(collection, e) <= Cardinality(collection) /\ Rank(collection, e) \in Nat
    BY <1>1, <1>2, <1>3, <1>4, <2>1
  <2>4. Cardinality(collection) \in Nat
    BY <1>1, CountsAre
  <2> QED BY <1>2, <1>10, <2>1, <2>2, <2>3, <2>4
<1>11. B \subseteq Pages!Entries
  BY <1>2, <1>5
<1> QED BY <1>7, <1>8, <1>9, <1>10, <1>11

\* A page by offset after which the walk goes on, and one after which it is over.
LEMMA PageOffsetGoesOn ==
    ASSUME Pages!PagedAssumption, PageIInv, walk.pc = "walking", walk.kind \in PageByOffset,
           NEW B, B \subseteq Pages!Page, Pages!Wanted \cap Pages!Page \subseteq B,
           walk' = Pages!GoOn(Pages!With(B)), UNCHANGED <<collection, always, added, removed>>
    PROVE  PageIInv'
<1>1. /\ B \subseteq Pages!Entries
      /\ \A e \in walk.got \cap B : PageCame(e)
      /\ \A e \in walk.got \cup B : Pages!Place(e) <= Pages!NextSkip \/ PageCame(e)
      /\ \A e \in (Pages!Wanted \cap always) \ (walk.got \cup B) : Pages!Place(e) > Pages!NextSkip \/ PageGone(e)
  BY PageOffsetPage
<1>2. walk \in PageWalks
  BY DEF PageIInv, PageTyped
<1>3. walk' = [walk EXCEPT !.got = walk.got \cup B, !.twice = walk.twice \cup (walk.got \cap B),
                           !.from = Pages!NextSkip]
  BY <1>2 DEF Pages!GoOn, Pages!With, PageWalks
<1>4. /\ walk'.got = walk.got \cup B /\ walk'.twice = walk.twice \cup (walk.got \cap B)
         /\ walk'.from = Pages!NextSkip
      /\ walk'.kind = walk.kind /\ walk'.target = walk.target /\ walk'.pc = "walking"
      /\ walk.kind \notin {"keys", "files", "exists"}
  BY <1>2, <1>3 DEF PageWalks, PageByOffset
<1>5. Pages!NextSkip \in Nat
  BY <1>2 DEF Pages!NextSkip, PageWalks
<1>6. PageTyped'
  BY <1>1, <1>2, <1>3, <1>5 DEF PageIInv, PageTyped, PageWalks, Pages!Entries
<1>7. Pages!Wanted' = Pages!Wanted /\ (\A e : Pages!Place(e)' = Pages!Place(e)
        /\ (PageGone(e)' <=> PageGone(e)) /\ (PageCame(e)' <=> PageCame(e)))
  BY <1>4 DEF Pages!Wanted, Pages!Place, PageGone, PageCame, Pages!Entries
<1>8. PageSkipped' /\ PageResumed' /\ PageAsked' /\ Pages!NothingMissed' /\ Pages!RefusedForMissing'
  BY <1>1, <1>4, <1>7 DEF PageSkipped, PageResumed, PageAsked, Pages!NothingMissed, Pages!RefusedForMissing,
     PageByOffset, PageByToken
<1>9. Pages!NothingTwice'
  BY <1>1, <1>4, <1>7 DEF PageIInv, Pages!NothingTwice, PageCame
<1> QED BY <1>6, <1>8, <1>9 DEF PageIInv

LEMMA PageOffsetEnds ==
    ASSUME Pages!PagedAssumption, PageIInv, walk.pc = "walking", walk.kind \in PageByOffset,
           NEW B, B \subseteq Pages!Page, Pages!Wanted \cap Pages!Page \subseteq B,
           \/ Cardinality(Pages!Page) # walk.take \/ Cardinality(collection) <= walk.from + Cardinality(Pages!Page)
           \/ Pages!Wanted \subseteq B,
           walk' = Pages!Done(Pages!With(B)), UNCHANGED <<collection, always, added, removed>>
    PROVE  PageIInv'
<1>1. /\ B \subseteq Pages!Entries
      /\ \A e \in walk.got \cap B : PageCame(e)
      /\ \A e \in (Pages!Wanted \cap always) \ (walk.got \cup B) : PageGone(e)
  BY PageOffsetPage
<1>2. walk \in PageWalks
  BY DEF PageIInv, PageTyped
<1>3. walk' = [walk EXCEPT !.got = walk.got \cup B, !.twice = walk.twice \cup (walk.got \cap B), !.pc = "done"]
  BY <1>2 DEF Pages!Done, Pages!With, PageWalks
<1>4. /\ walk'.got = walk.got \cup B /\ walk'.twice = walk.twice \cup (walk.got \cap B)
      /\ walk'.kind = walk.kind /\ walk'.target = walk.target /\ walk'.pc = "done"
      /\ walk.kind \notin {"keys", "files", "exists"}
  BY <1>2, <1>3 DEF PageWalks, PageByOffset
<1>6. PageTyped'
  BY <1>1, <1>2, <1>3 DEF PageIInv, PageTyped, PageWalks, Pages!Entries
<1>7. Pages!Wanted' = Pages!Wanted /\ (\A e : (PageGone(e)' <=> PageGone(e)) /\ (PageCame(e)' <=> PageCame(e)))
  BY <1>4 DEF Pages!Wanted, PageGone, PageCame, Pages!Entries
<1>8. PageSkipped' /\ PageResumed' /\ PageAsked' /\ Pages!RefusedForMissing'
  BY <1>4 DEF PageSkipped, PageResumed, PageAsked, Pages!RefusedForMissing
<1>9. Pages!NothingTwice'
  BY <1>1, <1>4, <1>7 DEF PageIInv, Pages!NothingTwice, PageCame
<1>10. Pages!NothingMissed'
  BY <1>1, <1>4, <1>7 DEF Pages!NothingMissed, PageGone
<1> QED BY <1>6, <1>8, <1>9, <1>10 DEF PageIInv

\* A walk that is given up.
LEMMA PageGivenUp ==
    ASSUME Pages!PagedAssumption, PageIInv, walk.pc = "walking",
           \/ walk.kind # "keys" /\ walk' = Pages!Raised(walk)
           \/ walk' = [Pages!Raised(walk) EXCEPT !.kind = "failed"],
           UNCHANGED <<collection, always, added, removed>>
    PROVE  PageIInv'
<1>1. walk \in PageWalks
  BY DEF PageIInv, PageTyped
<1>2. /\ walk'.twice = walk.twice /\ walk'.pc = "raised"
      /\ walk'.kind \in {walk.kind, "failed"} /\ walk'.kind # "keys" /\ walk' \in PageWalks
  BY <1>1 DEF Pages!Raised, PageWalks
<1>3. Pages!NothingTwice'
  BY <1>2 DEF PageIInv, Pages!NothingTwice
<1> QED BY <1>2, <1>3 DEF PageIInv, PageTyped, PageSkipped, PageResumed, PageAsked, Pages!NothingMissed,
           Pages!RefusedForMissing, Pages!Entries

\* A page by token: what comes behind it is behind its last entry.
LEMMA PageTokenPageIs ==
    ASSUME Pages!PagedAssumption, PageIInv, walk.pc = "walking", walk.kind \in PageByToken
    PROVE  /\ Pages!TokenPage \subseteq Pages!Entries
           /\ \A e \in Pages!TokenPage : e > walk.from
           /\ Cardinality(Pages!After) <= walk.take =>
                 \A e \in (Pages!Wanted \cap always) \ walk.got : e \in Pages!TokenPage
           /\ Cardinality(Pages!After) > walk.take =>
                 /\ Pages!Max(Pages!TokenPage) \in Pages!TokenPage
                    /\ \A e \in Pages!TokenPage : e <= Pages!Max(Pages!TokenPage)
                 /\ \A e \in (Pages!Wanted \cap always) \ walk.got :
                       e \in Pages!TokenPage \/ e > Pages!Max(Pages!TokenPage)
<1>1. /\ walk.from \in Nat /\ walk.take \in Nat /\ walk.take > 0
      /\ always \subseteq collection /\ collection \subseteq Pages!Entries
  BY DEF PageIInv, PageTyped, PageWalks
<1>2. Listing \in Nat /\ Pages!After \subseteq 1 .. Listing
  BY <1>1 DEF Pages!PagedAssumption, Pages!Entries, Pages!After
<1>3. Pages!TokenPage = {e \in Pages!After : Rank(Pages!After, e) <= walk.take}
  BY PageCardinality DEF Pages!TokenPage, Rank
<1>4. /\ \A e \in Nat : Rank(Pages!After, e) \in Nat /\ Rank(Pages!After, e) <= Cardinality(Pages!After)
      /\ \A e \in Pages!After : e \in Nat
      /\ \A e, f \in Nat : e <= f => Rank(Pages!After, e) <= Rank(Pages!After, f)
  BY <1>2, RankGrows
<1>5. Cardinality(Pages!After) \in Nat
  BY <1>2, CountsAre
<1>6. \A e \in (Pages!Wanted \cap always) \ walk.got : e \in Pages!After
  BY <1>1 DEF PageIInv, PageResumed, Pages!After
<1>7. ASSUME Cardinality(Pages!After) <= walk.take
      PROVE \A e \in (Pages!Wanted \cap always) \ walk.got : e \in Pages!TokenPage
  BY <1>1, <1>3, <1>4, <1>5, <1>6, <1>7
<1>8. ASSUME Cardinality(Pages!After) > walk.take
      PROVE  /\ Pages!Max(Pages!TokenPage) \in Pages!TokenPage
                /\ \A e \in Pages!TokenPage : e <= Pages!Max(Pages!TokenPage)
             /\ \A e \in (Pages!Wanted \cap always) \ walk.got :
                   e \in Pages!TokenPage \/ e > Pages!Max(Pages!TokenPage)
  <2>1. 1 \in 1 .. Cardinality(Pages!After)
    BY <1>1, <1>5, <1>8
  <2>2. PICK f \in Pages!After : Rank(Pages!After, f) = 1
    <3>1. \A k \in 1 .. Cardinality(Pages!After) : \E f \in Pages!After : Rank(Pages!After, f) = k
      BY <1>2, RankOnto
    <3> QED BY <2>1, <3>1
  <2>3. Pages!TokenPage # {} /\ Pages!TokenPage \subseteq 1 .. Listing
    <3>1. Rank(Pages!After, f) <= walk.take
      BY <1>1, <2>2
    <3>2. f \in Pages!TokenPage /\ Pages!TokenPage \subseteq Pages!After
      BY <1>3, <3>1
    <3> QED BY <1>2, <3>2
  <2>4. PICK m \in Pages!TokenPage : \A e \in Pages!TokenPage : e <= m
    BY <1>2, <2>3, HasMax
  <2>5. \A x, y \in 1 .. Listing : x >= y <=> y <= x
    BY <1>2
  <2>6. \E x \in Pages!TokenPage : \A y \in Pages!TokenPage : x >= y
    BY <2>3, <2>4, <2>5
  <2>7. Pages!Max(Pages!TokenPage) \in Pages!TokenPage /\ \A y \in Pages!TokenPage : Pages!Max(Pages!TokenPage) >= y
    BY <2>6 DEF Pages!Max
  <2>8. \A e \in Pages!TokenPage : e <= Pages!Max(Pages!TokenPage)
    BY <2>3, <2>5, <2>7
  <2>9. ASSUME NEW e \in (Pages!Wanted \cap always) \ walk.got, e \notin Pages!TokenPage
        PROVE e > Pages!Max(Pages!TokenPage)
    <3>1. e \in Pages!After /\ ~(Rank(Pages!After, e) <= walk.take)
      BY <1>3, <1>6, <2>9
    <3>2. Pages!Max(Pages!TokenPage) \in Nat /\ Rank(Pages!After, Pages!Max(Pages!TokenPage)) <= walk.take
      BY <1>3, <1>4, <2>7
    <3>3. e \in Nat /\ Rank(Pages!After, e) \in Nat /\ Rank(Pages!After, Pages!Max(Pages!TokenPage)) \in Nat
      BY <1>4, <3>1, <3>2
    <3>4. ~(e <= Pages!Max(Pages!TokenPage))
      BY <1>1, <1>4, <3>1, <3>2, <3>3
    <3> QED BY <3>2, <3>3, <3>4
  <2> QED BY <2>7, <2>8, <2>9
<1>9. Pages!TokenPage \subseteq Pages!Entries /\ \A e \in Pages!TokenPage : e > walk.from
  BY <1>1, <1>3 DEF Pages!After
<1> QED BY <1>7, <1>8, <1>9

LEMMA PageTokenEnds ==
    ASSUME Pages!PagedAssumption, PageIInv, walk.pc = "walking", walk.kind \in PageByToken,
           NEW B, B \subseteq Pages!TokenPage, Pages!Wanted \cap always \subseteq walk.got \cup B,
           walk' = Pages!Done(Pages!With(B)), UNCHANGED <<collection, always, added, removed>>
    PROVE  PageIInv'
<1>1. Pages!TokenPage \subseteq Pages!Entries /\ \A e \in Pages!TokenPage : e > walk.from
  BY PageTokenPageIs
<1>2. /\ walk \in PageWalks /\ walk.got \subseteq Pages!Entries /\ walk.from \in Nat
      /\ \A e \in Pages!Entries : e \in Nat
  BY DEF PageIInv, PageTyped, PageWalks, Pages!Entries
<1>3. \A e \in walk.got : e <= walk.from
  BY DEF PageIInv, PageResumed
<1>4. walk.got \cap B = {}
  BY <1>1, <1>2, <1>3
<1>5. walk' = [walk EXCEPT !.got = walk.got \cup B, !.pc = "done"]
  BY <1>2, <1>4 DEF Pages!With, Pages!Done, PageWalks
<1>6. /\ walk'.got = walk.got \cup B /\ walk'.twice = walk.twice /\ walk'.pc = "done"
      /\ walk'.kind = walk.kind /\ walk'.target = walk.target /\ walk.kind # "keys"
  BY <1>2, <1>5 DEF PageWalks, PageByToken
<1>7. PageTyped'
  BY <1>1, <1>2, <1>5 DEF PageIInv, PageTyped, PageWalks, Pages!Entries
<1>8. Pages!Wanted' = Pages!Wanted
  BY <1>6 DEF Pages!Wanted, Pages!Entries
<1>9. Pages!NothingMissed' /\ Pages!NothingTwice'
  BY <1>6, <1>8 DEF PageIInv, Pages!NothingMissed, Pages!NothingTwice
<1> QED BY <1>6, <1>7, <1>9 DEF PageIInv, PageSkipped, PageResumed, PageAsked, Pages!RefusedForMissing

LEMMA PageTokenGoesOn ==
    ASSUME Pages!PagedAssumption, PageIInv, walk.pc = "walking", walk.kind \in PageByToken,
           NEW B, B \subseteq Pages!TokenPage, Pages!Wanted \cap Pages!TokenPage \subseteq B,
           walk' = Pages!OnFromToken(Pages!With(B)), UNCHANGED <<collection, always, added, removed>>
    PROVE  PageIInv'
<1>1. walk.take \in Nat /\ Cardinality(Pages!After) \in Nat
  <2>1. Listing \in Nat /\ Pages!After \subseteq 1 .. Listing
    BY DEF Pages!PagedAssumption, Pages!Entries, Pages!After, PageIInv, PageTyped
  <2> QED BY <2>1, CountsAre DEF PageIInv, PageTyped, PageWalks
<1>2. /\ Pages!TokenPage \subseteq Pages!Entries
      /\ \A e \in Pages!TokenPage : e > walk.from
      /\ Cardinality(Pages!After) <= walk.take =>
            \A e \in (Pages!Wanted \cap always) \ walk.got : e \in Pages!TokenPage
      /\ ~(Cardinality(Pages!After) <= walk.take) =>
            /\ Pages!Max(Pages!TokenPage) \in Pages!TokenPage
               /\ \A e \in Pages!TokenPage : e <= Pages!Max(Pages!TokenPage)
            /\ \A e \in (Pages!Wanted \cap always) \ walk.got :
                  e \in Pages!TokenPage \/ e > Pages!Max(Pages!TokenPage)
  BY <1>1, PageTokenPageIs
<1>3. CASE Cardinality(Pages!After) <= walk.take
  <2>1. walk' = Pages!Done(Pages!With(B))
    BY <1>3, PageCardinality DEF Pages!OnFromToken
  <2> QED BY <1>2, <1>3, <2>1, PageTokenEnds
<1>4. CASE ~(Cardinality(Pages!After) <= walk.take)
  <2> DEFINE m == Pages!Max(Pages!TokenPage)
  <2>1. /\ walk \in PageWalks /\ walk.got \subseteq Pages!Entries /\ walk.from \in Nat
        /\ \A e \in Pages!Entries : e \in Nat
    BY DEF PageIInv, PageTyped, PageWalks, Pages!Entries
  <2>2. \A e \in walk.got : e <= walk.from
    BY DEF PageIInv, PageResumed
  <2>3. walk.got \cap B = {}
    BY <1>2, <2>1, <2>2
  <2>4. Pages!With(B) = [walk EXCEPT !.got = walk.got \cup B]
    BY <2>1, <2>3 DEF Pages!With, PageWalks
  <2>5. walk' = [walk EXCEPT !.got = walk.got \cup B, !.from = m]
    BY <1>4, <2>1, <2>4, PageCardinality DEF Pages!OnFromToken, PageWalks
  <2>6. m \in Pages!Entries /\ m \in Nat /\ m > walk.from
    BY <1>2, <1>4, <2>1
  <2>7. /\ walk'.got = walk.got \cup B /\ walk'.twice = walk.twice /\ walk'.pc = "walking" /\ walk'.from = m
        /\ walk'.kind = walk.kind /\ walk'.target = walk.target /\ walk.kind \notin PageByOffset \cup {"keys"}
    BY <2>1, <2>5 DEF PageWalks, PageByToken, PageByOffset
  <2>8. PageTyped'
    BY <1>2, <2>1, <2>5, <2>6 DEF PageIInv, PageTyped, PageWalks, Pages!Entries
  <2>9. Pages!Wanted' = Pages!Wanted
    BY <2>7 DEF Pages!Wanted, Pages!Entries
  <2>10. \A e \in walk.got \cup B : e <= m
    BY <1>2, <1>4, <2>1, <2>2, <2>6
  <2>11. \A e \in (Pages!Wanted \cap always) \ (walk.got \cup B) : e > m
    BY <1>2, <1>4
  <2>12. PageResumed'
    BY <2>7, <2>9, <2>10, <2>11 DEF PageResumed
  <2>13. Pages!NothingTwice'
    BY <2>7 DEF PageIInv, Pages!NothingTwice
  <2> HIDE DEF m
  <2> QED BY <2>7, <2>8, <2>12, <2>13
             DEF PageIInv, PageSkipped, PageAsked, Pages!NothingMissed, Pages!RefusedForMissing
<1> QED BY <1>3, <1>4

\* The keys that are asked for are those of the list, each once.
LEMMA PageUniqueIs ==
    ASSUME NEW n \in Nat, NEW items \in [1 .. n -> Pages!Entries]
    PROVE  /\ Pages!Unique(items) \subseteq 1 .. n
           /\ \A i, j \in Pages!Unique(items) : i # j => items[i] # items[j]
           /\ Pages!Range(items) = {items[i] : i \in Pages!Unique(items)}
           /\ IsFiniteSet(Pages!Range(items))
              /\ Cardinality(Pages!Range(items)) = Cardinality(Pages!Unique(items))
<1> DEFINE keys == Pages!Unique(items)
<1>1. keys \subseteq 1 .. n
  BY DEF Pages!Unique
<1>2. \A i, j \in keys : i # j => items[i] # items[j]
  <2>1. SUFFICES ASSUME NEW i \in keys, NEW j \in keys, i < j PROVE items[i] # items[j]
    <3>1. \A i, j \in keys : i # j => i < j \/ j < i
      BY <1>1
    <3> QED BY <2>1, <3>1
  <2>2. i \in 1 .. j - 1
    BY <1>1, <2>1
  <2> QED BY <2>2 DEF Pages!Unique
<1>3. \A i \in 1 .. n : \E k \in keys : items[k] = items[i]
  <2>1. SUFFICES ASSUME NEW i \in 1 .. n PROVE \E k \in keys : items[k] = items[i]
    OBVIOUS
  <2> DEFINE S == {j \in 1 .. n : items[j] = items[i]}
  <2>2. S \subseteq Nat /\ S # {}
    OBVIOUS
  <2>3. PICK m \in S : \A j \in S : m <= j
    BY <2>2, HasMin
  <2>4. \A j \in 1 .. m - 1 : j \in 1 .. n /\ ~(m <= j)
    OBVIOUS
  <2>5. \A j \in 1 .. m - 1 : items[j] # items[m]
    BY <2>3, <2>4
  <2>6. m \in keys
    BY <2>5 DEF Pages!Unique
  <2> QED BY <2>6
<1>4. Pages!Range(items) = {items[i] : i \in keys}
  <2>1. Pages!Range(items) = {items[i] : i \in 1 .. n}
    BY DEF Pages!Range
  <2> QED BY <1>1, <1>3, <2>1
<1> DEFINE f == [i \in keys |-> items[i]]
<1>5. f \in Bijection(keys, Pages!Range(items))
  <2> HIDE DEF keys
  <2>1. f \in Injection(keys, Pages!Range(items))
    BY <1>2, <1>4 DEF Injection, IsInjective
  <2>2. f \in Surjection(keys, Pages!Range(items))
    BY <1>4 DEF Surjection
  <2> QED BY <2>1, <2>2 DEF Bijection
<1>6. IsFiniteSet(keys)
  BY <1>1, CountsAre
<1>7. ExistsBijection(keys, Pages!Range(items))
  BY <1>5 DEF ExistsBijection
<1> HIDE DEF keys
<1>8. IsFiniteSet(Pages!Range(items)) /\ Cardinality(Pages!Range(items)) = Cardinality(keys)
  BY <1>6, <1>7, FS_Bijection
<1> QED BY <1>1, <1>2, <1>4, <1>8 DEF keys

LEMMA PageResolveStep ==
    ASSUME Pages!PagedAssumption, PageIInv, Pages!Resolve
    PROVE  PageIInv'
<1> DEFINE keys == Pages!Unique(walk.asked)
           chunk == {walk.asked[i] : i \in {k \in keys : Pages!OnPage(Cardinality({j \in keys : j <= k}))}}
           B == chunk \cap collection
<1>1. /\ walk.pc = "walking" /\ walk.kind = "keys" /\ UNCHANGED <<collection, always, added, removed>>
      /\ walk' = IF Pages!NextSkip < Cardinality(keys) THEN Pages!GoOn(Pages!With(B))
                 ELSE IF Cardinality(Pages!With(B).got) # Cardinality(keys) THEN Pages!Raised(Pages!With(B))
                 ELSE Pages!Done(Pages!With(B))
  BY PageCardinality DEF Pages!Resolve, Pages!Walking
<1>2. /\ walk \in PageWalks /\ walk.from \in Nat /\ walk.take \in Nat /\ walk.got \subseteq Pages!Entries
      /\ always \subseteq collection /\ collection \subseteq Pages!Entries /\ walk.asked \in PageLists
  BY DEF PageIInv, PageTyped, PageWalks
<1>3. PICK n \in Nat : walk.asked \in [1 .. n -> Pages!Entries]
  BY <1>2 DEF PageLists
<1>4. /\ keys \subseteq 1 .. n
      /\ \A i, j \in keys : i # j => walk.asked[i] # walk.asked[j]
      /\ Pages!Range(walk.asked) = {walk.asked[i] : i \in keys}
      /\ IsFiniteSet(Pages!Range(walk.asked)) /\ Cardinality(Pages!Range(walk.asked)) = Cardinality(keys)
  BY <1>3, PageUniqueIs
<1>5. \A i \in keys : PageKeyPlace(i) \in Nat /\ PageKeyPlace(i) <= Cardinality(keys)
  BY <1>4, RankGrows DEF PageKeyPlace
<1>6. Cardinality(keys) \in Nat
  BY <1>4, CountsAre
<1>7. chunk = {walk.asked[i] : i \in {k \in keys : walk.from < PageKeyPlace(k) /\ PageKeyPlace(k) <= Pages!NextSkip}}
  BY DEF Pages!OnPage, PageKeyPlace, Rank, Pages!NextSkip
<1> HIDE DEF chunk
<1>8. /\ walk.got \subseteq Pages!Range(walk.asked) /\ walk.twice = {}
      /\ \A i \in keys :
            /\ PageKeyPlace(i) <= walk.from => walk.asked[i] \in walk.got \/ walk.asked[i] \notin always
            /\ walk.asked[i] \in walk.got => PageKeyPlace(i) <= walk.from
  BY <1>1 DEF PageIInv, PageAsked
<1>9. Pages!NextSkip \in Nat /\ walk.from <= Pages!NextSkip
  BY <1>2 DEF Pages!NextSkip
<1> HIDE DEF keys
<1>10. walk.got \cap B = {} /\ B \subseteq Pages!Range(walk.asked)
  BY <1>2, <1>4, <1>5, <1>7, <1>8
<1>11. \A i \in keys :
          /\ PageKeyPlace(i) <= Pages!NextSkip => walk.asked[i] \in walk.got \cup B \/ walk.asked[i] \notin always
          /\ walk.asked[i] \in walk.got \cup B => PageKeyPlace(i) <= Pages!NextSkip
  <2>1. SUFFICES ASSUME NEW i \in keys
                 PROVE  /\ PageKeyPlace(i) <= Pages!NextSkip =>
                              walk.asked[i] \in walk.got \cup B \/ walk.asked[i] \notin always
                        /\ walk.asked[i] \in walk.got \cup B => PageKeyPlace(i) <= Pages!NextSkip
    OBVIOUS
  <2>2. ASSUME PageKeyPlace(i) <= Pages!NextSkip, walk.asked[i] \in always
        PROVE walk.asked[i] \in walk.got \cup B
    <3>1. CASE PageKeyPlace(i) <= walk.from
      BY <1>8, <2>2, <3>1
    <3>2. CASE ~(PageKeyPlace(i) <= walk.from)
      <4>1. walk.from < PageKeyPlace(i)
        BY <1>2, <1>5, <3>2
      <4> QED BY <1>2, <1>7, <2>2, <4>1
    <3> QED BY <3>1, <3>2
  <2>3. ASSUME walk.asked[i] \in walk.got PROVE PageKeyPlace(i) <= Pages!NextSkip
    BY <1>2, <1>5, <1>8, <1>9, <2>3
  <2>4. ASSUME walk.asked[i] \in B PROVE PageKeyPlace(i) <= Pages!NextSkip
    BY <1>4, <1>7, <2>4
  <2> QED BY <2>2, <2>3, <2>4
<1>12. Pages!With(B) = [walk EXCEPT !.got = walk.got \cup B]
  BY <1>2, <1>10 DEF Pages!With, PageWalks
<1>13. /\ walk'.got = walk.got \cup B /\ walk'.twice = {} /\ walk'.asked = walk.asked /\ walk'.kind = "keys"
       /\ walk' \in PageWalks
  BY <1>1, <1>2, <1>8, <1>9, <1>12 DEF Pages!GoOn, Pages!Raised, Pages!Done, PageWalks
<1>14. PageTyped' /\ PageSkipped' /\ PageResumed' /\ Pages!NothingTwice' /\ Pages!NothingMissed'
  BY <1>1, <1>13 DEF PageIInv, PageTyped, PageSkipped, PageResumed, Pages!NothingTwice, Pages!NothingMissed,
     Pages!Entries, PageByOffset, PageByToken
<1>15. walk'.got \subseteq Pages!Range(walk'.asked)
  BY <1>8, <1>10, <1>13
<1>16. CASE Pages!NextSkip < Cardinality(keys)
  <2>1. walk'.pc = "walking" /\ walk'.from = Pages!NextSkip
    BY <1>1, <1>2, <1>12, <1>16 DEF Pages!GoOn, PageWalks
  <2>2. Pages!Unique(walk'.asked) = keys /\ (\A i : PageKeyPlace(i)' = PageKeyPlace(i))
    BY <1>13 DEF keys, PageKeyPlace
  <2>3. PageAsked'
    BY <1>1, <1>11, <1>13, <1>15, <2>1, <2>2 DEF PageAsked
  <2> QED BY <1>14, <2>1, <2>3 DEF PageIInv, Pages!RefusedForMissing
<1>17. CASE ~(Pages!NextSkip < Cardinality(keys))
  <2>1. \A i \in keys : walk.asked[i] \in walk.got \cup B \/ walk.asked[i] \notin always
    BY <1>5, <1>6, <1>9, <1>11, <1>17
  <2>2. Pages!With(B).got = walk.got \cup B /\ walk'.pc \in {"done", "raised"}
    BY <1>1, <1>2, <1>12, <1>17 DEF Pages!Raised, Pages!Done, PageWalks
  <2>3. ASSUME walk'.pc = "raised" PROVE Pages!Range(walk.asked) \ always # {}
    <3>1. Cardinality(walk.got \cup B) # Cardinality(Pages!Range(walk.asked))
      BY <1>1, <1>2, <1>4, <1>12, <1>17, <2>2, <2>3 DEF Pages!Done, PageWalks
    <3>2. walk.got \cup B # Pages!Range(walk.asked)
      BY <3>1
    <3> QED BY <1>4, <1>8, <1>10, <2>1, <3>2
  <2>4. ASSUME walk'.pc = "done" PROVE walk.got \cup B = Pages!Range(walk.asked)
    <3>1. Cardinality(walk.got \cup B) = Cardinality(Pages!Range(walk.asked))
      BY <1>1, <1>2, <1>4, <1>12, <1>17, <2>2, <2>4 DEF Pages!Raised, PageWalks
    <3>2. walk.got \cup B \in SUBSET Pages!Range(walk.asked)
      BY <1>8, <1>10
    <3> QED BY <1>4, <3>1, <3>2, FS_Subset
  <2>5. Pages!RefusedForMissing'
    BY <1>1, <1>13, <2>3, <2>4 DEF Pages!RefusedForMissing
  <2>6. PageAsked'
    BY <1>13, <1>15, <2>2 DEF PageAsked
  <2> QED BY <1>14, <2>5, <2>6 DEF PageIInv
<1> QED BY <1>16, <1>17

\* Others add and remove.
LEMMA PageOthersStep ==
    ASSUME Pages!PagedAssumption, PageIInv, Pages!Others
    PROVE  PageIInv'
<1>1. PICK x \in Pages!Entries :
         /\ walk.pc = "walking" /\ walk' = walk
         /\ \/ x \notin collection /\ collection' = collection \cup {x} /\ added' = added \cup {x}
               /\ UNCHANGED <<always, removed>>
            \/ collection' = collection \ {x} /\ removed' = removed \cup {x} /\ always' = always \ {x}
               /\ UNCHANGED added
  BY DEF Pages!Others, PageIInv, PageTyped
<1>2. /\ collection \subseteq Pages!Entries /\ always \subseteq collection /\ added \subseteq Pages!Entries
      /\ removed \subseteq Pages!Entries /\ walk \in PageWalks
      /\ (\A e \in Pages!Entries : e \in Nat) /\ walk.got \subseteq Pages!Entries /\ walk.from \in Nat
  BY DEF PageIInv, PageTyped, Pages!Entries, PageWalks
<1>3. PageTyped'
  BY <1>1, <1>2 DEF PageTyped, PageWalks, Pages!Entries
<1>4. /\ Pages!Wanted' = Pages!Wanted
      /\ \A e : (PageGone(e) => PageGone(e)') /\ (PageCame(e) => PageCame(e)')
      /\ always' \subseteq always
  BY <1>1 DEF Pages!Wanted, Pages!Entries, PageGone, PageCame
<1>5. (\A e : Pages!Place(e) = Rank(collection, e)) /\ (\A e : Pages!Place(e)' = Rank(collection', e))
  BY PageCardinality, PagePlaceIs DEF PageIInv, Pages!Place, Rank
<1>6. Listing \in Nat /\ collection \subseteq 1 .. Listing /\ collection' \subseteq 1 .. Listing
  BY <1>1, <1>2 DEF Pages!PagedAssumption, Pages!Entries
<1>7. \A e \in Pages!Entries : Pages!Place(e) \in Nat /\ Pages!Place(e)' \in Nat
  BY <1>2, <1>5, <1>6, RankGrows
<1>8. PageSkipped'
  <2>1. ASSUME walk.kind \in PageByOffset, NEW e \in (Pages!Wanted' \cap always') \ walk.got
        PROVE  Pages!Place(e)' > walk.from \/ PageGone(e)'
    <3>1. Pages!Place(e) > walk.from \/ PageGone(e)
      BY <1>1, <1>4, <2>1 DEF PageIInv, PageSkipped
    <3>2. e \in Pages!Entries /\ e \in Nat /\ x \in Nat
      BY <1>2, <1>4
    <3>3. CASE collection' = collection \cup {x}
      <4>1. Pages!Place(e) <= Pages!Place(e)'
        BY <1>6, <3>3, CountsGrow, PageCardinality DEF Pages!Place
      <4> QED BY <1>2, <1>4, <1>7, <3>1, <3>2, <4>1
    <3>4. CASE collection' = collection \ {x} /\ removed' = removed \cup {x} /\ always' = always \ {x}
      <4>1. CASE x < e
        BY <3>4, <4>1 DEF PageGone
      <4>2. CASE ~(x < e)
        <5>1. x # e
          BY <2>1, <3>4
        <5>2. {y \in collection' : y <= e} = {y \in collection : y <= e}
          BY <1>2, <3>2, <3>4, <4>2, <5>1
        <5>3. Pages!Place(e)' = Pages!Place(e)
          BY <5>2 DEF Pages!Place
        <5> QED BY <1>4, <3>1, <5>3
      <4> QED BY <4>1, <4>2
    <3> QED BY <1>1, <3>3, <3>4
  <2>2. ASSUME walk.kind \in PageByOffset, NEW e \in walk.got
        PROVE  Pages!Place(e)' <= walk.from \/ PageCame(e)'
    <3>1. Pages!Place(e) <= walk.from \/ PageCame(e)
      BY <1>1, <2>2 DEF PageIInv, PageSkipped
    <3>2. e \in Pages!Entries /\ e \in Nat /\ x \in Nat
      BY <1>2
    <3>3. CASE collection' = collection \cup {x} /\ added' = added \cup {x}
      <4>1. CASE x <= e
        BY <3>3, <4>1 DEF PageCame
      <4>2. CASE ~(x <= e)
        <5>1. {y \in collection' : y <= e} = {y \in collection : y <= e}
          BY <3>3, <4>2
        <5>2. Pages!Place(e)' = Pages!Place(e)
          BY <5>1 DEF Pages!Place
        <5> QED BY <1>4, <3>1, <5>2
      <4> QED BY <4>1, <4>2
    <3>4. CASE collection' = collection \ {x}
      <4>1. Pages!Place(e)' <= Pages!Place(e)
        BY <1>6, <3>4, CountsGrow, PageCardinality DEF Pages!Place
      <4> QED BY <1>2, <1>4, <1>7, <3>1, <3>2, <4>1
    <3> QED BY <1>1, <3>3, <3>4
  <2> QED BY <1>1, <2>1, <2>2 DEF PageSkipped
<1>9. PageResumed'
  BY <1>1, <1>4 DEF PageIInv, PageResumed
<1>10. PageAsked'
  BY <1>1, <1>4 DEF PageIInv, PageAsked, PageKeyPlace
<1>11. Pages!NothingMissed' /\ Pages!RefusedForMissing'
  BY <1>1 DEF Pages!NothingMissed, Pages!RefusedForMissing
<1>12. Pages!NothingTwice'
  BY <1>1, <1>4 DEF PageIInv, Pages!NothingTwice, PageCame
<1> QED BY <1>3, <1>8, <1>9, <1>10, <1>11, <1>12 DEF PageIInv

\* A walk begins.
LEMMA PageBeginStep ==
    ASSUME Pages!PagedAssumption, PageIInv, Pages!BeginWalk
    PROVE  PageIInv'
<1>1. PICK kind \in Pages!Kinds, take \in Takes, target \in Nat, items \in PageLists :
         walk' = [Pages!NoWalk EXCEPT !.kind = kind, !.take = take, !.target = target, !.asked = items,
                                      !.pc = "walking"]
         /\ UNCHANGED <<collection, always, added, removed>>
  <2>1. PICK take \in Takes :
            \/ \E kind \in {"find", "exists"}, e \in Pages!Entries : Pages!Begin(kind, take, e, <<>>)
            \/ \E kind \in {"each", "pages", "listed", "files", "records"} : Pages!Begin(kind, take, 0, <<>>)
            \/ \E n \in 1 .. MaxKeys : \E items \in [1 .. n -> Pages!Entries] : Pages!Begin("keys", take, 0, items)
    BY DEF Pages!BeginWalk
  <2>2. <<>> \in PageLists
    <3>1. <<>> \in [1 .. 0 -> Pages!Entries]
      OBVIOUS
    <3> QED BY <3>1 DEF PageLists
  <2>3. \A e \in Pages!Entries : e \in Nat
    BY DEF Pages!Entries
  <2>4. CASE \E kind \in {"find", "exists"}, e \in Pages!Entries : Pages!Begin(kind, take, e, <<>>)
    BY <2>2, <2>3, <2>4 DEF Pages!Begin, Pages!Kinds
  <2>5. CASE \E kind \in {"each", "pages", "listed", "files", "records"} : Pages!Begin(kind, take, 0, <<>>)
    BY <2>2, <2>5 DEF Pages!Begin, Pages!Kinds
  <2>6. CASE \E n \in 1 .. MaxKeys : \E items \in [1 .. n -> Pages!Entries] : Pages!Begin("keys", take, 0, items)
    <3>1. PICK n \in 1 .. MaxKeys : \E items \in [1 .. n -> Pages!Entries] : Pages!Begin("keys", take, 0, items)
      BY <2>6
    <3>2. PICK items \in [1 .. n -> Pages!Entries] : Pages!Begin("keys", take, 0, items)
      BY <3>1
    <3>3. n \in Nat
      BY DEF Pages!PagedAssumption
    <3>4. items \in PageLists
      BY <3>3 DEF PageLists
    <3> QED BY <3>2, <3>4 DEF Pages!Begin, Pages!Kinds
  <2> QED BY <2>1, <2>4, <2>5, <2>6
<1>2. /\ walk'.kind = kind /\ walk'.take = take /\ walk'.target = target /\ walk'.asked = items
      /\ walk'.from = 0 /\ walk'.got = {} /\ walk'.twice = {} /\ walk'.pc = "walking"
      /\ walk' \in PageWalks
  BY <1>1 DEF Pages!NoWalk, PageWalks, Pages!PagedAssumption, Pages!Kinds
<1>3. PageTyped'
  BY <1>1, <1>2 DEF PageIInv, PageTyped, Pages!Entries, PageWalks
<1>4. Listing \in Nat /\ collection \subseteq 1 .. Listing /\ always \subseteq collection
  BY DEF PageIInv, PageTyped, Pages!PagedAssumption, Pages!Entries
<1>5. \A e \in always : Rank(collection, e) > 0 /\ e > 0
  <2>1. \A e \in collection : Rank(collection, e) > 0
    BY <1>4, RankGrows
  <2>2. \A e \in 1 .. Listing : e > 0
    BY <1>4
  <2> QED BY <1>4, <2>1, <2>2
<1>6. \A e \in always' : Pages!Place(e)' > 0 /\ e > 0
  BY <1>1, <1>5, PageCardinality DEF Pages!Place, Rank
<1>7. PageSkipped' /\ PageResumed'
  BY <1>2, <1>6 DEF PageSkipped, PageResumed
<1>8. PageAsked'
  <2>1. PICK n \in Nat : items \in [1 .. n -> Pages!Entries]
    BY DEF PageLists
  <2>2. Pages!Unique(items) \subseteq 1 .. n
    BY <2>1, PageUniqueIs
  <2>3. \A i \in Pages!Unique(items) : Rank(Pages!Unique(items), i) \in Nat /\ Rank(Pages!Unique(items), i) > 0
    BY <2>1, <2>2, RankGrows
  <2>4. \A i \in Pages!Unique(items) : ~(Rank(Pages!Unique(items), i) <= 0)
    BY <2>3
  <2> QED BY <1>2, <2>4 DEF PageAsked, PageKeyPlace
<1>9. Pages!NothingMissed' /\ Pages!NothingTwice' /\ Pages!RefusedForMissing'
  BY <1>2 DEF Pages!NothingMissed, Pages!NothingTwice, Pages!RefusedForMissing
<1> QED BY <1>3, <1>7, <1>8, <1>9 DEF PageIInv

\* The walk asks for a page.
LEMMA PageStep ==
    ASSUME Pages!PagedAssumption, PageIInv, Pages!NextPage
    PROVE  PageIInv'
<1>1. /\ \A page : Pages!Short(page) <=> Cardinality(page) < walk.take
      /\ \A page : Pages!Full(page) <=> Cardinality(page) = walk.take
      /\ Pages!HasNextPage <=> walk.from + Cardinality(Pages!Page) < Cardinality(collection)
      /\ Listing \in Nat /\ collection \subseteq 1 .. Listing
  BY PagePlaceIs DEF PageIInv
<1>2. /\ Pages!Page \subseteq collection /\ Pages!TokenPage \subseteq Pages!After /\ walk \in PageWalks
      /\ walk.take \in Nat /\ walk.take > 0 /\ walk.from \in Nat
  BY DEF Pages!Page, Pages!TokenPage, PageIInv, PageTyped, PageWalks
<1>3. Cardinality(Pages!Page) \in Nat /\ Cardinality(collection) \in Nat /\ Cardinality({}) = 0
  BY <1>1, <1>2, CountsAre, FS_EmptySet
<1>4. Pages!With({}) = walk
  BY <1>2 DEF Pages!With, PageWalks
<1>5. CASE Pages!Find
  <2>1. walk.pc = "walking" /\ walk.kind = "find" /\ UNCHANGED <<collection, always, added, removed>>
    BY <1>5 DEF Pages!Find, Pages!Walking
  <2>2. Pages!Wanted = {walk.target} /\ walk.kind \in PageByOffset
    BY <2>1 DEF Pages!Wanted, PageByOffset
  <2>3. CASE walk.target \in Pages!Page
    <3>1. walk' = Pages!Done(Pages!With({walk.target}))
      BY <1>5, <2>3 DEF Pages!Find
    <3>2. {walk.target} \subseteq Pages!Page /\ Pages!Wanted \cap Pages!Page \subseteq {walk.target}
      BY <2>2, <2>3
    <3> QED BY <2>1, <2>2, <3>1, <3>2, PageOffsetEnds
  <2>4. CASE walk.target \notin Pages!Page /\ Pages!Short(Pages!Page)
    <3>1. walk' = Pages!Done(Pages!With({}))
      BY <1>4, <1>5, <2>4 DEF Pages!Find
    <3>2. Pages!Wanted \cap Pages!Page \subseteq {} /\ Cardinality(Pages!Page) # walk.take
      BY <1>1, <1>2, <1>3, <2>2, <2>4
    <3> QED BY <2>1, <2>2, <3>1, <3>2, PageOffsetEnds
  <2>5. CASE walk.target \notin Pages!Page /\ ~Pages!Short(Pages!Page)
    <3>1. walk' = Pages!GoOn(Pages!With({}))
      BY <1>4, <1>5, <2>5 DEF Pages!Find
    <3>2. Pages!Wanted \cap Pages!Page \subseteq {}
      BY <2>2, <2>5
    <3> QED BY <2>1, <2>2, <3>1, <3>2, PageOffsetGoesOn
  <2> QED BY <2>3, <2>4, <2>5
<1>6. CASE Pages!Each
  <2>1. /\ walk.pc = "walking" /\ walk.kind \in PageByOffset /\ UNCHANGED <<collection, always, added, removed>>
        /\ walk' = IF Pages!Page = {} \/ Pages!Short(Pages!Page) THEN Pages!Done(Pages!With(Pages!Page))
                   ELSE Pages!GoOn(Pages!With(Pages!Page))
    BY <1>6 DEF Pages!Each, Pages!Walking, PageByOffset
  <2>2. CASE Pages!Page = {} \/ Pages!Short(Pages!Page)
    <3> SUFFICES Cardinality(Pages!Page) # walk.take
      BY <2>1, <2>2, PageOffsetEnds
    <3>1. CASE Pages!Page = {}
      BY <1>2, <1>3, <3>1
    <3>2. CASE Pages!Short(Pages!Page)
      BY <1>1, <1>2, <1>3, <3>2
    <3> QED BY <2>2, <3>1, <3>2
  <2>3. CASE ~(Pages!Page = {} \/ Pages!Short(Pages!Page))
    BY <2>1, <2>3, PageOffsetGoesOn
  <2> QED BY <2>2, <2>3
<1>7. CASE Pages!GetFiles
  <2> DEFINE B == Pages!Page \ Directories
  <2>1. /\ walk.pc = "walking" /\ walk.kind = "pages" /\ UNCHANGED <<collection, always, added, removed>>
        /\ walk' = IF Pages!TooFar THEN Pages!Raised(walk)
                   ELSE IF Pages!Full(Pages!Page) THEN Pages!GoOn(Pages!With(B)) ELSE Pages!Done(Pages!With(B))
    BY <1>7 DEF Pages!GetFiles, Pages!Walking
  <2>2. Pages!Wanted = Pages!Entries \ Directories /\ walk.kind \in PageByOffset
    BY <2>1 DEF Pages!Wanted, PageByOffset
  <2>3. B \subseteq Pages!Page /\ Pages!Wanted \cap Pages!Page \subseteq B
    BY <2>2
  <2> HIDE DEF B
  <2>4. CASE Pages!TooFar
    BY <2>1, <2>4, PageGivenUp
  <2>5. CASE ~Pages!TooFar /\ Pages!Full(Pages!Page)
    BY <2>1, <2>2, <2>3, <2>5, PageOffsetGoesOn
  <2>6. CASE ~Pages!TooFar /\ ~Pages!Full(Pages!Page)
    <3>1. Cardinality(Pages!Page) # walk.take
      BY <1>1, <2>6
    <3> QED BY <2>1, <2>2, <2>3, <2>6, <3>1, PageOffsetEnds
  <2> QED BY <2>4, <2>5, <2>6
<1>8. CASE Pages!ListPage
  <2>1. /\ walk.pc = "walking" /\ walk.kind = "listed" /\ UNCHANGED <<collection, always, added, removed>>
        /\ walk' = IF Pages!TooFar THEN Pages!Raised(walk)
                   ELSE IF Pages!Full(Pages!Page) THEN Pages!GoOn(Pages!With(Pages!Page))
                   ELSE Pages!Done(Pages!With(Pages!Page))
    BY <1>8 DEF Pages!ListPage, Pages!Walking
  <2>2. walk.kind \in PageByOffset
    BY <2>1 DEF PageByOffset
  <2>4. CASE Pages!TooFar
    BY <2>1, <2>4, PageGivenUp
  <2>5. CASE ~Pages!TooFar /\ Pages!Full(Pages!Page)
    BY <2>1, <2>2, <2>5, PageOffsetGoesOn
  <2>6. CASE ~Pages!TooFar /\ ~Pages!Full(Pages!Page)
    <3>1. Cardinality(Pages!Page) # walk.take
      BY <1>1, <2>6
    <3> QED BY <2>1, <2>2, <2>6, <3>1, PageOffsetEnds
  <2> QED BY <2>4, <2>5, <2>6
<1>9. CASE Pages!ListRecords
  <2>1. /\ walk.pc = "walking" /\ walk.kind \in PageByOffset /\ UNCHANGED <<collection, always, added, removed>>
        /\ walk' = IF Pages!HasNextPage THEN Pages!GoOn(Pages!With(Pages!Page))
                   ELSE Pages!Done(Pages!With(Pages!Page))
    BY <1>9 DEF Pages!ListRecords, Pages!Walking, PageByOffset
  <2>2. CASE Pages!HasNextPage
    BY <2>1, <2>2, PageOffsetGoesOn
  <2>3. CASE ~Pages!HasNextPage
    <3>1. Cardinality(collection) <= walk.from + Cardinality(Pages!Page)
      BY <1>1, <1>2, <1>3, <2>3
    <3> QED BY <2>1, <2>3, <3>1, PageOffsetEnds
  <2> QED BY <2>2, <2>3
<1>10. CASE Pages!ListFiles
  <2>1. /\ walk.pc = "walking" /\ walk.kind \in PageByToken /\ UNCHANGED <<collection, always, added, removed>>
        /\ walk' = Pages!OnFromToken(Pages!With(Pages!TokenPage))
    BY <1>10 DEF Pages!ListFiles, Pages!Walking, PageByToken
  <2> QED BY <2>1, PageTokenGoesOn
<1>11. CASE Pages!Exists
  <2>1. walk.pc = "walking" /\ walk.kind = "exists" /\ UNCHANGED <<collection, always, added, removed>>
    BY <1>11 DEF Pages!Exists, Pages!Walking
  <2>2. Pages!Wanted = {walk.target} /\ walk.kind \in PageByToken
    BY <2>1 DEF Pages!Wanted, PageByToken
  <2>3. CASE walk.target \in Pages!TokenPage
    <3>1. walk' = Pages!Done(Pages!With({walk.target}))
      BY <1>11, <2>3 DEF Pages!Exists
    <3>2. {walk.target} \subseteq Pages!TokenPage /\ Pages!Wanted \cap always \subseteq walk.got \cup {walk.target}
      BY <2>2, <2>3
    <3> QED BY <2>1, <2>2, <3>1, <3>2, PageTokenEnds
  <2>4. CASE walk.target \notin Pages!TokenPage
    <3>1. walk' = Pages!OnFromToken(Pages!With({}))
      BY <1>4, <1>11, <2>4 DEF Pages!Exists
    <3>2. Pages!Wanted \cap Pages!TokenPage \subseteq {}
      BY <2>2, <2>4
    <3> QED BY <2>1, <2>2, <3>1, <3>2, PageTokenGoesOn
  <2> QED BY <2>3, <2>4
<1>12. CASE Pages!Resolve
  BY <1>12, PageResolveStep
<1> QED BY <1>5, <1>6, <1>7, <1>8, <1>9, <1>10, <1>11, <1>12 DEF Pages!NextPage

LEMMA PageSteps ==
    ASSUME Pages!PagedAssumption, PageIInv, [Pages!Next]_(Pages!vars)
    PROVE  PageIInv'
<1>1. CASE Pages!Others
  BY <1>1, PageOthersStep
<1>2. CASE Pages!BeginWalk
  BY <1>2, PageBeginStep
<1>3. CASE Pages!NextPage
  BY <1>3, PageStep
<1>4. CASE Pages!Fail
  BY <1>4, PageGivenUp DEF Pages!Fail, Pages!Walking
<1>5. CASE UNCHANGED Pages!vars
  BY <1>5 DEF Pages!vars, PageIInv, PageTyped, PageSkipped, PageResumed, PageAsked, Pages!NothingMissed,
     Pages!NothingTwice, Pages!RefusedForMissing,
              Pages!Wanted, PageGone, PageCame, Pages!Place, PageKeyPlace, Pages!Entries
<1> QED BY <1>1, <1>2, <1>3, <1>4, <1>5 DEF Pages!Next

LEMMA PageStarts ==
    ASSUME Pages!PagedAssumption, Pages!Init
    PROVE  PageIInv
<1>1. <<>> \in PageLists
  <2>1. <<>> \in [1 .. 0 -> Pages!Entries]
    OBVIOUS
  <2> QED BY <2>1 DEF PageLists
<1>2. PageTyped
  BY <1>1 DEF Pages!Init, PageTyped, Pages!NoWalk, PageWalks
<1> QED BY <1>2 DEF Pages!Init, Pages!NoWalk, PageIInv, PageSkipped, PageResumed, PageAsked,
           Pages!NothingMissed, Pages!NothingTwice, Pages!RefusedForMissing

LEMMA PageKept ==
    ASSUME PageIInv
    PROVE  Pages!NothingMissed /\ Pages!NothingTwice /\ Pages!RefusedForMissing
  BY DEF PageIInv

\* A walk over a paged listing misses nothing that was there all along unless
\* something before it was removed, gets nothing twice unless something was added,
\* and refuses keys only if one is missing, for any listing and pages of any size
\* (_buckets_service.py list_files, get_files, exists; _attachments_service.py,
\* _processes_service.py and the other pagers).
THEOREM PagesAlwaysAddUp == Spec => []PagesAddUp
<1> DEFINE Inv == service = "pages" => PageIInv
<1>1. Pages!PagedAssumption
  BY ServicesAssumption
<1>2. Init => Inv
  BY <1>1, PageStarts DEF Init
<1>3. Inv /\ [Next]_vars => Inv'
  BY <1>1, OneService, PageSteps
<1>4. Inv => PagesAddUp
  BY <1>1, PageKept DEF PagesAddUp
<1> HIDE DEF Inv
<1> QED BY <1>2, <1>3, <1>4, PTL DEF Spec
-------------------------------------------------------------------------------
(***************************************************************************)
(* TraceParents, for any number of spans and frames.                       *)
(*                                                                         *)
(* The argument: a parent is older than its child, so the lines of a       *)
(* registry exist (LinesExist), and where the registry knows all between   *)
(* two spans it leads from the lower to the upper as the truth does        *)
(* (LinesAgree): then the upper one is its ancestor and the lower one is   *)
(* chosen.  Frames that are over in order give back the youngest of those  *)
(* begun before them (Nested), and what is called beneath a span that is   *)
(* not recorded has it as its parent and is not sampled (Quiet); the       *)
(* registry knows the parent of such a span, so nothing called beside it   *)
(* goes past it (Turned).                                                  *)
(***************************************************************************)
\* Parents are older than their children.
TraceOlder(n, reg) == \A x \in DOMAIN reg : x \in 1 .. n /\ (reg[x] = Tracing!Untold \/ reg[x] \in 0 .. x - 1)

\* The lines of a registry, as Line makes them.
TraceIsLines(n, reg, f) ==
    f = [x \in 0 .. n |-> IF x \notin DOMAIN reg \/ reg[x] = Tracing!Untold THEN {x} ELSE {x} \cup f[reg[x]]]
TraceTheLines(n, reg) == CHOOSE f : TraceIsLines(n, reg, f)
TraceLineOf(n, reg, s) == TraceTheLines(n, reg)[s]

\* There are such lines.
LEMMA TraceLinesExist ==
    ASSUME NEW n \in Nat, NEW reg, TraceOlder(n, reg)
    PROVE  \E f : TraceIsLines(n, reg, f)
<1> DEFINE Upto(k) == \E f : f = [x \in 0 .. k |->
                         IF x \notin DOMAIN reg \/ reg[x] = Tracing!Untold THEN {x} ELSE {x} \cup f[reg[x]]]
           Bad == {k \in 0 .. n : ~Upto(k)}
<1>1. SUFFICES ASSUME Bad # {} PROVE FALSE
  <2>1. n \in 0 .. n
    OBVIOUS
  <2> QED BY <1>1, <2>1 DEF TraceIsLines
<1>2. PICK k \in Bad : \A j \in Bad : k <= j
  <2>1. Bad \subseteq Nat
    OBVIOUS
  <2> HIDE DEF Bad
  <2> QED BY <1>1, <2>1, HasMin
<1>3. k \in 0 .. n /\ ~Upto(k)
  BY <1>2
<1>4. CASE k = 0
  <2> DEFINE f == [x \in 0 .. 0 |-> {x}]
  <2>1. \A x \in 0 .. 0 : x = 0 /\ x \notin DOMAIN reg
    BY DEF TraceOlder
  <2>2. f = [x \in 0 .. 0 |-> IF x \notin DOMAIN reg \/ reg[x] = Tracing!Untold THEN {x} ELSE {x} \cup f[reg[x]]]
    BY <2>1
  <2>3. Upto(0)
    BY <2>2
  <2> QED BY <1>3, <1>4, <2>3
<1>5. CASE k # 0
  <2>1. k - 1 \in 0 .. n /\ ~(k <= k - 1) /\ k \in Nat
    BY <1>3, <1>5
  <2>2. Upto(k - 1)
    BY <1>2, <2>1
  <2>3. PICK f : f = [x \in 0 .. k - 1 |->
                         IF x \notin DOMAIN reg \/ reg[x] = Tracing!Untold THEN {x} ELSE {x} \cup f[reg[x]]]
    BY <2>2
  <2> DEFINE g == [x \in 0 .. k |->
                IF x \notin DOMAIN reg \/ reg[x] = Tracing!Untold THEN {x} ELSE {x} \cup f[reg[x]]]
  <2>4. \A x \in 0 .. k : x \in DOMAIN reg /\ reg[x] # Tracing!Untold => reg[x] \in 0 .. k - 1
    BY <2>1 DEF TraceOlder
  <2>5. \A x \in 0 .. k - 1 : g[x] = f[x]
    <3>1. \A x \in 0 .. k - 1 : f[x] =
             IF x \notin DOMAIN reg \/ reg[x] = Tracing!Untold THEN {x} ELSE {x} \cup f[reg[x]]
      BY <2>3
    <3>2. \A x \in 0 .. k - 1 : x \in 0 .. k
      BY <2>1
    <3> QED BY <3>1, <3>2
  <2>6. g = [x \in 0 .. k |-> IF x \notin DOMAIN reg \/ reg[x] = Tracing!Untold THEN {x} ELSE {x} \cup g[reg[x]]]
    <3>1. \A x \in 0 .. k : x \in DOMAIN reg /\ reg[x] # Tracing!Untold => f[reg[x]] = g[reg[x]]
      BY <2>4, <2>5
    <3> HIDE DEF g
    <3>2. \A x \in 0 .. k : (IF x \notin DOMAIN reg \/ reg[x] = Tracing!Untold THEN {x} ELSE {x} \cup f[reg[x]])
                          = (IF x \notin DOMAIN reg \/ reg[x] = Tracing!Untold THEN {x} ELSE {x} \cup g[reg[x]])
      BY <3>1
    <3> QED BY <3>2 DEF g
  <2>7. Upto(k)
    <3> HIDE DEF g
    <3> QED BY <2>6
  <2> QED BY <1>3, <2>7
<1> QED BY <1>4, <1>5

LEMMA TraceLineIs ==
    ASSUME NEW n \in Nat, NEW reg, TraceOlder(n, reg), NEW s \in 0 .. n
    PROVE  TraceLineOf(n, reg, s) =
             IF s \notin DOMAIN reg \/ reg[s] = Tracing!Untold THEN {s} ELSE {s} \cup TraceLineOf(n, reg, reg[s])
<1> DEFINE f == TraceTheLines(n, reg)
<1>1. TraceIsLines(n, reg, f)
  <2>1. \E g : TraceIsLines(n, reg, g)
    BY TraceLinesExist
  <2> QED BY <2>1 DEF TraceTheLines
<1> HIDE DEF f
<1>2. f[s] = IF s \notin DOMAIN reg \/ reg[s] = Tracing!Untold THEN {s} ELSE {s} \cup f[reg[s]]
  BY <1>1 DEF TraceIsLines
<1> QED BY <1>2 DEF TraceLineOf, f

\* All on a line are as old as its end, or older.
LEMMA TraceLineIsOlder ==
    ASSUME NEW n \in Nat, NEW reg, TraceOlder(n, reg)
    PROVE  \A s \in 0 .. n : s \in TraceLineOf(n, reg, s) /\ \A x \in TraceLineOf(n, reg, s) : x \in 0 .. s
<1> DEFINE Bad == {s \in 0 .. n : \E x \in TraceLineOf(n, reg, s) : x \notin 0 .. s}
<1>1. \A s \in 0 .. n : s \in TraceLineOf(n, reg, s)
  BY TraceLineIs
<1>2. ASSUME Bad # {} PROVE FALSE
  <2>1. Bad \subseteq Nat
    OBVIOUS
  <2>2. PICK s \in Bad : \A t \in Bad : s <= t
    <3> HIDE DEF Bad
    <3> QED BY <1>2, <2>1, HasMin
  <2>3. s \in 0 .. n /\ s \in Nat
    OBVIOUS
  <2>4. CASE s \notin DOMAIN reg \/ reg[s] = Tracing!Untold
    <3>1. TraceLineOf(n, reg, s) = {s}
      BY <2>3, <2>4, TraceLineIs
    <3> QED BY <2>3, <3>1
  <2>5. CASE ~(s \notin DOMAIN reg \/ reg[s] = Tracing!Untold)
    <3>1. reg[s] \in 0 .. s - 1
      BY <2>5 DEF TraceOlder
    <3>2. TraceLineOf(n, reg, s) = {s} \cup TraceLineOf(n, reg, reg[s])
      BY <2>3, <2>5, TraceLineIs
    <3>3. reg[s] \in 0 .. n /\ ~(s <= reg[s])
      BY <2>3, <3>1
    <3>4. \A x \in TraceLineOf(n, reg, reg[s]) : x \in 0 .. reg[s]
      BY <2>2, <3>3
    <3>5. \A x \in TraceLineOf(n, reg, s) : x \in 0 .. s
      BY <2>3, <3>1, <3>2, <3>4
    <3> QED BY <3>5
  <2> QED BY <2>4, <2>5
<1> QED BY <1>1, <1>2

\* Where one registry knows of all between two spans what the other says of them,
\* the lower leads to the higher in both.
LEMMA TraceLinesAgree ==
    ASSUME NEW n \in Nat, NEW m \in Nat, n <= m, NEW reg, NEW true, TraceOlder(n, reg), TraceOlder(m, true),
           NEW low \in 0 .. n, NEW high \in 0 .. n, high \in TraceLineOf(m, true, low),
           \A x \in TraceLineOf(m, true, low) \ TraceLineOf(m, true, high) :
              x \in DOMAIN true /\ true[x] # Tracing!Untold => x \in DOMAIN reg /\ reg[x] = true[x]
    PROVE  high \in TraceLineOf(n, reg, low)
<1> DEFINE Bad == {s \in 0 .. n : s \in TraceLineOf(m, true, low) /\ high \in TraceLineOf(m, true, s)
        /\ high \notin TraceLineOf(n, reg, s)
                                  /\ TraceLineOf(m, true, s) \subseteq TraceLineOf(m, true, low)}
<1>0. (\A s \in 0 .. n : s \in 0 .. m) /\ TraceOlder(n, reg) /\ TraceOlder(m, true)
  OBVIOUS
<1>1. SUFFICES ASSUME Bad # {} PROVE FALSE
  <2>1. low \in TraceLineOf(m, true, low)
    BY <1>0, TraceLineIsOlder
  <2> QED BY <1>1, <2>1
<1>2. Bad \subseteq Nat
  OBVIOUS
<1>3. PICK s \in Bad : \A t \in Bad : s <= t
  <2> HIDE DEF Bad
  <2> QED BY <1>1, <1>2, HasMin
<1>4. /\ s \in 0 .. n /\ s \in TraceLineOf(m, true, low) /\ high \in TraceLineOf(m, true, s)
         /\ high \notin TraceLineOf(n, reg, s)
      /\ TraceLineOf(m, true, s) \subseteq TraceLineOf(m, true, low)
  OBVIOUS
<1>5. high \in TraceLineOf(n, reg, high) /\ s # high
  <2>1. high \in TraceLineOf(n, reg, high)
    BY <1>0, TraceLineIsOlder
  <2> QED BY <1>4, <2>1
<1>6. /\ s \in DOMAIN true /\ true[s] # Tracing!Untold
         /\ TraceLineOf(m, true, s) = {s} \cup TraceLineOf(m, true, true[s])
      /\ high \in TraceLineOf(m, true, true[s])
  BY <1>4, <1>5, <1>0, TraceLineIs
<1>7. true[s] \in 0 .. s - 1
  BY <1>6 DEF TraceOlder
<1>8. true[s] \in 0 .. n /\ ~(s <= true[s])
  BY <1>4, <1>7
<1>9. s \notin TraceLineOf(m, true, high)
  <2>1. high \in 0 .. true[s]
    BY <1>6, <1>8, <1>0, TraceLineIsOlder
  <2>2. high < s
    BY <1>4, <1>7, <2>1
  <2>3. ASSUME s \in TraceLineOf(m, true, high) PROVE s \in 0 .. high
    BY <2>3, <1>0, TraceLineIsOlder
  <2> QED BY <1>4, <2>2, <2>3
<1>10. s \in DOMAIN reg /\ reg[s] = true[s]
  BY <1>4, <1>6, <1>9
<1>11. TraceLineOf(n, reg, s) = {s} \cup TraceLineOf(n, reg, true[s])
  BY <1>4, <1>6, <1>10, <1>0, TraceLineIs
<1>12. true[s] \in TraceLineOf(m, true, true[s])
  BY <1>8, <1>0, TraceLineIsOlder
<1>13. true[s] \in Bad
  BY <1>4, <1>6, <1>8, <1>11, <1>12
<1> QED BY <1>3, <1>8, <1>13

LEMMA TraceLineIsLineOf == \A reg, s : Tracing!Line(reg, s) = TraceLineOf(Len(span), reg, s)
  BY DEF Tracing!Line, TraceLineOf, TraceTheLines, TraceIsLines

\* A line ends in 0 if all parents are told.
LEMMA TraceLinesEnd ==
    ASSUME NEW n \in Nat, NEW true, TraceOlder(n, true), DOMAIN true = 1 .. n,
           \A x \in 1 .. n : true[x] # Tracing!Untold
    PROVE  \A s \in 0 .. n : 0 \in TraceLineOf(n, true, s)
<1> DEFINE Bad == {s \in 0 .. n : 0 \notin TraceLineOf(n, true, s)}
<1>1. ASSUME Bad # {} PROVE FALSE
  <2>1. Bad \subseteq Nat
    OBVIOUS
  <2>2. PICK s \in Bad : \A t \in Bad : s <= t
    <3> HIDE DEF Bad
    <3> QED BY <1>1, <2>1, HasMin
  <2>3. s \in 0 .. n /\ 0 \notin TraceLineOf(n, true, s) /\ s \in TraceLineOf(n, true, s)
    BY TraceLineIsOlder
  <2>4. s \in 1 .. n /\ true[s] # Tracing!Untold /\ s \in DOMAIN true
    BY <2>3
  <2>5. TraceLineOf(n, true, s) = {s} \cup TraceLineOf(n, true, true[s]) /\ true[s] \in 0 .. s - 1
    BY <2>3, <2>4, TraceLineIs DEF TraceOlder
  <2>6. true[s] \in Bad /\ ~(s <= true[s])
    BY <2>3, <2>4, <2>5
  <2> QED BY <2>2, <2>6
<1> QED BY <1>1

-------------------------------------------------------------------------------
TraceMade == [under : Nat, sampled : BOOLEAN, silent : BOOLEAN, beside : Nat, asked : BOOLEAN, carried : Nat]
TraceFrames == [span : Nat, saved : Nat, generates : BOOLEAN]

\* A span is beneath an older one and beside an older one, and tells the truth of
\* its parent or nothing; one that is not recorded tells it.
TraceMadeRight(x, s) ==
    /\ s.under < x /\ s.beside < x
    /\ s.carried = s.under \/ s.carried = Tracing!Untold
    /\ s.silent => ~s.sampled /\ s.carried = s.under
    /\ s.asked => s.beside # 0

\* The registry has what the spans tell, of all that are not recorded and of all
\* that were current when there was a choice.
TraceKnows ==
    /\ \A x \in DOMAIN registry : x \in 1 .. Len(span) /\ registry[x] = span[x].carried
    /\ \A x \in 1 .. Len(span) :
          /\ span[x].silent => x \in DOMAIN registry
          /\ span[x].asked => span[x].beside \in DOMAIN registry

TraceSpun ==
    /\ span \in Seq(TraceMade) /\ Len(span) <= MaxSpans
    /\ \A x \in 1 .. Len(span) : TraceMadeRight(x, span[x])
    /\ external \in Seq(Nat) /\ \A i \in 1 .. Len(external) : external[i] \in 1 .. Len(span)
    /\ current \in 0 .. Len(span)
    /\ TraceKnows

\* No frame is twice among those that run and wait.
TraceApart ==
    /\ frames \in Seq(TraceFrames) /\ waiting \subseteq TraceFrames
    /\ \A i, j \in 1 .. Len(frames) : frames[i].span = frames[j].span => i = j
    /\ \A i \in 1 .. Len(frames), w \in waiting : frames[i].span # w.span
    /\ \A v, w \in waiting : v.span = w.span => v = w
    /\ \A f \in Tracing!Live : f.span \in 1 .. Len(span) /\ f.saved \in 0 .. Len(span)

\* As long as all are over in order, a frame gives back the youngest of those that
\* began before it, and the current one is the youngest of all.
TraceNested ==
    ~astray =>
       /\ \A f \in Tracing!Live :
             /\ f.saved < f.span
             /\ f.saved # 0 => \E g \in Tracing!Live : g.span = f.saved
             /\ \A g \in Tracing!Live : g.span < f.span => g.span <= f.saved
       /\ current # 0 => \E g \in Tracing!Live : g.span = current
       /\ \A g \in Tracing!Live : g.span <= current

\* And what is called beneath one that is not recorded is not either.
TraceQuiet ==
    ~astray => \A a, b \in Tracing!Live :
       span[a.span].silent /\ a.span < b.span
          => ~span[b.span].sampled \/ \E y \in a.span + 1 .. b.span : span[y].asked
TraceTurned ==
    \A x \in 1 .. Len(span) :
       span[x].asked /\ span[span[x].beside].silent /\ span[x].sampled
          => span[x].under # span[span[x].beside].under

TraceIInv == TraceSpun /\ TraceApart /\ TraceNested /\ TraceQuiet /\ TraceTurned /\ Tracing!DeeperIsParent

LEMMA TraceIsKept ==
    ASSUME Tracing!TraceAssumption, TraceIInv
    PROVE  Tracing!YoungestIsCurrent /\ Tracing!DeeperIsParent /\ Tracing!SilenceHolds
<1>1. Tracing!YoungestIsCurrent
  <2>1. SUFFICES ASSUME ~astray PROVE IF Tracing!Live = {} THEN current = 0
                                      ELSE \A f \in Tracing!Live : Tracing!Youngest(f) => current = f.span
    BY DEF Tracing!YoungestIsCurrent
  <2>2. \A f \in Tracing!Live : f.span \in Nat /\ current \in Nat
    BY DEF TraceIInv, TraceApart, TraceSpun
  <2> QED BY <2>1, <2>2 DEF TraceIInv, TraceNested, Tracing!Youngest
<1>2. \A n \in 1 .. Len(frames) : frames[n] \in Tracing!Live
  BY DEF Tracing!Live, Tracing!Range, TraceIInv, TraceApart
<1>3. Tracing!SilenceHolds
  BY <1>2 DEF Tracing!SilenceHolds, TraceIInv, TraceQuiet, TraceTurned
<1> QED BY <1>1, <1>3 DEF TraceIInv

LEMMA TraceStarts ==
    ASSUME Tracing!TraceAssumption, Tracing!Init
    PROVE  TraceIInv
<1>1. Tracing!Live = {}
  BY DEF Tracing!Init, Tracing!Live, Tracing!Range
<1>2. TraceSpun
  BY DEF Tracing!Init, TraceSpun, TraceKnows, Tracing!TraceAssumption
<1>3. TraceApart
  BY <1>1 DEF Tracing!Init, TraceApart
<1>4. Tracing!DeeperIsParent
  BY DEF Tracing!Init, Tracing!DeeperIsParent, Tracing!NoChoice
<1>5. Len(span) = 0
  BY DEF Tracing!Init
<1>6. TraceNested /\ TraceQuiet
  BY <1>1 DEF TraceNested, TraceQuiet, Tracing!Init
<1>7. TraceTurned
  BY <1>5 DEF TraceTurned
<1> QED BY <1>2, <1>3, <1>4, <1>6, <1>7 DEF TraceIInv

\* A new span is appended to the others.
LEMMA TraceAppendIs ==
    ASSUME NEW s, span \in Seq(TraceMade), s \in TraceMade, span' = Append(span, s)
    PROVE  /\ Len(span) \in Nat /\ Len(span') = Len(span) + 1 /\ span' \in Seq(TraceMade)
              /\ span'[Tracing!New] = s
           /\ \A x \in 1 .. Len(span) : span'[x] = span[x]
  BY DEF Tracing!New

\* The spans that one more leaves as they were.
LEMMA TraceSpunGrows ==
    ASSUME Tracing!TraceAssumption, TraceIInv, NEW s, s \in TraceMade, TraceMadeRight(Tracing!New, s),
           Tracing!New <= MaxSpans,
           span' = Append(span, s), current' \in {current, Tracing!New},
           external' \in {external, Append(external, Tracing!New)},
           /\ \A x \in DOMAIN registry' : x \in 1 .. Tracing!New /\ registry'[x] = span'[x].carried
           /\ DOMAIN registry \subseteq DOMAIN registry'
           /\ s.silent => Tracing!New \in DOMAIN registry'
           /\ s.asked => s.beside \in DOMAIN registry'
    PROVE  TraceSpun'
<1>1. /\ Len(span) \in Nat /\ Len(span') = Len(span) + 1 /\ span' \in Seq(TraceMade) /\ span'[Tracing!New] = s
      /\ \A x \in 1 .. Len(span) : span'[x] = span[x]
  BY TraceAppendIs DEF TraceIInv, TraceSpun
<1>2. \A x \in 1 .. Len(span') : x \in 1 .. Len(span) \/ x = Tracing!New
  BY <1>1 DEF Tracing!New
<1>3. \A x \in 1 .. Len(span') : TraceMadeRight(x, span'[x])
  BY <1>1, <1>2 DEF TraceIInv, TraceSpun
<1>4. TraceKnows'
  <2>1. \A x \in 1 .. Len(span') :
          /\ span'[x].silent => x \in DOMAIN registry'
          /\ span'[x].asked => span'[x].beside \in DOMAIN registry'
    BY <1>1, <1>2 DEF TraceIInv, TraceSpun, TraceKnows
  <2> QED BY <1>1, <2>1 DEF TraceKnows, Tracing!New
<1>5. external' \in Seq(Nat) /\ \A i \in 1 .. Len(external') : external'[i] \in 1 .. Len(span')
  <2>1. external \in Seq(Nat) /\ \A i \in 1 .. Len(external) : external[i] \in 1 .. Len(span)
    BY DEF TraceIInv, TraceSpun
  <2>2. CASE external' = external
    BY <1>1, <2>1, <2>2
  <2>3. CASE external' = Append(external, Tracing!New)
    <3>1. Tracing!New \in Nat /\ Tracing!New = Len(span')
      BY <1>1 DEF Tracing!New
    <3>2. Len(external') = Len(external) + 1 /\ external' \in Seq(Nat)
      BY <2>1, <2>3, <3>1
    <3>3. \A i \in 1 .. Len(external') : external'[i] = IF i = Len(external) + 1 THEN Tracing!New ELSE external[i]
      BY <2>1, <2>3, <3>1
    <3>4. \A i \in 1 .. Len(external') : i \in 1 .. Len(external) \/ i = Len(external) + 1
      BY <2>1, <3>2
    <3>5. \A i \in 1 .. Len(external) : external'[i] \in 1 .. Len(span')
      <4>1. \A n \in 1 .. Len(span) : n \in 1 .. Len(span')
        BY <1>1
      <4>2. \A i \in 1 .. Len(external) : i # Len(external) + 1
        BY <2>1
      <4> QED BY <2>1, <3>2, <3>3, <4>1, <4>2
    <3>6. external'[Len(external) + 1] \in 1 .. Len(span')
      BY <1>1, <2>1, <3>1, <3>2, <3>3
    <3> QED BY <3>2, <3>4, <3>5, <3>6
  <2> QED BY <2>2, <2>3
<1>6. current' \in 0 .. Len(span')
  BY <1>1 DEF TraceIInv, TraceSpun, Tracing!New
<1>7. Len(span') <= MaxSpans
  BY <1>1 DEF Tracing!New
<1> QED BY <1>1, <1>3, <1>4, <1>5, <1>6, <1>7 DEF TraceSpun

\* One more span that was not beside one that is not recorded leaves the others
\* as they turned.
LEMMA TraceTurnedGrows ==
    ASSUME TraceIInv, NEW s, s \in TraceMade, TraceMadeRight(Tracing!New, s), span' = Append(span, s),
           s.asked /\ span[s.beside].silent /\ s.sampled => s.under # span[s.beside].under
    PROVE  TraceTurned'
<1>1. /\ Len(span) \in Nat /\ Len(span') = Len(span) + 1 /\ span'[Tracing!New] = s
      /\ \A x \in 1 .. Len(span) : span'[x] = span[x]
  BY TraceAppendIs DEF TraceIInv, TraceSpun
<1>2. \A x \in 1 .. Len(span') : x \in 1 .. Len(span) \/ x = Tracing!New
  BY <1>1 DEF Tracing!New
<1>3. SUFFICES ASSUME NEW x \in 1 .. Len(span'), span'[x].asked, span'[span'[x].beside].silent, span'[x].sampled
               PROVE  span'[x].under # span'[span'[x].beside].under
  BY DEF TraceTurned
<1>4. CASE x \in 1 .. Len(span)
  <2>1. span[x].beside \in 1 .. Len(span)
    <3>1. span[x].asked /\ span[x].beside < x /\ span[x].beside # 0
      BY <1>1, <1>3, <1>4 DEF TraceIInv, TraceSpun, TraceMadeRight
    <3>2. span[x].beside \in Nat
      <4>1. span[x] \in TraceMade
        BY <1>4 DEF TraceIInv, TraceSpun
      <4> QED BY <4>1 DEF TraceMade
    <3> QED BY <1>1, <1>4, <3>1, <3>2
  <2> QED BY <1>1, <1>3, <1>4, <2>1 DEF TraceIInv, TraceTurned
<1>5. CASE x = Tracing!New
  <2>1. s.beside \in 1 .. Len(span)
    BY <1>1, <1>3, <1>5 DEF TraceMadeRight, TraceMade, Tracing!New
  <2> QED BY <1>1, <1>3, <1>5, <2>1
<1> QED BY <1>2, <1>4, <1>5

\* A frame begins with a new span beneath what it saved, or after a choice.
LEMMA TraceEnterSteps ==
    ASSUME Tracing!TraceAssumption, TraceIInv, NEW s, s \in TraceMade, NEW generates \in BOOLEAN,
           Tracing!Enter(generates),
           span' = Append(span, s), UNCHANGED <<waiting, astray>>, s.beside = current,
           s.sampled /\ ~s.asked => current = 0 \/ span[current].sampled
    PROVE  TraceApart' /\ TraceNested' /\ TraceQuiet'
<1> DEFINE f == [span |-> Tracing!New, saved |-> current, generates |-> generates]
<1>1. /\ Len(span) \in Nat /\ Len(span') = Len(span) + 1 /\ span'[Tracing!New] = s
      /\ \A x \in 1 .. Len(span) : span'[x] = span[x]
  BY TraceAppendIs DEF TraceIInv, TraceSpun
<1>2. current \in 0 .. Len(span) /\ Tracing!New = Len(span) + 1 /\ f \in TraceFrames
  BY <1>1 DEF TraceIInv, TraceSpun, Tracing!New, TraceFrames
<1>3. frames \in Seq(TraceFrames) /\ frames' = Append(frames, f) /\ current' = Tracing!New
        /\ waiting' = waiting /\ astray' = astray
  BY DEF Tracing!Enter, TraceIInv, TraceApart
<1>4. f.span = Tracing!New /\ f.saved = current
  OBVIOUS
<1> HIDE DEF f
<1>5. /\ Len(frames') = Len(frames) + 1 /\ Len(frames) \in Nat /\ frames' \in Seq(TraceFrames)
      /\ \A i \in 1 .. Len(frames') : frames'[i] = IF i \in 1 .. Len(frames) THEN frames[i] ELSE f
  BY <1>2, <1>3
<1>6. Tracing!Live' = Tracing!Live \cup {f}
  <2>1. Tracing!Range(frames') = Tracing!Range(frames) \cup {f}
    <3>1. Tracing!Range(frames') = {frames'[i] : i \in 1 .. Len(frames')}
      BY <1>5 DEF Tracing!Range
    <3>2. Tracing!Range(frames) = {frames[i] : i \in 1 .. Len(frames)}
      BY <1>3 DEF Tracing!Range
    <3>3. \A x : x \in Tracing!Range(frames') <=> x \in Tracing!Range(frames) \/ x = f
      BY <1>5, <3>1, <3>2
    <3> QED BY <3>3
  <2> QED BY <1>3, <2>1 DEF Tracing!Live
<1>7. \A g \in Tracing!Live : g.span \in 1 .. Len(span) /\ g.saved \in 0 .. Len(span)
  BY DEF TraceIInv, TraceApart
<1>8. \A i \in 1 .. Len(frames) : frames[i] \in Tracing!Live
  BY <1>3 DEF Tracing!Live, Tracing!Range
<1>9. TraceApart'
  <2>1. \A i, j \in 1 .. Len(frames') : frames'[i].span = frames'[j].span => i = j
    <3>1. \A i, j \in 1 .. Len(frames) : frames[i].span = frames[j].span => i = j
      BY DEF TraceIInv, TraceApart
    <3>2. \A i \in 1 .. Len(frames) : frames[i].span # Tracing!New
      BY <1>2, <1>7, <1>8
    <3> QED BY <1>4, <1>5, <3>1, <3>2
  <2>2. \A i \in 1 .. Len(frames'), w \in waiting' : frames'[i].span # w.span
    <3>1. \A i \in 1 .. Len(frames), w \in waiting : frames[i].span # w.span
      BY DEF TraceIInv, TraceApart
    <3>2. \A w \in waiting : w.span # Tracing!New
      BY <1>2, <1>7 DEF Tracing!Live
    <3> QED BY <1>3, <1>4, <1>5, <3>1, <3>2
  <2>3. \A g \in Tracing!Live' : g.span \in 1 .. Len(span') /\ g.saved \in 0 .. Len(span')
    BY <1>1, <1>2, <1>4, <1>6, <1>7
  <2> QED BY <1>3, <1>5, <2>1, <2>2, <2>3 DEF TraceIInv, TraceApart
<1>10. TraceNested'
  <2>1. SUFFICES ASSUME ~astray
                 PROVE  /\ \A h \in Tracing!Live' :
                              /\ h.saved < h.span
                              /\ h.saved # 0 => \E g \in Tracing!Live' : g.span = h.saved
                              /\ \A g \in Tracing!Live' : g.span < h.span => g.span <= h.saved
                        /\ current' # 0 => \E g \in Tracing!Live' : g.span = current'
                        /\ \A g \in Tracing!Live' : g.span <= current'
    BY <1>3 DEF TraceNested
  <2>2. /\ \A h \in Tracing!Live :
              /\ h.saved < h.span
              /\ h.saved # 0 => \E g \in Tracing!Live : g.span = h.saved
              /\ \A g \in Tracing!Live : g.span < h.span => g.span <= h.saved
        /\ current # 0 => \E g \in Tracing!Live : g.span = current
        /\ \A g \in Tracing!Live : g.span <= current
    BY <2>1 DEF TraceIInv, TraceNested
  <2>3. ASSUME NEW h \in Tracing!Live'
        PROVE  /\ h.saved < h.span
               /\ h.saved # 0 => \E g \in Tracing!Live' : g.span = h.saved
               /\ \A g \in Tracing!Live' : g.span < h.span => g.span <= h.saved
    <3>1. CASE h \in Tracing!Live
      BY <1>2, <1>4, <1>6, <1>7, <2>2, <3>1
    <3>2. CASE h = f
      BY <1>2, <1>4, <1>6, <1>7, <2>2, <3>2
    <3> QED BY <1>6, <2>3, <3>1, <3>2
  <2>4. current' # 0 => \E g \in Tracing!Live' : g.span = current'
    BY <1>3, <1>4, <1>6
  <2>5. \A g \in Tracing!Live' : g.span <= current'
    BY <1>2, <1>3, <1>4, <1>6, <1>7
  <2> QED BY <2>3, <2>4, <2>5
<1>11. TraceQuiet'
  <2> SUFFICES ~astray' => \A a, b \in Tracing!Live' :
                  span'[a.span].silent /\ a.span < b.span
                     => ~span'[b.span].sampled \/ \E y \in a.span + 1 .. b.span : span'[y].asked
    BY DEF TraceQuiet
  <2> SUFFICES ASSUME ~astray', NEW a \in Tracing!Live', NEW b \in Tracing!Live'
               PROVE  span'[a.span].silent /\ a.span < b.span
                        => ~span'[b.span].sampled \/ \E y \in a.span + 1 .. b.span : span'[y].asked
    OBVIOUS
  <2>0. ~astray
    BY <1>3
  <2>1. SUFFICES ASSUME ~astray, span'[a.span].silent, a.span < b.span, span'[b.span].sampled
                 PROVE  \E y \in a.span + 1 .. b.span : span'[y].asked
    BY <2>0
  <2>2. a \in Tracing!Live
    BY <1>2, <1>4, <1>6, <1>7, <2>1
  <2>3. span[a.span].silent /\ a.span \in 1 .. Len(span)
    BY <1>1, <1>7, <2>1, <2>2
  <2>4. CASE b \in Tracing!Live
    <3>1. b.span \in 1 .. Len(span) /\ span[b.span].sampled
      BY <1>1, <1>7, <2>1, <2>4
    <3>2. PICK y \in a.span + 1 .. b.span : span[y].asked
      BY <2>1, <2>2, <2>3, <2>4, <3>1 DEF TraceIInv, TraceQuiet
    <3>3. y \in 1 .. Len(span)
      BY <2>3, <3>1, <3>2
    <3> QED BY <1>1, <3>2, <3>3
  <2>5. CASE b = f /\ s.asked
    BY <1>1, <1>2, <1>4, <2>3, <2>5
  <2>6. CASE b = f /\ ~s.asked
    <3>1. a.span <= current
      BY <2>1, <2>2 DEF TraceIInv, TraceNested
    <3>2. current \in 1 .. Len(span)
      BY <1>1, <1>2, <2>3, <3>1
    <3>3. span[current].sampled
      <4>1. s.sampled /\ ~s.asked
        BY <1>1, <1>4, <2>1, <2>6
      <4>2. current # 0
        BY <1>1, <3>2
      <4> QED BY <4>1, <4>2
    <3>4. PICK c \in Tracing!Live : c.span = current
      BY <2>1, <3>2 DEF TraceIInv, TraceNested
    <3>5. a.span # current
      BY <2>3, <3>3, <1>1 DEF TraceIInv, TraceSpun, TraceMadeRight
    <3>6. PICK y \in a.span + 1 .. current : span[y].asked
      BY <2>1, <2>2, <2>3, <3>1, <3>2, <3>3, <3>4, <3>5 DEF TraceIInv, TraceQuiet
    <3>7. y \in 1 .. Len(span) /\ y \in a.span + 1 .. b.span
      BY <1>1, <1>2, <1>4, <2>3, <2>6, <3>2, <3>6
    <3> QED BY <1>1, <3>6, <3>7
  <2> QED BY <1>6, <2>4, <2>5, <2>6
<1> QED BY <1>9, <1>10, <1>11

\* The parent is one of the two that were to choose from.
LEMMA TraceParentIs == \A c, e : Tracing!Parent(c, e) \in {c, e}
  BY DEF Tracing!Parent, Tracing!BottomMost

\* With a choice the registry knows these two and all the other framework's.
LEMMA TraceRegisteredIs ==
    ASSUME TraceIInv, current # 0, NEW e \in Tracing!Range(external)
    PROVE  LET R == Tracing!Registered(current, e) IN
           /\ e \in 1 .. Len(span) /\ current \in 1 .. Len(span)
           /\ DOMAIN R = DOMAIN registry \cup {current, e} \cup Tracing!Range(external)
           /\ \A x \in DOMAIN R : x \in 1 .. Len(span) /\ R[x] = span[x].carried
           /\ TraceOlder(Len(span), R)
<1> DEFINE R == Tracing!Registered(current, e)
<1>1. \A x \in Tracing!Range(external) : x \in 1 .. Len(span)
  BY DEF TraceIInv, TraceSpun, Tracing!Range
<1>2. Len(span) \in Nat /\ current \in 1 .. Len(span)
  BY DEF TraceIInv, TraceSpun
<1>3. \A x \in DOMAIN registry : x \in 1 .. Len(span) /\ registry[x] = span[x].carried
  BY DEF TraceIInv, TraceSpun, TraceKnows
<1>4. DOMAIN R = DOMAIN registry \cup {current, e} \cup Tracing!Range(external)
  BY DEF Tracing!Registered, Tracing!Seen
<1>5. \A x \in DOMAIN R : x \in 1 .. Len(span) /\ R[x] = span[x].carried
  <2>1. \A x \in DOMAIN R : R[x] = IF x \in Tracing!Seen(current, e) THEN span[x].carried ELSE registry[x]
    BY DEF Tracing!Registered
  <2>2. \A x \in DOMAIN R : x \notin Tracing!Seen(current, e) => x \in DOMAIN registry
    BY DEF Tracing!Registered
  <2> HIDE DEF R
  <2> QED BY <1>1, <1>2, <1>3, <1>4, <2>1, <2>2
<1> HIDE DEF R
<1>6. \A x \in 1 .. Len(span) : span[x].carried = Tracing!Untold \/ span[x].carried \in 0 .. x - 1
  <2>1. SUFFICES ASSUME NEW x \in 1 .. Len(span)
        PROVE span[x].carried = Tracing!Untold \/ span[x].carried \in 0 .. x - 1
    OBVIOUS
  <2>2. span[x] \in TraceMade /\ TraceMadeRight(x, span[x])
    BY DEF TraceIInv, TraceSpun
  <2> QED BY <1>2, <2>2 DEF TraceMade, TraceMadeRight
<1>7. TraceOlder(Len(span), R)
  BY <1>5, <1>6 DEF TraceOlder
<1> QED BY <1>1, <1>2, <1>4, <1>5, <1>7 DEF R

\* Where the upper of two is on the registered line of the lower, that is the parent.
LEMMA TraceLowerIsParent ==
    ASSUME TraceIInv, current # 0, NEW e \in Tracing!Range(external), NEW low \in {current, e},
           NEW high \in {current, e},
           low # high, high \in Tracing!Line(Tracing!Registered(current, e), low)
    PROVE  Tracing!Parent(current, e) = low
<1> DEFINE R == Tracing!Registered(current, e)
<1>0. Len(span) \in Nat
  BY DEF TraceIInv, TraceSpun
<1>1. /\ e \in 1 .. Len(span) /\ current \in 1 .. Len(span) /\ Len(span) \in Nat
      /\ TraceOlder(Len(span), R)
  BY <1>0, TraceRegisteredIs
<1>2. \A s \in 0 .. Len(span) : \A x \in Tracing!Line(R, s) : x \in 0 .. s
  BY <1>1, TraceLineIsOlder, TraceLineIsLineOf
<1> HIDE DEF R
<1>3. Tracing!Parent(current, e) = Tracing!BottomMost(R, current, e)
  BY <1>1 DEF Tracing!Parent, R
<1>4. CASE low = current
  <2>1. high = e
    BY <1>4
  <2> QED BY <1>3, <1>4, <2>1 DEF Tracing!BottomMost, Tracing!IsAncestor, R
<1>5. CASE low = e
  <2>1. high = current /\ current \in Tracing!Line(R, e)
    BY <1>5 DEF R
  <2>2. current \in 0 .. e /\ current # e
    BY <1>1, <1>2, <1>5, <2>1
  <2>3. e \notin Tracing!Line(R, current)
    <3>1. ~(e \in 0 .. current)
      BY <1>1, <2>2
    <3> QED BY <1>1, <1>2, <3>1
  <2> QED BY <1>3, <1>5, <2>1, <2>3 DEF Tracing!BottomMost, Tracing!IsAncestor
<1> QED BY <1>4, <1>5

\* All between two spans tell of their parents, and the upper ones were seen.
TraceToldBetween(low, high) == \A x \in {low} \cup Tracing!Between(low, high) : span[x].carried = span[x].under
TraceSeenBetween(low, high) ==
    \A x \in ({low} \cup Tracing!Between(low, high)) \ {low} :
       \/ x \in last.theirs \/ span[x].silent
       \/ \E y \in {low} \cup Tracing!Between(low, high) : span[y].beside = x /\ span[y].asked

TraceChoosesLower ==
    last.offered # 0 /\ span[Len(span)].asked =>
       \A low, high \in {span[Len(span)].beside, last.offered} :
          Tracing!Above(low, high) /\ TraceToldBetween(low, high)
                  /\ TraceSeenBetween(low, high) => span[Len(span)].under = low

LEMMA TraceDeeperIs == TraceChoosesLower <=> Tracing!DeeperIsParent
  BY DEF TraceChoosesLower, Tracing!DeeperIsParent, TraceToldBetween, TraceSeenBetween

\* The lower of two on one line is the parent if the registry knows the line.
LEMMA TraceDeeperStep ==
    ASSUME Tracing!TraceAssumption, TraceIInv, NEW e \in Tracing!Offered, NEW s, s \in TraceMade,
           TraceMadeRight(Tracing!New, s), Tracing!New <= MaxSpans,
           span' = Append(span, s), last' = [offered |-> e, theirs |-> Tracing!Range(external)],
           s.under = Tracing!Parent(current, e), s.beside = current, s.asked <=> current # 0 /\ e # 0
    PROVE  Tracing!DeeperIsParent'
<1> DEFINE n == Len(span)
           R == Tracing!Registered(current, e)
           T == Tracing!Truth'
<1>1. /\ n \in Nat /\ Len(span') = n + 1 /\ span'[Tracing!New] = s /\ Tracing!New = n + 1
         /\ span' \in Seq(TraceMade)
      /\ \A x \in 1 .. n : span'[x] = span[x]
  BY TraceAppendIs DEF TraceIInv, TraceSpun, Tracing!New
<1>2. last'.offered = e /\ last'.theirs = Tracing!Range(external) /\ span'[Len(span')] = s
  BY <1>1
<1>3. ASSUME e # 0, s.asked, NEW low \in {current, e}, NEW high \in {current, e},
             low # high, high \in Tracing!Line(Tracing!Truth, low)',
             \A x \in {low} \cup Tracing!Between(low, high)' : span'[x].carried = span'[x].under,
             \A x \in ({low} \cup Tracing!Between(low, high)') \ {low} :
                \/ x \in Tracing!Range(external) \/ span'[x].silent
                \/ \E y \in {low} \cup Tracing!Between(low, high)' : span'[y].beside = x /\ span'[y].asked
      PROVE  Tracing!Parent(current, e) = low
  <2>4. current # 0 /\ e \in Tracing!Range(external)
    <3>1. e = Tracing!Last(external) /\ external # <<>>
      BY <1>3 DEF Tracing!Offered
    <3> QED BY <1>3, <3>1 DEF TraceIInv, TraceSpun, Tracing!Last, Tracing!Range
  <2>5. /\ e \in 1 .. n /\ current \in 1 .. n
        /\ DOMAIN R = DOMAIN registry \cup {current, e} \cup Tracing!Range(external)
        /\ \A x \in DOMAIN R : x \in 1 .. n /\ R[x] = span[x].carried
        /\ TraceOlder(n, R)
    BY <2>4, TraceRegisteredIs
  <2>6. DOMAIN T = 1 .. n + 1 /\ \A x \in 1 .. n + 1 : T[x] = span'[x].under
    BY <1>1 DEF Tracing!Truth
  <2>7. \A x \in 1 .. n + 1 : span'[x].under \in 0 .. x - 1 /\ span'[x].under # Tracing!Untold
    <3>1. SUFFICES ASSUME NEW x \in 1 .. n + 1
          PROVE span'[x].under \in 0 .. x - 1 /\ span'[x].under # Tracing!Untold
      OBVIOUS
    <3>2. span'[x] \in TraceMade
      BY <1>1
    <3>3. TraceMadeRight(x, span'[x])
      <4>1. x \in 1 .. n \/ x = Tracing!New
        BY <1>1
      <4> QED BY <1>1, <4>1 DEF TraceIInv, TraceSpun
    <3>4. x <= MaxSpans /\ MaxSpans \in Nat
      BY <1>1 DEF Tracing!TraceAssumption
    <3> QED BY <1>1, <3>2, <3>3, <3>4 DEF TraceMade, TraceMadeRight, Tracing!Untold
  <2>8. \A x : Tracing!Line(Tracing!Truth, x)' = TraceLineOf(n + 1, T, x)
    BY <1>1 DEF Tracing!Line, TraceLineOf, TraceTheLines, TraceIsLines
  <2> HIDE DEF R, T
  <2>9. TraceOlder(n + 1, T) /\ TraceOlder(n, R)
    <3>1. \A x \in DOMAIN T : x \in 1 .. n + 1 /\ T[x] \in 0 .. x - 1
      BY <2>6, <2>7
    <3> QED BY <2>5, <3>1 DEF TraceOlder
  <2>10. \A x \in 0 .. n + 1 : 0 \in TraceLineOf(n + 1, T, x)
    <3>1. \A x \in 1 .. n + 1 : T[x] # Tracing!Untold
      BY <2>6, <2>7
    <3> QED BY <1>1, <2>6, <2>9, <3>1, TraceLinesEnd
  <2>11. high \in TraceLineOf(n + 1, T, low) /\ low \in 1 .. n /\ high \in 1 .. n
    BY <1>3, <2>5, <2>8
  <2>12. Tracing!Between(low, high)' = TraceLineOf(n + 1, T, low) \ (TraceLineOf(n + 1, T, high) \cup {low})
    BY <2>8 DEF Tracing!Between
  <2>13. \A x \in {low} \cup Tracing!Between(low, high)' : x \in 1 .. n
    <3>1. \A x \in TraceLineOf(n + 1, T, low) : x \in 0 .. low
      <4>1. n + 1 \in Nat /\ low \in 0 .. n + 1
        BY <1>1, <2>11
      <4> QED BY <2>9, <4>1, TraceLineIsOlder
    <3> QED BY <1>1, <2>10, <2>11, <2>12, <3>1
  <2>14. \A x \in {low} \cup Tracing!Between(low, high)' : x \in DOMAIN R
    <3>1. SUFFICES ASSUME NEW x \in Tracing!Between(low, high)' PROVE x \in DOMAIN R
      BY <1>3, <2>5
    <3>2. x # low
      BY <2>12
    <3>3. CASE x \in Tracing!Range(external)
      BY <2>5, <3>3
    <3>4. CASE span'[x].silent
      BY <1>1, <2>5, <2>13, <3>4 DEF TraceIInv, TraceSpun, TraceKnows
    <3>5. ASSUME NEW y \in {low} \cup Tracing!Between(low, high)', span'[y].beside = x, span'[y].asked
          PROVE x \in DOMAIN R
      BY <1>1, <2>5, <2>13, <3>5 DEF TraceIInv, TraceSpun, TraceKnows
    <3> QED BY <1>3, <3>2, <3>3, <3>4, <3>5
  <2>15. \A x \in {low} \cup Tracing!Between(low, high)' : R[x] = T[x]
    BY <1>1, <1>3, <2>5, <2>6, <2>13, <2>14
  <2>16. \A x \in TraceLineOf(n + 1, T, low) \ TraceLineOf(n + 1, T, high) :
            x \in DOMAIN T /\ T[x] # Tracing!Untold => x \in DOMAIN R /\ R[x] = T[x]
    BY <2>12, <2>14, <2>15
  <2>17. high \in TraceLineOf(n, R, low)
    <3>1. n + 1 \in Nat /\ n <= n + 1 /\ low \in 0 .. n /\ high \in 0 .. n
      BY <1>1, <2>11
    <3> QED BY <1>1, <2>9, <2>11, <2>16, <3>1, TraceLinesAgree
  <2>18. high \in Tracing!Line(R, low)
    BY <2>17, TraceLineIsLineOf
  <2> QED BY <1>3, <2>4, <2>18, TraceLowerIsParent DEF R
<1> QED
  <2>1. ASSUME last'.offered # 0, span'[Len(span')].asked,
               NEW low \in {span'[Len(span')].beside, last'.offered},
               NEW high \in {span'[Len(span')].beside, last'.offered},
               (Tracing!Above(low, high) /\ TraceToldBetween(low, high) /\ TraceSeenBetween(low, high))'
        PROVE  span'[Len(span')].under = low
    <3>1. e # 0 /\ s.asked /\ low \in {current, e} /\ high \in {current, e}
      BY <1>2, <2>1
    <3>2. low # high /\ high \in Tracing!Line(Tracing!Truth, low)'
      BY <2>1 DEF Tracing!Above, Tracing!IsAncestor
    <3>3. \A x \in {low} \cup Tracing!Between(low, high)' : span'[x].carried = span'[x].under
      BY <2>1 DEF TraceToldBetween
    <3>4. \A x \in ({low} \cup Tracing!Between(low, high)') \ {low} :
             \/ x \in Tracing!Range(external) \/ span'[x].silent
             \/ \E y \in {low} \cup Tracing!Between(low, high)' : span'[y].beside = x /\ span'[y].asked
      BY <1>2, <2>1 DEF TraceSeenBetween
    <3> QED BY <1>2, <1>3, <3>1, <3>2, <3>3, <3>4
  <2>2. TraceChoosesLower'
    BY <2>1 DEF TraceChoosesLower
  <2>3. TraceChoosesLower' <=> Tracing!DeeperIsParent'
    BY TraceDeeperIs, PTL
  <2> QED BY <2>2, <2>3

\* The sampler follows the parent.
LEMMA TraceRecordedIs ==
    ASSUME Tracing!TraceAssumption, TraceIInv, NEW p \in 0 .. Len(span), NEW asks \in BOOLEAN, asks => current # 0
    PROVE  /\ Tracing!Recorded(p, asks) \in TraceMade
              /\ TraceMadeRight(Tracing!New, Tracing!Recorded(p, asks))
           /\ Tracing!Silent(p, asks) \in TraceMade /\ TraceMadeRight(Tracing!New, Tracing!Silent(p, asks))
           /\ Tracing!Recorded(p, asks).sampled => p = 0 \/ span[p].sampled
<1>1. Len(span) \in Nat /\ Tracing!New = Len(span) + 1 /\ current \in 0 .. Len(span) /\ p \in Nat
                           /\ MaxSpans \in Nat
  BY DEF TraceIInv, TraceSpun, Tracing!New, Tracing!TraceAssumption
<1>2. Tracing!Sampled(p) \in BOOLEAN /\ (Tracing!Sampled(p) => p = 0 \/ span[p].sampled)
  <2>1. p # 0 => span[p] \in TraceMade
    BY <1>1 DEF TraceIInv, TraceSpun
  <2> QED BY <2>1 DEF Tracing!Sampled, TraceMade
<1>4. p < Tracing!New /\ current < Tracing!New
  BY <1>1
<1>5. Tracing!Recorded(p, asks) \in TraceMade /\ TraceMadeRight(Tracing!New, Tracing!Recorded(p, asks))
  BY <1>1, <1>2, <1>4 DEF Tracing!Recorded, TraceMade, TraceMadeRight, Tracing!Untold
<1>6. Tracing!Silent(p, asks) \in TraceMade /\ TraceMadeRight(Tracing!New, Tracing!Silent(p, asks))
  BY <1>1, <1>4 DEF Tracing!Silent, TraceMade, TraceMadeRight
<1> QED BY <1>2, <1>5, <1>6 DEF Tracing!Recorded

LEMMA TraceCallStep ==
    ASSUME Tracing!TraceAssumption, TraceIInv, Tracing!Call
    PROVE  TraceIInv'
<1>1. PICK e \in Tracing!Offered, recording \in BOOLEAN, generates \in BOOLEAN :
         LET p == Tracing!Parent(current, e)
             asks == current # 0 /\ e # 0
         IN
               /\ span' = Append(span, IF recording THEN Tracing!Recorded(p, asks) ELSE Tracing!Silent(p, asks))
               /\ registry' = IF recording THEN Tracing!AfterChoice(current, e)
                              ELSE [s \in DOMAIN Tracing!AfterChoice(current, e) \cup {Tracing!New} |->
                                       IF s = Tracing!New THEN p ELSE Tracing!AfterChoice(current, e)[s]]
               /\ last' = [offered |-> e, theirs |-> Tracing!Range(external)]
               /\ Tracing!Enter(generates)
  BY DEF Tracing!Call
<1> DEFINE p == Tracing!Parent(current, e)
           asks == current # 0 /\ e # 0
           s == IF recording THEN Tracing!Recorded(p, asks) ELSE Tracing!Silent(p, asks)
           A == Tracing!AfterChoice(current, e)
<1>2. /\ span' = Append(span, s)
      /\ registry' = IF recording THEN A
                     ELSE [x \in DOMAIN A \cup {Tracing!New} |-> IF x = Tracing!New THEN p ELSE A[x]]
      /\ last' = [offered |-> e, theirs |-> Tracing!Range(external)] /\ Tracing!Enter(generates)
      /\ UNCHANGED <<external, waiting, astray>> /\ Tracing!New <= MaxSpans
  BY <1>1 DEF Tracing!Call, Tracing!Room
<1>3. /\ Len(span) \in Nat /\ Tracing!New = Len(span) + 1 /\ current \in 0 .. Len(span)
      /\ TraceKnows
  BY DEF TraceIInv, TraceSpun, Tracing!New
<1>4. e # 0 => e \in Tracing!Range(external)
  <2>1. ASSUME e # 0 PROVE e = Tracing!Last(external) /\ external # <<>>
    BY <2>1 DEF Tracing!Offered
  <2> QED BY <2>1 DEF TraceIInv, TraceSpun, Tracing!Last, Tracing!Range
<1>5. e \in 0 .. Len(span) /\ p \in {current, e} /\ p \in 0 .. Len(span)
  <2>1. \A x \in Tracing!Range(external) : x \in 1 .. Len(span)
    BY DEF TraceIInv, TraceSpun, Tracing!Range
  <2>2. e \in 0 .. Len(span)
    BY <1>3, <1>4, <2>1
  <2> QED BY <1>3, <2>2, TraceParentIs
<1>6. /\ s \in TraceMade /\ TraceMadeRight(Tracing!New, s) /\ s.under = p /\ s.beside = current
         /\ (s.asked <=> asks)
      /\ s.silent = ~recording /\ (s.silent => s.carried = p)
      /\ s.sampled => recording /\ (p = 0 \/ span[p].sampled)
  <2>1. asks \in BOOLEAN /\ (asks => current # 0)
    OBVIOUS
  <2> HIDE DEF p, asks
  <2>2. /\ Tracing!Recorded(p, asks) \in TraceMade /\ TraceMadeRight(Tracing!New, Tracing!Recorded(p, asks))
        /\ Tracing!Silent(p, asks) \in TraceMade /\ TraceMadeRight(Tracing!New, Tracing!Silent(p, asks))
        /\ Tracing!Recorded(p, asks).sampled => p = 0 \/ span[p].sampled
    BY <1>5, <2>1, TraceRecordedIs
  <2>3. CASE recording
    <3>1. s = Tracing!Recorded(p, asks)
      BY <2>3
    <3>2. s.under = p /\ s.beside = current /\ s.asked = asks /\ s.silent = FALSE
      BY <3>1 DEF Tracing!Recorded
    <3> HIDE DEF s
    <3> QED BY <2>1, <2>2, <2>3, <3>1, <3>2
  <2>4. CASE ~recording
    <3>1. s = Tracing!Silent(p, asks)
      BY <2>4
    <3>2. s.under = p /\ s.beside = current /\ s.asked = asks /\ s.silent = TRUE /\ s.sampled = FALSE
                         /\ s.carried = p
      BY <3>1 DEF Tracing!Silent
    <3> HIDE DEF s
    <3> QED BY <2>1, <2>2, <2>4, <3>1, <3>2
  <2> QED BY <2>3, <2>4
<1>7. /\ \A x \in DOMAIN A : x \in 1 .. Len(span) /\ A[x] = span[x].carried
      /\ DOMAIN registry \subseteq DOMAIN A
      /\ asks => current \in DOMAIN A
  <2>1. CASE asks
    <3>1. A = Tracing!Registered(current, e)
      BY <2>1 DEF Tracing!AfterChoice
    <3> QED BY <1>4, <2>1, <3>1, TraceRegisteredIs
  <2>2. CASE ~asks
    <3>1. A = registry
      BY <2>2 DEF Tracing!AfterChoice
    <3> QED BY <1>3, <2>2, <3>1 DEF TraceKnows
  <2> QED BY <2>1, <2>2
<1>8. asks /\ span[current].silent /\ s.sampled => p # span[current].under
  <2>1. SUFFICES ASSUME asks, span[current].silent, s.sampled, p = span[current].under PROVE FALSE
    OBVIOUS
  <2> DEFINE R == Tracing!Registered(current, e)
  <2>2. /\ e \in Tracing!Range(external) /\ current # 0 /\ e \in 1 .. Len(span) /\ current \in 1 .. Len(span)
        /\ DOMAIN R = DOMAIN registry \cup {current, e} \cup Tracing!Range(external)
        /\ \A x \in DOMAIN R : x \in 1 .. Len(span) /\ R[x] = span[x].carried
        /\ TraceOlder(Len(span), R)
    BY <1>4, <2>1, TraceRegisteredIs
  <2>3. span[current].under < current /\ span[current].carried = span[current].under /\ MaxSpans \in Nat
          /\ Len(span) <= MaxSpans
    BY <2>1, <2>2 DEF TraceIInv, TraceSpun, TraceMadeRight, Tracing!TraceAssumption
  <2>4. p = e /\ e # current
    BY <1>5, <2>1, <2>2, <2>3
  <2> HIDE DEF R, p, s
  <2>5. R[current] = e /\ current \in DOMAIN R /\ e # Tracing!Untold
    BY <1>3, <2>1, <2>2, <2>3, <2>4 DEF Tracing!Untold
  <2>6. TraceLineOf(Len(span), R, current) = {current} \cup TraceLineOf(Len(span), R, e)
    BY <1>3, <2>2, <2>5, TraceLineIs
  <2>7. e \in TraceLineOf(Len(span), R, e)
    BY <1>3, <2>2, TraceLineIsOlder
  <2>8. e \in Tracing!Line(R, current)
    BY <2>6, <2>7, TraceLineIsLineOf
  <2>9. Tracing!Parent(current, e) = current
    BY <2>2, <2>4, <2>8, TraceLowerIsParent DEF R
  <2> QED BY <2>4, <2>9 DEF p
<1>9. Tracing!DeeperIsParent'
  <2> HIDE DEF s
  <2> QED BY <1>2, <1>6, TraceDeeperStep
<1>10. TraceTurned'
  <2> HIDE DEF s, p
  <2> QED BY <1>2, <1>6, <1>8, TraceTurnedGrows
<1>11. TraceSpun'
  <2> HIDE DEF s, p, A
  <2>1. current' \in {current, Tracing!New} /\ external' = external
    BY <1>2 DEF Tracing!Enter
  <2>2. \A x \in 1 .. Len(span) : span'[x] = span[x]
    BY <1>2, <1>6, TraceAppendIs DEF TraceIInv, TraceSpun
  <2>3. span'[Tracing!New] = s
    BY <1>2, <1>6, TraceAppendIs DEF TraceIInv, TraceSpun
  <2>4. \A x \in DOMAIN registry' : x \in 1 .. Tracing!New /\ registry'[x] = span'[x].carried
    <3>1. CASE recording
      BY <1>2, <1>3, <1>7, <2>2, <3>1
    <3>2. CASE ~recording
      <4>1. s.carried = p
        BY <1>6, <3>2
      <4>2. registry' = [x \in DOMAIN A \cup {Tracing!New} |-> IF x = Tracing!New THEN p ELSE A[x]]
        BY <1>2, <3>2
      <4>3. \A x \in DOMAIN registry' : x = Tracing!New \/ (x \in DOMAIN A /\ x # Tracing!New)
        BY <4>2
      <4>4. registry'[Tracing!New] = span'[Tracing!New].carried /\ Tracing!New \in 1 .. Tracing!New
        BY <1>3, <2>3, <4>1, <4>2
      <4>5. \A x \in DOMAIN A : x # Tracing!New => registry'[x] = A[x]
        BY <4>2
      <4>6. \A x \in DOMAIN A : x \in 1 .. Tracing!New
        BY <1>3, <1>7
      <4> QED BY <1>7, <2>2, <4>3, <4>4, <4>5, <4>6
    <3> QED BY <3>1, <3>2
  <2>5. DOMAIN A \subseteq DOMAIN registry' /\ (~recording => Tracing!New \in DOMAIN registry')
    BY <1>2
  <2>6. s.silent => Tracing!New \in DOMAIN registry'
    BY <1>6, <2>5
  <2>7. s.asked => s.beside \in DOMAIN registry'
    BY <1>6, <1>7, <2>5
  <2>8. DOMAIN registry \subseteq DOMAIN registry'
    BY <1>7, <2>5
  <2> QED BY <1>2, <1>6, <2>1, <2>4, <2>6, <2>7, <2>8, TraceSpunGrows
<1>12. TraceApart' /\ TraceNested' /\ TraceQuiet'
  <2>1. s.sampled /\ ~s.asked => current = 0 \/ span[current].sampled
    <3>1. ASSUME s.sampled, ~s.asked, current # 0 PROVE span[current].sampled
      <4>1. e = 0 /\ ~asks
        BY <1>6, <3>1
      <4>2. p = current
        BY <3>1, <4>1 DEF Tracing!Parent
      <4> HIDE DEF p, s
      <4> QED BY <1>6, <3>1, <4>2
    <3> QED BY <3>1
  <2> HIDE DEF s
  <2> QED BY <1>2, <1>6, <2>1, TraceEnterSteps
<1> QED BY <1>9, <1>10, <1>11, <1>12 DEF TraceIInv

LEMMA TracePlainStep ==
    ASSUME Tracing!TraceAssumption, TraceIInv, Tracing!Plain
    PROVE  TraceIInv'
<1> DEFINE s == Tracing!Recorded(current, FALSE)
<1>1. /\ span' = Append(span, s) /\ last' = Tracing!NoChoice /\ Tracing!Enter(FALSE) /\ Tracing!New <= MaxSpans
      /\ UNCHANGED <<registry, external, waiting, astray>>
  BY DEF Tracing!Plain, Tracing!Room
<1>2. s \in TraceMade /\ TraceMadeRight(Tracing!New, s) /\ (s.sampled => current = 0 \/ span[current].sampled)
  BY TraceRecordedIs DEF TraceIInv, TraceSpun
<1>3. s.beside = current /\ s.asked = FALSE /\ s.silent = FALSE
  BY DEF Tracing!Recorded
<1> HIDE DEF s
<1>4. /\ Len(span) \in Nat /\ Tracing!New = Len(span) + 1 /\ \A x \in 1 .. Len(span) : span'[x] = span[x]
  BY <1>1, <1>2, TraceAppendIs DEF TraceIInv, TraceSpun, Tracing!New
<1>5. \A x \in DOMAIN registry' : x \in 1 .. Tracing!New /\ registry'[x] = span'[x].carried
  BY <1>1, <1>4 DEF TraceIInv, TraceSpun, TraceKnows
<1>6. TraceSpun'
  <2>1. current' \in {current, Tracing!New} /\ external' = external
    BY <1>1 DEF Tracing!Enter
  <2> QED BY <1>1, <1>2, <1>3, <1>5, <2>1, TraceSpunGrows
<1>7. TraceTurned'
  BY <1>1, <1>2, <1>3, TraceTurnedGrows
<1>8. TraceApart' /\ TraceNested' /\ TraceQuiet'
  BY <1>1, <1>2, <1>3, TraceEnterSteps
<1>9. Tracing!DeeperIsParent'
  BY <1>1 DEF Tracing!DeeperIsParent, Tracing!NoChoice
<1> QED BY <1>6, <1>7, <1>8, <1>9 DEF TraceIInv

\* The other framework's spans are nobody's frames.
LEMMA TraceBeginStep ==
    ASSUME Tracing!TraceAssumption, TraceIInv, Tracing!Begin
    PROVE  TraceIInv'
<1>1. PICK p \in {current} \cup IF external = <<>> THEN {} ELSE {Tracing!Last(external)} :
         span' = Append(span, Tracing!Recorded(p, FALSE))
  BY DEF Tracing!Begin
<1> DEFINE s == Tracing!Recorded(p, FALSE)
<1>2. /\ span' = Append(span, s) /\ external' = Append(external, Tracing!New) /\ last' = Tracing!NoChoice
         /\ Tracing!New <= MaxSpans
      /\ UNCHANGED <<registry, current, frames, waiting, astray>>
  BY <1>1 DEF Tracing!Begin
<1>3. p \in 0 .. Len(span)
  <2>1. current \in 0 .. Len(span) /\ Len(span) \in Nat
    BY DEF TraceIInv, TraceSpun
  <2>2. external # <<>> => Tracing!Last(external) \in 1 .. Len(span)
    BY DEF TraceIInv, TraceSpun, Tracing!Last
  <2> QED BY <2>1, <2>2
<1>4. s \in TraceMade /\ TraceMadeRight(Tracing!New, s)
  BY <1>3, TraceRecordedIs
<1>5. s.asked = FALSE /\ s.silent = FALSE
  BY DEF Tracing!Recorded
<1> HIDE DEF s
<1>6. /\ Len(span) \in Nat /\ Tracing!New = Len(span) + 1 /\ Len(span') = Len(span) + 1
      /\ \A x \in 1 .. Len(span) : span'[x] = span[x]
  BY <1>2, <1>4, TraceAppendIs DEF TraceIInv, TraceSpun, Tracing!New
<1>7. \A x \in DOMAIN registry' : x \in 1 .. Tracing!New /\ registry'[x] = span'[x].carried
  BY <1>2, <1>6 DEF TraceIInv, TraceSpun, TraceKnows
<1>8. TraceSpun'
  BY <1>2, <1>4, <1>5, <1>7, TraceSpunGrows
<1>9. TraceTurned'
  BY <1>2, <1>4, <1>5, TraceTurnedGrows
<1>10. Tracing!Live' = Tracing!Live
  BY <1>2 DEF Tracing!Live
<1>11. TraceApart' /\ TraceNested'
  BY <1>2, <1>6, <1>10 DEF TraceIInv, TraceApart, TraceNested
<1>12. TraceQuiet'
  <2>1. \A f \in Tracing!Live : f.span \in 1 .. Len(span)
    BY DEF TraceIInv, TraceApart
  <2>2. \A a, b \in Tracing!Live : \A y \in a.span + 1 .. b.span : y \in 1 .. Len(span)
    BY <1>6, <2>1
  <2> QED BY <1>2, <1>6, <1>10, <2>1, <2>2 DEF TraceIInv, TraceQuiet
<1>13. Tracing!DeeperIsParent'
  BY <1>2 DEF Tracing!DeeperIsParent, Tracing!NoChoice
<1> QED BY <1>8, <1>9, <1>11, <1>12, <1>13 DEF TraceIInv

\* A choice that was made was made.
LEMMA TraceChoiceStays ==
    ASSUME Tracing!DeeperIsParent, UNCHANGED <<span, last>>
    PROVE  Tracing!DeeperIsParent'
<1>1. \A low, high :
         /\ Tracing!Above(low, high)' <=> Tracing!Above(low, high)
         /\ Tracing!Between(low, high)' = Tracing!Between(low, high)
  BY DEF Tracing!Above, Tracing!IsAncestor, Tracing!Between, Tracing!Line, Tracing!Truth
<1>2. \A low, high :
         /\ TraceToldBetween(low, high)' <=> TraceToldBetween(low, high)
         /\ TraceSeenBetween(low, high)' <=> TraceSeenBetween(low, high)
  BY <1>1 DEF TraceToldBetween, TraceSeenBetween
<1>3. TraceChoosesLower
  BY TraceDeeperIs
<1>4. TraceChoosesLower'
  BY <1>1, <1>2, <1>3 DEF TraceChoosesLower
<1>5. TraceChoosesLower' <=> Tracing!DeeperIsParent'
  BY TraceDeeperIs, PTL
<1> QED BY <1>4, <1>5

LEMMA TraceFrontOf ==
    ASSUME NEW S, NEW q \in Seq(S), q # <<>>
    PROVE  /\ Len(q) \in Nat /\ Len(q) > 0
           /\ Tracing!Front(q) \in Seq(S) /\ Len(Tracing!Front(q)) = Len(q) - 1
           /\ \A i \in 1 .. Len(q) - 1 : Tracing!Front(q)[i] = q[i]
           /\ Tracing!Last(q) = q[Len(q)]
<1> DEFINE a == SubSeq(q, 1, Len(q) - 1)
<1>1. a \in Seq(S) /\ Len(a) = Len(q) - 1 /\ \A j \in 1 .. Len(q) - 1 : a[j] = q[j]
  OBVIOUS
<1>2. Tracing!Front(q) = a
  BY DEF Tracing!Front
<1> HIDE DEF a
<1>3. Len(q) \in Nat /\ Len(q) > 0
  OBVIOUS
<1> QED BY <1>1, <1>2, <1>3 DEF Tracing!Last

LEMMA TraceEndStep ==
    ASSUME Tracing!TraceAssumption, TraceIInv, Tracing!End
    PROVE  TraceIInv'
<1>1. /\ external # <<>> /\ external' = Tracing!Front(external)
      /\ UNCHANGED <<span, registry, current, frames, waiting, astray, last>>
  BY DEF Tracing!End
<1>2. external' \in Seq(Nat) /\ \A i \in 1 .. Len(external') : external'[i] \in 1 .. Len(span)
  <2>1. external \in Seq(Nat) /\ \A i \in 1 .. Len(external) : external[i] \in 1 .. Len(span)
    BY DEF TraceIInv, TraceSpun
  <2>4. /\ external' \in Seq(Nat) /\ Len(external') = Len(external) - 1
        /\ \A i \in 1 .. Len(external) - 1 : external'[i] = external[i]
    BY <1>1, <2>1, TraceFrontOf
  <2>5. Len(external) \in Nat /\ \A i \in 1 .. Len(external') : i \in 1 .. Len(external)
    BY <2>1, <2>4
  <2> QED BY <2>1, <2>4, <2>5
<1>3. TraceSpun'
  BY <1>1, <1>2 DEF TraceIInv, TraceSpun, TraceKnows
<1>4. Tracing!Live' = Tracing!Live
  BY <1>1 DEF Tracing!Live
<1>5. TraceApart' /\ TraceNested' /\ TraceQuiet' /\ TraceTurned'
  BY <1>1, <1>4 DEF TraceIInv, TraceApart, TraceNested, TraceQuiet, TraceTurned
<1>6. Tracing!DeeperIsParent'
  BY <1>1, TraceChoiceStays DEF TraceIInv
<1> QED BY <1>3, <1>5, <1>6 DEF TraceIInv

\* Spans that stay leave what is known of them.
LEMMA TraceSpansStay ==
    ASSUME TraceIInv, UNCHANGED <<span, registry, external, last>>, current' \in 0 .. Len(span)
    PROVE  TraceSpun' /\ TraceTurned' /\ Tracing!DeeperIsParent'
<1>1. TraceSpun' /\ TraceTurned'
  BY DEF TraceIInv, TraceSpun, TraceKnows, TraceTurned
<1>2. Tracing!DeeperIsParent'
  BY TraceChoiceStays DEF TraceIInv
<1> QED BY <1>1, <1>2

\* The last of the frames is apart from the others.
LEMMA TraceFrontIs ==
    ASSUME TraceIInv, frames # <<>>
    PROVE  /\ Tracing!Last(frames) \in Tracing!Live /\ Tracing!Last(frames) \in TraceFrames
           /\ Tracing!Front(frames) \in Seq(TraceFrames) /\ Len(Tracing!Front(frames)) = Len(frames) - 1
              /\ Len(frames) \in Nat
           /\ Tracing!Last(frames) = frames[Len(frames)]
           /\ \A i \in 1 .. Len(Tracing!Front(frames)) :
                 i \in 1 .. Len(frames) /\ i # Len(frames) /\ Tracing!Front(frames)[i] = frames[i]
           /\ Tracing!Range(frames) = Tracing!Range(Tracing!Front(frames)) \cup {Tracing!Last(frames)}
           /\ \A g \in Tracing!Range(Tracing!Front(frames)) \cup waiting : g.span # Tracing!Last(frames).span
<1> DEFINE F == Tracing!Front(frames)
<1>1. frames \in Seq(TraceFrames) /\ Len(frames) \in Nat /\ Len(frames) > 0
  BY TraceFrontOf DEF TraceIInv, TraceApart
<1>2. /\ F \in Seq(TraceFrames) /\ Len(F) = Len(frames) - 1 /\ \A i \in 1 .. Len(frames) - 1 : F[i] = frames[i]
      /\ Tracing!Last(frames) = frames[Len(frames)]
  BY <1>1, TraceFrontOf
<1> HIDE DEF F
<1>3. \A i \in 1 .. Len(F) : i \in 1 .. Len(frames) /\ i # Len(frames) /\ F[i] = frames[i]
  BY <1>1, <1>2
<1>4. Tracing!Range(F) = {F[i] : i \in 1 .. Len(F)} /\ Tracing!Range(frames) = {frames[i] : i \in 1 .. Len(frames)}
  BY <1>1, <1>2 DEF Tracing!Range
<1>5. \A i \in 1 .. Len(frames) : i \in 1 .. Len(F) \/ i = Len(frames)
  BY <1>1, <1>2
<1>6. Len(frames) \in 1 .. Len(frames)
  BY <1>1
<1>7. Tracing!Range(frames) = Tracing!Range(F) \cup {frames[Len(frames)]}
  BY <1>3, <1>4, <1>5, <1>6
<1>8. \A g \in Tracing!Range(F) : g.span # frames[Len(frames)].span
  BY <1>3, <1>4, <1>6 DEF TraceIInv, TraceApart
<1>9. \A g \in waiting : g.span # frames[Len(frames)].span
  BY <1>6 DEF TraceIInv, TraceApart
<1>10. frames[Len(frames)] \in TraceFrames /\ frames[Len(frames)] \in Tracing!Live
  BY <1>1, <1>6, <1>7 DEF Tracing!Live
<1>11. \A g \in Tracing!Range(F) \cup waiting : g.span # Tracing!Last(frames).span
  BY <1>2, <1>8, <1>9
<1> QED BY <1>1, <1>2, <1>3, <1>7, <1>10, <1>11 DEF F

\* A frame is over: what it gives back is the youngest of the rest.
LEMMA TraceOverSteps ==
    ASSUME TraceIInv, NEW f \in Tracing!Live, Tracing!Over(f), UNCHANGED <<span, registry, external, last>>,
           Tracing!Live' = Tracing!Live \ {f}, \A g \in Tracing!Live \ {f} : g.span # f.span
    PROVE  TraceSpun' /\ TraceTurned' /\ Tracing!DeeperIsParent' /\ TraceNested' /\ TraceQuiet'
<1>1. current' = f.saved /\ (astray' <=> (astray \/ ~Tracing!Youngest(f))) /\ span' = span
  BY DEF Tracing!Over
<1>2. \A g \in Tracing!Live : g.span \in 1 .. Len(span) /\ g.saved \in 0 .. Len(span)
  BY DEF TraceIInv, TraceApart
<1>3. TraceSpun' /\ TraceTurned' /\ Tracing!DeeperIsParent'
  BY <1>1, <1>2, TraceSpansStay
<1>4. TraceQuiet'
  <2>1. \A g \in Tracing!Live' : g \in Tracing!Live
    OBVIOUS
  <2> QED BY <1>1, <2>1 DEF TraceIInv, TraceQuiet
<1>5. TraceNested'
  <2>1. SUFFICES ASSUME ~astray, Tracing!Youngest(f)
                 PROVE  /\ \A h \in Tracing!Live' :
                              /\ h.saved < h.span
                              /\ h.saved # 0 => \E g \in Tracing!Live' : g.span = h.saved
                              /\ \A g \in Tracing!Live' : g.span < h.span => g.span <= h.saved
                        /\ current' # 0 => \E g \in Tracing!Live' : g.span = current'
                        /\ \A g \in Tracing!Live' : g.span <= current'
    BY <1>1 DEF TraceNested
  <2>2. /\ \A h \in Tracing!Live :
              /\ h.saved < h.span
              /\ h.saved # 0 => \E g \in Tracing!Live : g.span = h.saved
              /\ \A g \in Tracing!Live : g.span < h.span => g.span <= h.saved
        /\ \A g \in Tracing!Live : g.span <= f.span
    BY <2>1 DEF TraceIInv, TraceNested, Tracing!Youngest
  <2>3. ASSUME NEW h \in Tracing!Live, h.saved # 0 PROVE \E g \in Tracing!Live' : g.span = h.saved
    <3>1. PICK g \in Tracing!Live : g.span = h.saved
      BY <2>2, <2>3
    <3>2. g.span < f.span
      BY <1>2, <2>2, <3>1
    <3>3. g # f
      BY <1>2, <3>2
    <3> QED BY <3>1, <3>3
  <2>4. \A g \in Tracing!Live' : g.span <= f.saved
    <3>1. SUFFICES ASSUME NEW g \in Tracing!Live \ {f} PROVE g.span <= f.saved
      OBVIOUS
    <3>2. g.span < f.span
      BY <1>2, <2>2
    <3> QED BY <2>2, <3>2
  <2> QED BY <1>1, <2>2, <2>3, <2>4
<1> QED BY <1>3, <1>4, <1>5

LEMMA TraceReturnStep ==
    ASSUME TraceIInv, Tracing!Return
    PROVE  TraceIInv'
<1>1. /\ frames # <<>> /\ Tracing!Over(Tracing!Last(frames)) /\ frames' = Tracing!Front(frames)
      /\ UNCHANGED <<span, registry, external, waiting, last>>
  BY DEF Tracing!Return
<1>2. /\ Tracing!Last(frames) \in Tracing!Live
      /\ frames' \in Seq(TraceFrames) /\ \A i \in 1 .. Len(frames') : i \in 1 .. Len(frames)
         /\ frames'[i] = frames[i]
      /\ Tracing!Range(frames) = Tracing!Range(frames') \cup {Tracing!Last(frames)}
      /\ \A g \in Tracing!Range(frames') \cup waiting : g.span # Tracing!Last(frames).span
  BY <1>1, TraceFrontIs
<1>3. /\ Tracing!Live' = Tracing!Live \ {Tracing!Last(frames)}
      /\ \A g \in Tracing!Live \ {Tracing!Last(frames)} : g.span # Tracing!Last(frames).span
  BY <1>1, <1>2 DEF Tracing!Live
<1>4. TraceSpun' /\ TraceTurned' /\ Tracing!DeeperIsParent' /\ TraceNested' /\ TraceQuiet'
  BY <1>1, <1>2, <1>3, TraceOverSteps
<1>5. TraceApart'
  BY <1>1, <1>2, <1>3 DEF TraceIInv, TraceApart
<1> QED BY <1>4, <1>5 DEF TraceIInv

LEMMA TraceCloseStep ==
    ASSUME TraceIInv, Tracing!Close
    PROVE  TraceIInv'
<1>1. PICK f \in waiting :
      /\ Tracing!Over(f) /\ waiting' = waiting \ {f}
      /\ UNCHANGED <<span, registry, external, frames, last>>
  BY DEF Tracing!Close
<1>2. f \in Tracing!Live /\ \A g \in Tracing!Live : g.span = f.span => g = f
  <2>1. \A g \in Tracing!Range(frames) : g.span # f.span
    BY DEF TraceIInv, TraceApart, Tracing!Range
  <2> QED BY <2>1 DEF Tracing!Live, TraceIInv, TraceApart
<1>3. Tracing!Live' = Tracing!Live \ {f} /\ \A g \in Tracing!Live \ {f} : g.span # f.span
  <2>1. \A g \in Tracing!Range(frames) : g # f
    BY DEF TraceIInv, TraceApart, Tracing!Range
  <2> QED BY <1>1, <1>2, <2>1 DEF Tracing!Live
<1>4. TraceSpun' /\ TraceTurned' /\ Tracing!DeeperIsParent' /\ TraceNested' /\ TraceQuiet'
  BY <1>1, <1>2, <1>3, TraceOverSteps
<1>5. TraceApart'
  BY <1>1, <1>3 DEF TraceIInv, TraceApart
<1> QED BY <1>4, <1>5 DEF TraceIInv

\* A generator that waits stays among those that began.
LEMMA TraceYieldStep ==
    ASSUME TraceIInv, Tracing!Yield
    PROVE  TraceIInv'
<1>1. /\ frames # <<>> /\ frames' = Tracing!Front(frames) /\ waiting' = waiting \cup {Tracing!Last(frames)}
      /\ UNCHANGED <<span, registry, current, external, astray, last>>
  BY DEF Tracing!Yield
<1>2. /\ Tracing!Last(frames) \in Tracing!Live /\ Tracing!Last(frames) \in TraceFrames
      /\ frames' \in Seq(TraceFrames) /\ \A i \in 1 .. Len(frames') : i \in 1 .. Len(frames)
         /\ frames'[i] = frames[i]
      /\ Tracing!Range(frames) = Tracing!Range(frames') \cup {Tracing!Last(frames)}
      /\ \A g \in Tracing!Range(frames') \cup waiting : g.span # Tracing!Last(frames).span
  BY <1>1, TraceFrontIs
<1>3. Tracing!Live' = Tracing!Live
  BY <1>1, <1>2 DEF Tracing!Live
<1>4. TraceSpun' /\ TraceTurned' /\ Tracing!DeeperIsParent'
  BY <1>1, TraceSpansStay DEF TraceIInv, TraceSpun
<1>5. TraceNested' /\ TraceQuiet'
  BY <1>1, <1>3 DEF TraceIInv, TraceNested, TraceQuiet
<1>6. \A i \in 1 .. Len(frames') : frames'[i] \in Tracing!Range(frames')
  BY <1>2 DEF Tracing!Range
<1>7. TraceApart'
  BY <1>1, <1>2, <1>3, <1>6 DEF TraceIInv, TraceApart
<1> QED BY <1>4, <1>5, <1>7 DEF TraceIInv

LEMMA TraceResumeStep ==
    ASSUME TraceIInv, Tracing!Resume
    PROVE  TraceIInv'
<1>1. PICK f \in waiting :
      /\ frames' = Append(frames, f) /\ waiting' = waiting \ {f}
      /\ UNCHANGED <<span, registry, current, external, astray, last>>
  BY DEF Tracing!Resume
<1>2. frames \in Seq(TraceFrames) /\ f \in TraceFrames
  BY DEF TraceIInv, TraceApart
<1>3. /\ Len(frames') = Len(frames) + 1 /\ Len(frames) \in Nat /\ frames' \in Seq(TraceFrames)
      /\ \A i \in 1 .. Len(frames') : frames'[i] = IF i \in 1 .. Len(frames) THEN frames[i] ELSE f
  BY <1>1, <1>2
<1>4. Tracing!Range(frames') = Tracing!Range(frames) \cup {f}
  <2>1. /\ Tracing!Range(frames') = {frames'[i] : i \in 1 .. Len(frames')}
        /\ Tracing!Range(frames) = {frames[i] : i \in 1 .. Len(frames)}
    BY <1>2, <1>3 DEF Tracing!Range
  <2>2. \A x : x \in Tracing!Range(frames') <=> x \in Tracing!Range(frames) \/ x = f
    BY <1>3, <2>1
  <2> QED BY <2>2
<1>5. Tracing!Live' = Tracing!Live
  BY <1>1, <1>4 DEF Tracing!Live
<1>6. TraceSpun' /\ TraceTurned' /\ Tracing!DeeperIsParent'
  BY <1>1, TraceSpansStay DEF TraceIInv, TraceSpun
<1>7. TraceNested' /\ TraceQuiet'
  BY <1>1, <1>5 DEF TraceIInv, TraceNested, TraceQuiet
<1>8. TraceApart'
  <2>1. \A i, j \in 1 .. Len(frames') : frames'[i].span = frames'[j].span => i = j
    <3>1. \A i \in 1 .. Len(frames') : i \in 1 .. Len(frames) \/ i = Len(frames) + 1
      BY <1>3
    <3>2. /\ \A i, j \in 1 .. Len(frames) : frames[i].span = frames[j].span => i = j
          /\ \A i \in 1 .. Len(frames) : frames[i].span # f.span
      BY DEF TraceIInv, TraceApart
    <3> QED BY <1>3, <3>1, <3>2
  <2>2. \A i \in 1 .. Len(frames'), w \in waiting' : frames'[i].span # w.span
    BY <1>1, <1>3 DEF TraceIInv, TraceApart
  <2> QED BY <1>1, <1>3, <1>5, <2>1, <2>2 DEF TraceIInv, TraceApart
<1> QED BY <1>6, <1>7, <1>8 DEF TraceIInv

LEMMA TraceSteps ==
    ASSUME Tracing!TraceAssumption, TraceIInv, [Tracing!Next]_(Tracing!vars)
    PROVE  TraceIInv'
<1>1. CASE UNCHANGED Tracing!vars
  <2>1. Tracing!Live' = Tracing!Live
    BY <1>1 DEF Tracing!vars, Tracing!Live
  <2>2. TraceSpun' /\ TraceTurned' /\ Tracing!DeeperIsParent'
    BY <1>1, TraceSpansStay DEF TraceIInv, TraceSpun, Tracing!vars
  <2> QED BY <1>1, <2>1, <2>2 DEF Tracing!vars, TraceIInv, TraceApart, TraceNested, TraceQuiet
<1> QED BY <1>1, TraceCallStep, TracePlainStep, TraceBeginStep, TraceEndStep, TraceReturnStep, TraceYieldStep,
           TraceResumeStep, TraceCloseStep DEF Tracing!Next

\* While what began last is over first the current span is that of the frame begun
\* last; of two spans on one line that the registry knows the lower one is the
\* parent; and what is called beneath a function that is not recorded is not
\* recorded, nor goes past it, for any number of spans and frames
\* (core/tracing/span_utils.py get_parent_context, _get_bottom_most_span;
\* decorators.py, the wrappers).
THEOREM TraceAlwaysKept == Spec => []TraceKept
<1> DEFINE Inv == service = "tracing" => TraceIInv
<1>1. Tracing!TraceAssumption
  BY ServicesAssumption
<1>2. Init => Inv
  BY <1>1, TraceStarts DEF Init
<1>3. Inv /\ [Next]_vars => Inv'
  BY <1>1, OneService, TraceSteps
<1>4. Inv => TraceKept
  BY <1>1, TraceIsKept DEF TraceKept
<1> HIDE DEF Inv
<1> QED BY <1>2, <1>3, <1>4, PTL DEF Spec

-------------------------------------------------------------------------------
(***************************************************************************)
(* ToolCallScores, for any tools, and any calls made and expected.         *)
(*                                                                         *)
(* The argument: what an evaluator says is fixed when it says it, so the   *)
(* properties are about the operators.  Of the table of the order, every   *)
(* field holds the length of a longest common subsequence of what is       *)
(* before it, and the way back from it has that length (ToolLongest), by   *)
(* induction over its diagonals: whatever leaves both ends of a common     *)
(* subsequence can be had from a neighbour.  The greedy evaluators take    *)
(* for each expectation the first call that is left and fits, so a call    *)
(* that is left fits none that got nothing (ToolTakingIs).  Where a call   *)
(* fits an expectation, both fit all that the other fits, and then nothing *)
(* left is the most any pairing can do (ToolNothingLeftIsMost).  And an    *)
(* order that is as expected has of every key as many calls as             *)
(* expectations (ToolOrderIsCounted).                                      *)
(***************************************************************************)
\* A set has as many elements there as here.
LEMMA ToolCardinalityIs ==
    /\ \A S : Scores!Cardinality(S) = Cardinality(S)
    /\ \A S : Scores!IsFiniteSet(S) <=> IsFiniteSet(S)
<1>1. \A S : Scores!IsFiniteSet(S) <=> IsFiniteSet(S)
  BY DEF Scores!IsFiniteSet, IsFiniteSet
<1>2. \A S : Scores!Cardinality(S) = Cardinality(S)
  BY DEF Scores!Cardinality, Cardinality, Scores!IsFiniteSet, IsFiniteSet
<1> QED BY <1>1, <1>2

\* What the library says of finite sets, in the terms of the model.
LEMMA ToolFS_Interval ==
    ASSUME NEW a \in Int, NEW b \in Int
    PROVE  Scores!IsFiniteSet(a .. b) /\ Scores!Cardinality(a .. b) = IF a > b THEN 0 ELSE b - a + 1
BY ToolCardinalityIs, FS_Interval
LEMMA ToolFS_CardinalityType ==
    ASSUME NEW S, Scores!IsFiniteSet(S)
    PROVE  Scores!Cardinality(S) \in Nat
BY ToolCardinalityIs, FS_CardinalityType
LEMMA ToolFS_EmptySet ==
    Scores!IsFiniteSet({}) /\ Scores!Cardinality({}) = 0
                              /\ \A S : Scores!IsFiniteSet(S) => (Scores!Cardinality(S) = 0 <=> S = {})
BY ToolCardinalityIs, FS_EmptySet
LEMMA ToolFS_Subset ==
    ASSUME NEW S, Scores!IsFiniteSet(S), NEW T \in SUBSET S
    PROVE  Scores!IsFiniteSet(T) /\ Scores!Cardinality(T) <= Scores!Cardinality(S)
            /\ (Scores!Cardinality(S) = Scores!Cardinality(T) => S = T)
BY ToolCardinalityIs, FS_Subset
LEMMA ToolFS_AddElement ==
    ASSUME NEW S, NEW x, Scores!IsFiniteSet(S)
    PROVE  /\ Scores!IsFiniteSet(S \cup {x})
           /\ Scores!Cardinality(S \cup {x}) = IF x \in S THEN Scores!Cardinality(S)
                  ELSE Scores!Cardinality(S) + 1
BY ToolCardinalityIs, FS_AddElement
LEMMA ToolFS_RemoveElement ==
    ASSUME NEW S, NEW x, Scores!IsFiniteSet(S)
    PROVE  /\ Scores!IsFiniteSet(S \ {x})
           /\ Scores!Cardinality(S \ {x}) = IF x \in S THEN Scores!Cardinality(S) - 1 ELSE Scores!Cardinality(S)
BY ToolCardinalityIs, FS_RemoveElement
LEMMA ToolFS_Injection ==
    ASSUME NEW S, NEW T, NEW f \in Injection(S, T), Scores!IsFiniteSet(T)
    PROVE  Scores!IsFiniteSet(S) /\ Scores!Cardinality(S) <= Scores!Cardinality(T)
BY ToolCardinalityIs, FS_Injection
LEMMA ToolFS_Surjection ==
    ASSUME NEW S, NEW T, NEW f \in Surjection(S, T), Scores!IsFiniteSet(S)
    PROVE  Scores!IsFiniteSet(T) /\ Scores!Cardinality(T) <= Scores!Cardinality(S)
BY ToolCardinalityIs, FS_Surjection
LEMMA ToolFS_Bijection ==
    ASSUME NEW S, NEW T, Scores!IsFiniteSet(S), ExistsBijection(S, T)
    PROVE  Scores!IsFiniteSet(T) /\ Scores!Cardinality(T) = Scores!Cardinality(S)
BY ToolCardinalityIs, FS_Bijection

(***************************************************************************)
(* The table and the way back through it.                                  *)
(***************************************************************************)
ToolGrid(keys) == (0 .. Len(made)) \X (0 .. Len(keys))
ToolCell(dp, keys, p) ==
    IF p[1] = 0 \/ p[2] = 0 THEN 0
    ELSE IF Scores!MatchKey(made[p[1]], keys[p[2]]) THEN dp[<<p[1] - 1, p[2] - 1>>] + 1
    ELSE IF dp[<<p[1] - 1, p[2]>>] > dp[<<p[1], p[2] - 1>>]
         THEN dp[<<p[1] - 1, p[2]>>] ELSE dp[<<p[1], p[2] - 1>>]
ToolStep(way, dp, keys, p) ==
    IF p[1] = 0 \/ p[2] = 0 THEN {}
    ELSE IF Scores!MatchKey(made[p[1]], keys[p[2]]) THEN {p} \cup way[<<p[1] - 1, p[2] - 1>>]
    ELSE IF Scores!Up(dp[<<p[1] - 1, p[2]>>], dp[<<p[1], p[2] - 1>>])
         THEN way[<<p[1] - 1, p[2]>>] ELSE way[<<p[1], p[2] - 1>>]

\* The fields before one diagonal, and those a field is made of.
ToolUntil(keys, s) == {p \in ToolGrid(keys) : p[1] + p[2] < s}
LEMMA ToolUntilIs ==
    ASSUME made \in Seq(Tools), NEW K, NEW keys \in Seq(K)
    PROVE  /\ ToolUntil(keys, 0) = {} /\ \A s \in Nat : ToolUntil(keys, s) \subseteq ToolUntil(keys, s + 1)
           /\ \E s \in Nat : ToolUntil(keys, s) = ToolGrid(keys)
           /\ \A s \in Nat : \A p \in ToolUntil(keys, s + 1) : p[1] # 0 /\ p[2] # 0 =>
                 /\ <<p[1] - 1, p[2] - 1>> \in ToolUntil(keys, s)
                 /\ <<p[1] - 1, p[2]>> \in ToolUntil(keys, s) /\ <<p[1], p[2] - 1>> \in ToolUntil(keys, s)
<1>0. PICK n, k \in Nat : n = Len(made) /\ k = Len(keys)
  OBVIOUS
<1>1. ToolGrid(keys) = (0 .. n) \X (0 .. k)
  BY <1>0 DEF ToolGrid
<1>2. ToolUntil(keys, 0) = {}
  BY <1>1 DEF ToolUntil
<1>3. \A s \in Nat : ToolUntil(keys, s) \subseteq ToolUntil(keys, s + 1)
  BY <1>1 DEF ToolUntil
<1>4. ToolUntil(keys, n + k + 1) = ToolGrid(keys) /\ n + k + 1 \in Nat
  BY <1>1 DEF ToolUntil
<1>5. ASSUME NEW s \in Nat, NEW p \in ToolUntil(keys, s + 1), p[1] # 0, p[2] # 0
      PROVE  /\ <<p[1] - 1, p[2] - 1>> \in ToolUntil(keys, s)
             /\ <<p[1] - 1, p[2]>> \in ToolUntil(keys, s) /\ <<p[1], p[2] - 1>> \in ToolUntil(keys, s)
  BY <1>1, <1>5 DEF ToolUntil
<1> QED BY <1>2, <1>3, <1>4, <1>5

LEMMA ToolTableExists ==
    ASSUME made \in Seq(Tools), NEW K, NEW keys \in Seq(K)
    PROVE  \E dp : dp = [p \in ToolGrid(keys) |-> ToolCell(dp, keys, p)]
<1> DEFINE Bad == {s \in Nat : ~\E dp : dp = [p \in ToolUntil(keys, s) |-> ToolCell(dp, keys, p)]}
<1>1. ASSUME Bad # {} PROVE FALSE
  <2>1. PICK m \in Bad : \A s \in Bad : m <= s
    BY <1>1, HasMin
  <2>2. m \in Nat /\ ~\E dp : dp = [p \in ToolUntil(keys, m) |-> ToolCell(dp, keys, p)]
    OBVIOUS
  <2>3. m # 0
    <3>1. ToolUntil(keys, 0) = {}
      BY ToolUntilIs
    <3>2. [p \in ToolUntil(keys, 0) |-> 0]
              = [p \in ToolUntil(keys, 0) |-> ToolCell([q \in ToolUntil(keys, 0) |-> 0], keys, p)]
      BY <3>1
    <3> QED BY <2>2, <3>2
  <2>4. PICK s \in Nat : m = s + 1
    <3>1. m - 1 \in Nat /\ m = (m - 1) + 1
      BY <2>2, <2>3
    <3> QED BY <3>1
  <2>5. s \notin Bad
    BY <2>1, <2>4
  <2>6. PICK g : g = [p \in ToolUntil(keys, s) |-> ToolCell(g, keys, p)]
    BY <2>5
  <2> HIDE DEF Bad
  <2> DEFINE h == [p \in ToolUntil(keys, s + 1) |-> ToolCell(g, keys, p)]
  <2>7. \A p \in ToolUntil(keys, s) : h[p] = g[p]
    <3>1. ToolUntil(keys, s) \subseteq ToolUntil(keys, s + 1)
      BY ToolUntilIs
    <3>2. \A p \in ToolUntil(keys, s) : g[p] = ToolCell(g, keys, p)
      BY <2>6
    <3> QED BY <3>1, <3>2
  <2> HIDE DEF h
  <2>8. ASSUME NEW p \in ToolUntil(keys, s + 1) PROVE ToolCell(g, keys, p) = ToolCell(h, keys, p)
    <3>1. CASE p[1] = 0 \/ p[2] = 0
      BY <3>1 DEF ToolCell
    <3>2. CASE p[1] # 0 /\ p[2] # 0
      <4>1. /\ h[<<p[1] - 1, p[2] - 1>>] = g[<<p[1] - 1, p[2] - 1>>]
            /\ h[<<p[1] - 1, p[2]>>] = g[<<p[1] - 1, p[2]>>] /\ h[<<p[1], p[2] - 1>>] = g[<<p[1], p[2] - 1>>]
        BY <2>7, <3>2, ToolUntilIs
      <4> QED BY <4>1 DEF ToolCell
    <3> QED BY <3>1, <3>2
  <2>9. h = [p \in ToolUntil(keys, s + 1) |-> ToolCell(h, keys, p)]
    <3>1. [p \in ToolUntil(keys, s + 1) |-> ToolCell(g, keys, p)]
              = [p \in ToolUntil(keys, s + 1) |-> ToolCell(h, keys, p)]
      BY <2>8
    <3> QED BY <3>1 DEF h
  <2> QED BY <2>2, <2>4, <2>9
<1>2. PICK s \in Nat : ToolUntil(keys, s) = ToolGrid(keys)
  BY ToolUntilIs
<1>3. \E dp : dp = [p \in ToolUntil(keys, s) |-> ToolCell(dp, keys, p)]
  BY <1>1
<1> QED BY <1>2, <1>3

LEMMA ToolTableIs ==
    ASSUME made \in Seq(Tools), NEW K, NEW keys \in Seq(K)
    PROVE  Scores!Table(keys) = [p \in ToolGrid(keys) |-> ToolCell(Scores!Table(keys), keys, p)]
<1>1. Scores!Table(keys) = CHOOSE dp : dp = [p \in ToolGrid(keys) |-> ToolCell(dp, keys, p)]
  BY DEF Scores!Table, ToolGrid, ToolCell
<1> QED BY <1>1, ToolTableExists

LEMMA ToolWayExists ==
    ASSUME made \in Seq(Tools), NEW K, NEW keys \in Seq(K), NEW dp
    PROVE  \E way : way = [p \in ToolGrid(keys) |-> ToolStep(way, dp, keys, p)]
<1> DEFINE Bad == {s \in Nat : ~\E way : way = [p \in ToolUntil(keys, s) |-> ToolStep(way, dp, keys, p)]}
<1>1. ASSUME Bad # {} PROVE FALSE
  <2>1. PICK m \in Bad : \A s \in Bad : m <= s
    BY <1>1, HasMin
  <2>2. m \in Nat /\ ~\E way : way = [p \in ToolUntil(keys, m) |-> ToolStep(way, dp, keys, p)]
    OBVIOUS
  <2>3. m # 0
    <3>1. ToolUntil(keys, 0) = {}
      BY ToolUntilIs
    <3>2. [p \in ToolUntil(keys, 0) |-> 0]
              = [p \in ToolUntil(keys, 0) |-> ToolStep([q \in ToolUntil(keys, 0) |-> 0], dp, keys, p)]
      BY <3>1
    <3> QED BY <2>2, <3>2
  <2>4. PICK s \in Nat : m = s + 1
    <3>1. m - 1 \in Nat /\ m = (m - 1) + 1
      BY <2>2, <2>3
    <3> QED BY <3>1
  <2>5. s \notin Bad
    BY <2>1, <2>4
  <2>6. PICK g : g = [p \in ToolUntil(keys, s) |-> ToolStep(g, dp, keys, p)]
    BY <2>5
  <2> HIDE DEF Bad
  <2> DEFINE h == [p \in ToolUntil(keys, s + 1) |-> ToolStep(g, dp, keys, p)]
  <2>7. \A p \in ToolUntil(keys, s) : h[p] = g[p]
    <3>1. ToolUntil(keys, s) \subseteq ToolUntil(keys, s + 1)
      BY ToolUntilIs
    <3>2. \A p \in ToolUntil(keys, s) : g[p] = ToolStep(g, dp, keys, p)
      BY <2>6
    <3> QED BY <3>1, <3>2
  <2> HIDE DEF h
  <2>8. ASSUME NEW p \in ToolUntil(keys, s + 1) PROVE ToolStep(g, dp, keys, p) = ToolStep(h, dp, keys, p)
    <3>1. CASE p[1] = 0 \/ p[2] = 0
      BY <3>1 DEF ToolStep
    <3>2. CASE p[1] # 0 /\ p[2] # 0
      <4>1. /\ h[<<p[1] - 1, p[2] - 1>>] = g[<<p[1] - 1, p[2] - 1>>]
            /\ h[<<p[1] - 1, p[2]>>] = g[<<p[1] - 1, p[2]>>] /\ h[<<p[1], p[2] - 1>>] = g[<<p[1], p[2] - 1>>]
        BY <2>7, <3>2, ToolUntilIs
      <4> QED BY <4>1 DEF ToolStep
    <3> QED BY <3>1, <3>2
  <2>9. h = [p \in ToolUntil(keys, s + 1) |-> ToolStep(h, dp, keys, p)]
    <3>1. [p \in ToolUntil(keys, s + 1) |-> ToolStep(g, dp, keys, p)]
              = [p \in ToolUntil(keys, s + 1) |-> ToolStep(h, dp, keys, p)]
      BY <2>8
    <3> QED BY <3>1 DEF h
  <2> QED BY <2>2, <2>4, <2>9
<1>2. PICK s \in Nat : ToolUntil(keys, s) = ToolGrid(keys)
  BY ToolUntilIs
<1>3. \E way : way = [p \in ToolUntil(keys, s) |-> ToolStep(way, dp, keys, p)]
  BY <1>1
<1> QED BY <1>2, <1>3

LEMMA ToolWayIs ==
    ASSUME made \in Seq(Tools), NEW K, NEW keys \in Seq(K)
    PROVE  \E way : /\ way = [p \in ToolGrid(keys) |-> ToolStep(way, Scores!Table(keys), keys, p)]
                    /\ Scores!Way(keys) = way[<<Len(made), Len(keys)>>]
<1> DEFINE dp == Scores!Table(keys)
<1> DEFINE w == CHOOSE way : way = [p \in ToolGrid(keys) |-> ToolStep(way, dp, keys, p)]
<1>1. Scores!Way(keys) = w[<<Len(made), Len(keys)>>]
  BY DEF Scores!Way, ToolGrid, ToolStep
<1>2. w = [p \in ToolGrid(keys) |-> ToolStep(w, dp, keys, p)]
  BY ToolWayExists
<1> QED BY <1>1, <1>2

-------------------------------------------------------------------------------
(***************************************************************************)
(* What the table counts and the way back finds.                           *)
(***************************************************************************)
\* A common subsequence of the first i calls and the first j keys.
ToolCommon(keys, i, j, S, f) ==
    /\ S \subseteq 1 .. j /\ f \in [S -> 1 .. i]
    /\ \A n \in S : Scores!MatchKey(made[f[n]], keys[n])
    /\ \A n, o \in S : o < n => f[o] < f[n]
ToolFound(keys, i, j, way) ==
    /\ way \subseteq (1 .. i) \X (1 .. j)
    /\ \A a, b \in way : a[1] < b[1] <=> a[2] < b[2]
    /\ \A a \in way : Scores!MatchKey(made[a[1]], keys[a[2]])
ToolLongest(keys, i, j, d, way) ==
    /\ d \in Nat /\ Scores!IsFiniteSet(way) /\ Scores!Cardinality(way) = d /\ ToolFound(keys, i, j, way)
    /\ \A S, f : ToolCommon(keys, i, j, S, f) => Scores!Cardinality(S) <= d

LEMMA ToolLongestOfNone ==
    ASSUME NEW keys, NEW i \in Nat, NEW j \in Nat, i = 0 \/ j = 0
    PROVE  ToolLongest(keys, i, j, 0, {})
<1>1. Scores!IsFiniteSet({}) /\ Scores!Cardinality({}) = 0
  BY ToolFS_EmptySet
<1>2. ASSUME NEW S, NEW f, ToolCommon(keys, i, j, S, f) PROVE Scores!Cardinality(S) <= 0
  <2>1. S = {}
    <3>1. CASE j = 0
      BY <3>1, <1>2 DEF ToolCommon
    <3>2. CASE i = 0
      <4>1. \A n \in S : f[n] \in 1 .. i
        BY <1>2 DEF ToolCommon
      <4> QED BY <4>1, <3>2
    <3> QED BY <3>1, <3>2
  <2> QED BY <2>1, <1>1
<1> QED BY <1>1, <1>2 DEF ToolLongest, ToolFound

LEMMA ToolLongestOfMatch ==
    ASSUME NEW keys, NEW i \in Nat, NEW j \in Nat, i # 0, j # 0, NEW d, NEW way,
           Scores!MatchKey(made[i], keys[j]), ToolLongest(keys, i - 1, j - 1, d, way)
    PROVE  ToolLongest(keys, i, j, d + 1, {<<i, j>>} \cup way)
<1> DEFINE more == {<<i, j>>} \cup way
<1>0. i - 1 \in Nat /\ j - 1 \in Nat
  OBVIOUS
<1>1. d \in Nat /\ Scores!IsFiniteSet(way) /\ Scores!Cardinality(way) = d /\ ToolFound(keys, i - 1, j - 1, way)
  BY DEF ToolLongest
<1>2. <<i, j>> \notin way
  BY <1>1 DEF ToolFound
<1>3. Scores!IsFiniteSet(more) /\ Scores!Cardinality(more) = d + 1
  BY <1>1, <1>2, ToolFS_AddElement
<1>4. ToolFound(keys, i, j, more)
  <2>1. \A a \in way : a[1] \in 1 .. i - 1 /\ a[2] \in 1 .. j - 1 /\ a \in (1 .. i) \X (1 .. j)
    BY <1>0, <1>1 DEF ToolFound
  <2>2. more \subseteq (1 .. i) \X (1 .. j)
    BY <2>1
  <2>3. \A a, b \in more : a[1] < b[1] <=> a[2] < b[2]
    <3>1. \A a \in way : a[1] < i /\ a[2] < j /\ ~(i < a[1]) /\ ~(j < a[2])
      BY <2>1
    <3>2. <<i, j>>[1] = i /\ <<i, j>>[2] = j /\ ~(i < i) /\ ~(j < j)
      OBVIOUS
    <3>3. \A a, b \in way : a[1] < b[1] <=> a[2] < b[2]
      BY <1>1 DEF ToolFound
    <3>4. \A a \in more : a = <<i, j>> \/ a \in way
      OBVIOUS
    <3> HIDE DEF more
    <3> QED BY <3>1, <3>2, <3>3, <3>4
  <2>4. \A a \in more : Scores!MatchKey(made[a[1]], keys[a[2]])
    BY <1>1 DEF ToolFound
  <2> QED BY <2>2, <2>3, <2>4 DEF ToolFound
<1>5. ASSUME NEW S, NEW f, ToolCommon(keys, i, j, S, f) PROVE Scores!Cardinality(S) <= d + 1
  <2>1. CASE S = {}
    BY <2>1, ToolFS_EmptySet, <1>1
  <2>2. CASE S # {}
    <3>1. S \subseteq 1 .. j /\ f \in [S -> 1 .. i] /\ (\A n, o \in S : o < n => f[o] < f[n])
      BY <1>5 DEF ToolCommon
    <3>2. PICK n \in S : \A o \in S : o <= n
      BY <2>2, <3>1, HasMax
    <3> DEFINE T == S \ {n}
    <3> DEFINE g == [o \in T |-> f[o]]
    <3>3. \A o \in T : o < n /\ o \in 1 .. j - 1 /\ f[o] \in 1 .. i - 1
      <4> SUFFICES ASSUME NEW o \in T PROVE o < n /\ o \in 1 .. j - 1 /\ f[o] \in 1 .. i - 1
        OBVIOUS
      <4>1. o \in S /\ o # n /\ o \in 1 .. j /\ n \in 1 .. j /\ o <= n
        BY <3>1, <3>2
      <4>2. o < n
        BY <4>1
      <4>3. f[o] < f[n] /\ f[o] \in 1 .. i /\ f[n] \in 1 .. i
        BY <3>1, <4>1, <4>2
      <4> QED BY <4>1, <4>2, <4>3
    <3>4. ToolCommon(keys, i - 1, j - 1, T, g)
      <4>1. \A o \in T : Scores!MatchKey(made[f[o]], keys[o])
        BY <1>5 DEF ToolCommon
      <4>2. g \in [T -> 1 .. i - 1] /\ T \subseteq 1 .. j - 1
        BY <3>3
      <4>3. \A m, o \in T : o < m => g[o] < g[m]
        BY <3>1
      <4> QED BY <4>1, <4>2, <4>3 DEF ToolCommon
    <3>5. Scores!Cardinality(T) <= d
      BY <3>4 DEF ToolLongest
    <3>6. Scores!IsFiniteSet(S)
      <4>1. Scores!IsFiniteSet(1 .. j)
        BY ToolFS_Interval
      <4>2. S \in SUBSET (1 .. j)
        BY <3>1
      <4> QED BY <4>1, <4>2, ToolFS_Subset
    <3>7. Scores!IsFiniteSet(T) /\ Scores!Cardinality(T) = Scores!Cardinality(S) - 1
            /\ Scores!Cardinality(S) \in Nat
      BY <3>6, <3>2, ToolFS_RemoveElement, ToolFS_CardinalityType
    <3> HIDE DEF T
    <3> QED BY <3>5, <3>7, <1>1
  <2> QED BY <2>1, <2>2
<1>6. d + 1 \in Nat
  BY <1>1
<1> HIDE DEF more
<1>7. ToolLongest(keys, i, j, d + 1, more)
  BY <1>3, <1>4, <1>5, <1>6 DEF ToolLongest
<1> QED BY <1>7 DEF more

LEMMA ToolLongestOfNoMatch ==
    ASSUME NEW keys, NEW i \in Nat, NEW j \in Nat, i # 0, j # 0, NEW d, NEW way, NEW e, NEW oway,
           ~Scores!MatchKey(made[i], keys[j]), ToolLongest(keys, i - 1, j, d, way),
               ToolLongest(keys, i, j - 1, e, oway)
    PROVE  /\ d > e => ToolLongest(keys, i, j, d, way)
           /\ ~(d > e) => ToolLongest(keys, i, j, e, oway)
<1>0. i - 1 \in Nat /\ j - 1 \in Nat
  OBVIOUS
<1>1. d \in Nat /\ Scores!IsFiniteSet(way) /\ Scores!Cardinality(way) = d /\ ToolFound(keys, i - 1, j, way)
  BY DEF ToolLongest
<1>2. e \in Nat /\ Scores!IsFiniteSet(oway) /\ Scores!Cardinality(oway) = e /\ ToolFound(keys, i, j - 1, oway)
  BY DEF ToolLongest
<1>3. ToolFound(keys, i, j, way) /\ ToolFound(keys, i, j, oway)
  <2>1. 1 .. i - 1 \subseteq 1 .. i /\ 1 .. j - 1 \subseteq 1 .. j
    BY <1>0
  <2>2. (1 .. i - 1) \X (1 .. j) \subseteq (1 .. i) \X (1 .. j)
        /\ (1 .. i) \X (1 .. j - 1) \subseteq (1 .. i) \X (1 .. j)
    BY <2>1
  <2> QED BY <2>2, <1>1, <1>2 DEF ToolFound
<1>4. ASSUME NEW S, NEW f, ToolCommon(keys, i, j, S, f)
      PROVE Scores!Cardinality(S) <= d \/ Scores!Cardinality(S) <= e
  <2>1. S \subseteq 1 .. j /\ f \in [S -> 1 .. i] /\ (\A n, o \in S : o < n => f[o] < f[n])
        /\ \A n \in S : Scores!MatchKey(made[f[n]], keys[n])
    BY <1>4 DEF ToolCommon
  <2>2. CASE j \notin S
    <3>1. S \subseteq 1 .. j - 1
      BY <2>1, <2>2
    <3>2. ToolCommon(keys, i, j - 1, S, f)
      BY <3>1, <2>1 DEF ToolCommon
    <3> QED BY <3>2 DEF ToolLongest
  <2>3. CASE j \in S
    <3>1. f[j] # i /\ f[j] \in 1 .. i
      BY <2>1, <2>3
    <3>2. ASSUME NEW o \in S PROVE f[o] \in 1 .. i - 1
      <4>1. o \in 1 .. j /\ f[o] \in 1 .. i
        BY <2>1
      <4>2. o = j \/ o < j
        BY <4>1
      <4>3. o < j => f[o] < f[j]
        BY <2>1, <2>3
      <4> QED BY <4>1, <4>2, <4>3, <3>1
    <3>3. f \in [S -> 1 .. i - 1]
      BY <3>2, <2>1
    <3>4. ToolCommon(keys, i - 1, j, S, f)
      BY <3>3, <2>1 DEF ToolCommon
    <3> QED BY <3>4 DEF ToolLongest
  <2> QED BY <2>2, <2>3
<1>5. ASSUME NEW S, NEW f, ToolCommon(keys, i, j, S, f) PROVE Scores!Cardinality(S) \in Nat
  <2>1. Scores!IsFiniteSet(1 .. j)
    BY ToolFS_Interval
  <2>2. S \in SUBSET (1 .. j)
    BY <1>5 DEF ToolCommon
  <2>3. Scores!IsFiniteSet(S)
    BY <2>1, <2>2, ToolFS_Subset
  <2> QED BY <2>3, ToolFS_CardinalityType
<1>6. ASSUME d > e PROVE ToolLongest(keys, i, j, d, way)
  <2>1. \A S, f : ToolCommon(keys, i, j, S, f) => Scores!Cardinality(S) <= d
    BY <1>1, <1>2, <1>4, <1>5, <1>6
  <2> QED BY <2>1, <1>1, <1>3 DEF ToolLongest
<1>7. ASSUME ~(d > e) PROVE ToolLongest(keys, i, j, e, oway)
  <2>1. \A S, f : ToolCommon(keys, i, j, S, f) => Scores!Cardinality(S) <= e
    BY <1>1, <1>2, <1>4, <1>5, <1>7
  <2> QED BY <2>1, <1>2, <1>3 DEF ToolLongest
<1> QED BY <1>6, <1>7

LEMMA ToolWayIsLongest ==
    ASSUME made \in Seq(Tools), NEW K, NEW keys \in Seq(K)
    PROVE  \E d : ToolLongest(keys, Len(made), Len(keys), d, Scores!Way(keys))
<1> DEFINE dp == Scores!Table(keys)
<1>1. dp = [p \in ToolGrid(keys) |-> ToolCell(dp, keys, p)]
  BY ToolTableIs
<1> HIDE DEF dp
<1>2. PICK way : /\ way = [p \in ToolGrid(keys) |-> ToolStep(way, dp, keys, p)]
                 /\ Scores!Way(keys) = way[<<Len(made), Len(keys)>>]
  BY ToolWayIs DEF dp
<1> DEFINE Good(p) == ToolLongest(keys, p[1], p[2], dp[p], way[p])
<1> DEFINE Bad == {s \in Nat : \E p \in ToolUntil(keys, s) : ~Good(p)}
<1>3. ASSUME Bad # {} PROVE FALSE
  <2>1. PICK m \in Bad : \A s \in Bad : m <= s
    BY <1>3, HasMin
  <2>2. m \in Nat /\ \E p \in ToolUntil(keys, m) : ~Good(p)
    OBVIOUS
  <2>3. m # 0
    BY <2>2, ToolUntilIs
  <2>4. PICK s \in Nat : m = s + 1
    <3>1. m - 1 \in Nat /\ m = (m - 1) + 1
      BY <2>2, <2>3
    <3> QED BY <3>1
  <2>5. s \notin Bad
    BY <2>1, <2>4
  <2>6. \A p \in ToolUntil(keys, s) : Good(p)
    BY <2>5
  <2>7. PICK p \in ToolUntil(keys, s + 1) : ~Good(p)
    BY <2>2, <2>4
  <2> HIDE DEF Bad, Good
  <2>8. p \in ToolGrid(keys)
    BY <2>7 DEF ToolUntil
  <2>9. PICK i, j \in Nat : p = <<i, j>> /\ p[1] = i /\ p[2] = j
    BY <2>8 DEF ToolGrid
  <2>10. dp[p] = ToolCell(dp, keys, p) /\ way[p] = ToolStep(way, dp, keys, p)
    BY <2>8, <1>1, <1>2
  <2>11. CASE i = 0 \/ j = 0
    <3>1. dp[p] = 0 /\ way[p] = {}
      BY <2>9, <2>10, <2>11 DEF ToolCell, ToolStep
    <3>2. Good(p)
      BY <3>1, <2>9, <2>11, ToolLongestOfNone DEF Good
    <3> QED BY <3>2, <2>7
  <2>12. CASE i # 0 /\ j # 0
    <3> DEFINE q == <<i - 1, j - 1>>  u == <<i - 1, j>>  l == <<i, j - 1>>
    <3>1. q \in ToolUntil(keys, s) /\ u \in ToolUntil(keys, s) /\ l \in ToolUntil(keys, s)
      BY <2>7, <2>9, <2>12, ToolUntilIs
    <3>2. ToolLongest(keys, i - 1, j - 1, dp[q], way[q])
      BY <3>1, <2>6 DEF Good
    <3>3. ToolLongest(keys, i - 1, j, dp[u], way[u])
      BY <3>1, <2>6 DEF Good
    <3>4. ToolLongest(keys, i, j - 1, dp[l], way[l])
      BY <3>1, <2>6 DEF Good
    <3>5. /\ dp[p] = IF Scores!MatchKey(made[i], keys[j]) THEN dp[q] + 1
                     ELSE IF dp[u] > dp[l] THEN dp[u] ELSE dp[l]
          /\ way[p] = IF Scores!MatchKey(made[i], keys[j]) THEN {<<i, j>>} \cup way[q]
                      ELSE IF dp[u] > dp[l] THEN way[u] ELSE way[l]
      BY <2>9, <2>10, <2>12 DEF ToolCell, ToolStep, Scores!Up
    <3> HIDE DEF q, u, l
    <3>6. CASE Scores!MatchKey(made[i], keys[j])
      <4>1. ToolLongest(keys, i, j, dp[q] + 1, {<<i, j>>} \cup way[q])
        BY <3>2, <3>6, <2>12, ToolLongestOfMatch
      <4> QED BY <4>1, <3>5, <3>6, <2>7, <2>9 DEF Good
    <3>7. CASE ~Scores!MatchKey(made[i], keys[j])
      <4>1. /\ dp[u] > dp[l] => ToolLongest(keys, i, j, dp[u], way[u])
            /\ ~(dp[u] > dp[l]) => ToolLongest(keys, i, j, dp[l], way[l])
        BY <3>3, <3>4, <3>7, <2>12, ToolLongestOfNoMatch
      <4>2. ToolLongest(keys, i, j, dp[p], way[p])
        BY <4>1, <3>5, <3>7
      <4> QED BY <4>2, <2>7, <2>9 DEF Good
    <3> QED BY <3>6, <3>7
  <2> QED BY <2>9, <2>11, <2>12
<1>4. PICK s \in Nat : ToolUntil(keys, s) = ToolGrid(keys)
  BY ToolUntilIs
<1>5. <<Len(made), Len(keys)>> \in ToolGrid(keys)
  BY DEF ToolGrid
<1>6. Good(<<Len(made), Len(keys)>>)
  BY <1>3, <1>4, <1>5
<1> QED BY <1>2, <1>6

-------------------------------------------------------------------------------
(***************************************************************************)
(* The most that calls can be found for.                                   *)
(***************************************************************************)
LEMMA ToolNoFewer ==
    ASSUME NEW S, NEW T, Scores!IsFiniteSet(T), NEW f \in [S -> T], \A a, b \in S : f[a] = f[b] => a = b
    PROVE  Scores!IsFiniteSet(S) /\ Scores!Cardinality(S) <= Scores!Cardinality(T)
<1>1. f \in Injection(S, T)
  BY DEF Injection, IsInjective
<1> QED BY <1>1, ToolFS_Injection

\* The largest of some sets of numbers up to n.
ToolLargest(n, possible) ==
    CHOOSE k \in 0 .. n : (\E S \in possible : Scores!Cardinality(S) = k)
        /\ \A S \in possible : Scores!Cardinality(S) <= k
LEMMA ToolLargestIs ==
    ASSUME NEW n \in Nat, NEW possible, possible \subseteq SUBSET (1 .. n), possible # {}
    PROVE  /\ ToolLargest(n, possible) \in 0 .. n
           /\ \E S \in possible : Scores!Cardinality(S) = ToolLargest(n, possible)
           /\ \A S \in possible : Scores!Cardinality(S) <= ToolLargest(n, possible)
<1>1. \A S \in possible : Scores!Cardinality(S) \in 0 .. n
  <2> SUFFICES ASSUME NEW S \in possible PROVE Scores!Cardinality(S) \in 0 .. n
    OBVIOUS
  <2>1. Scores!IsFiniteSet(1 .. n) /\ Scores!Cardinality(1 .. n) = n
    BY ToolFS_Interval
  <2>2. S \in SUBSET (1 .. n)
    OBVIOUS
  <2>3. Scores!IsFiniteSet(S) /\ Scores!Cardinality(S) <= Scores!Cardinality(1 .. n)
    BY <2>1, <2>2, ToolFS_Subset
  <2>4. Scores!Cardinality(S) \in Nat
    BY <2>3, ToolFS_CardinalityType
  <2> QED BY <2>1, <2>3, <2>4
<1> DEFINE sizes == {Scores!Cardinality(S) + 1 : S \in possible}
<1>2. sizes \subseteq 1 .. n + 1 /\ sizes # {}
  BY <1>1
<1>3. PICK m \in sizes : \A i \in sizes : i <= m
  <2> HIDE DEF sizes
  <2>1. n + 1 \in Nat
    OBVIOUS
  <2> QED BY <2>1, <1>2, HasMax
<1>4. PICK S \in possible : m = Scores!Cardinality(S) + 1
  BY <1>3
<1>5. \A T \in possible : Scores!Cardinality(T) + 1 <= Scores!Cardinality(S) + 1
  BY <1>3, <1>4
<1>6. \A T \in possible : Scores!Cardinality(T) <= Scores!Cardinality(S)
  BY <1>1, <1>5
<1>7. \E k \in 0 .. n : (\E T \in possible : Scores!Cardinality(T) = k)
          /\ \A T \in possible : Scores!Cardinality(T) <= k
  BY <1>1, <1>6
<1> QED BY <1>7 DEF ToolLargest

\* Pairs of a call and an expectation, which no two of them share.
ToolPaired(pairs, m, n) ==
    pairs \subseteq (1 .. m) \X (1 .. n) /\ \A p, q \in pairs : p # q => p[1] # q[1] /\ p[2] # q[2]
LEMMA ToolPairedIs ==
    ASSUME NEW m \in Nat, NEW n \in Nat, NEW pairs, ToolPaired(pairs, m, n)
    PROVE  \E S \in SUBSET (1 .. n) : \E f :
              /\ f \in [S -> 1 .. m] /\ \A o \in S : <<f[o], o>> \in pairs
              /\ Scores!IsFiniteSet(S) /\ Scores!IsFiniteSet(pairs)
              /\ Scores!Cardinality(S) = Scores!Cardinality(pairs)
<1> DEFINE S == {o \in 1 .. n : \E i \in 1 .. m : <<i, o>> \in pairs}
<1> DEFINE f == [o \in S |-> CHOOSE i \in 1 .. m : <<i, o>> \in pairs]
<1>1. \A o \in S : f[o] \in 1 .. m /\ <<f[o], o>> \in pairs
  OBVIOUS
<1>2. f \in [S -> 1 .. m]
  BY <1>1
<1>3. Scores!IsFiniteSet(S)
  <2>1. Scores!IsFiniteSet(1 .. n)
    BY ToolFS_Interval
  <2>2. S \in SUBSET (1 .. n)
    OBVIOUS
  <2> QED BY <2>1, <2>2, ToolFS_Subset
<1>4. \A p \in pairs : p[2] \in S /\ p = <<p[1], p[2]>>
  BY DEF ToolPaired
<1>5. Scores!IsFiniteSet(pairs) /\ Scores!Cardinality(pairs) <= Scores!Cardinality(S)
  <2> DEFINE g == [p \in pairs |-> p[2]]
  <2>1. g \in [pairs -> S]
    BY <1>4
  <2>2. \A p, q \in pairs : g[p] = g[q] => p = q
    BY DEF ToolPaired
  <2> HIDE DEF g, S
  <2> QED BY <2>1, <2>2, <1>3, ToolNoFewer
<1>6. Scores!Cardinality(S) <= Scores!Cardinality(pairs)
  <2> DEFINE h == [o \in S |-> <<f[o], o>>]
  <2>1. h \in [S -> pairs]
    BY <1>1
  <2>2. \A o, r \in S : h[o] = h[r] => o = r
    OBVIOUS
  <2> HIDE DEF h, S
  <2> QED BY <2>1, <2>2, <1>5, ToolNoFewer
<1>7. Scores!Cardinality(S) = Scores!Cardinality(pairs)
  BY <1>3, <1>5, <1>6, ToolFS_CardinalityType
<1>8. S \in SUBSET (1 .. n)
  OBVIOUS
<1> HIDE DEF S, f
<1> QED BY <1>1, <1>2, <1>3, <1>5, <1>7, <1>8

-------------------------------------------------------------------------------
(***************************************************************************)
(* The order of the calls.                                                 *)
(***************************************************************************)
LEMMA ToolKeysAre ==
    ASSUME NEW wanted \in Seq(ExpectedCalls)
    PROVE  /\ Scores!KeysOf(wanted) \in Seq({Scores!Key(w) : w \in ExpectedCalls})
              /\ Len(Scores!KeysOf(wanted)) = Len(wanted)
           /\ DOMAIN Scores!KeysOf(wanted) = 1 .. Len(wanted)
              /\ \A i \in 1 .. Len(wanted) : Scores!KeysOf(wanted)[i] = Scores!Key(wanted[i])
<1>1. DOMAIN wanted = 1 .. Len(wanted) /\ Len(wanted) \in Nat
  OBVIOUS
<1>2. \A i \in 1 .. Len(wanted) : wanted[i] \in ExpectedCalls
  OBVIOUS
<1>3. Scores!KeysOf(wanted) = [i \in 1 .. Len(wanted) |-> Scores!Key(wanted[i])]
  BY <1>1 DEF Scores!KeysOf
<1>4. Scores!KeysOf(wanted) \in [1 .. Len(wanted) -> {Scores!Key(w) : w \in ExpectedCalls}]
  BY <1>2, <1>3
<1> QED BY <1>1, <1>3, <1>4

ToolOrderPossible ==
    {S \in SUBSET DOMAIN score.wanted :
        {f \in [S -> DOMAIN made] :
            \A n \in S : /\ Scores!MatchKey(made[f[n]], Scores!Key(score.wanted[n]))
                         /\ \A o \in S : o < n => f[o] # f[n] /\ (TRUE => f[o] < f[n])} # {}}

LEMMA ToolOrderIsLongest ==
    ASSUME made \in Seq(Tools), NEW wanted \in Seq(ExpectedCalls),
               score = Scores!Scored("order", wanted, FALSE, Scores!Way(Scores!KeysOf(wanted)))
    PROVE  Scores!LongestFound
<1> DEFINE keys == Scores!KeysOf(wanted)
<1>0. PICK m, n \in Nat : m = Len(made) /\ n = Len(wanted) /\ DOMAIN made = 1 .. m /\ DOMAIN wanted = 1 .. n
  OBVIOUS
<1>1. Len(keys) = n /\ \A i \in 1 .. n : keys[i] = Scores!Key(wanted[i])
  BY <1>0, ToolKeysAre
<1>2. PICK d : ToolLongest(keys, m, n, d, Scores!Way(keys))
  <2>1. keys \in Seq({Scores!Key(w) : w \in ExpectedCalls})
    BY ToolKeysAre
  <2> HIDE DEF keys
  <2> QED BY <2>1, <1>0, <1>1, ToolWayIsLongest
<1>3. score.of = "order" /\ score.wanted = wanted /\ score.strict = FALSE /\ score.pairs = Scores!Way(keys)
  BY DEF Scores!Scored
<1> HIDE DEF keys
<1>4. d \in Nat /\ Scores!Cardinality(Scores!Way(keys)) = d /\ ToolFound(keys, m, n, Scores!Way(keys))
  BY <1>2 DEF ToolLongest
<1>5. ToolOrderPossible \subseteq SUBSET (1 .. n)
  BY <1>0, <1>3 DEF ToolOrderPossible
<1>6. \A S \in ToolOrderPossible : Scores!Cardinality(S) <= d
  <2> SUFFICES ASSUME NEW S \in ToolOrderPossible PROVE Scores!Cardinality(S) <= d
    OBVIOUS
  <2>1. S \subseteq 1 .. n
    BY <1>5
  <2>2. PICK f \in [S -> 1 .. m] : \A o \in S : /\ Scores!MatchKey(made[f[o]], Scores!Key(wanted[o]))
                                                /\ \A r \in S : r < o => f[r] < f[o]
    BY <1>0, <1>3 DEF ToolOrderPossible
  <2>3. ToolCommon(keys, m, n, S, f)
    BY <2>1, <2>2, <1>1 DEF ToolCommon
  <2> QED BY <2>3, <1>2 DEF ToolLongest
<1>7. \E S \in ToolOrderPossible : Scores!Cardinality(S) = d
  <2>1. ToolPaired(Scores!Way(keys), m, n)
    <3>1. Scores!Way(keys) \subseteq (1 .. m) \X (1 .. n)
              /\ \A a, b \in Scores!Way(keys) : a[1] < b[1] <=> a[2] < b[2]
      BY <1>4 DEF ToolFound
    <3>2. \A a \in Scores!Way(keys) : a = <<a[1], a[2]>> /\ a[1] \in Nat /\ a[2] \in Nat
      BY <3>1
    <3>3. ASSUME NEW a \in Scores!Way(keys), NEW b \in Scores!Way(keys), a # b PROVE a[1] # b[1] /\ a[2] # b[2]
      <4>1. a[1] # b[1] \/ a[2] # b[2]
        BY <3>2, <3>3
      <4> QED BY <4>1, <3>1, <3>2
    <3> QED BY <3>1, <3>3 DEF ToolPaired
  <2>2. PICK S, f : /\ S \in SUBSET (1 .. n) /\ f \in [S -> 1 .. m]
                    /\ \A o \in S : <<f[o], o>> \in Scores!Way(keys)
                    /\ Scores!Cardinality(S) = Scores!Cardinality(Scores!Way(keys))
    BY <2>1, ToolPairedIs
  <2>3. \A o \in S : Scores!MatchKey(made[f[o]], Scores!Key(wanted[o]))
    BY <2>2, <1>1, <1>4 DEF ToolFound
  <2>4. \A o, r \in S : r < o => f[r] # f[o] /\ f[r] < f[o]
    <3>1. \A o, r \in S : r < o => f[r] < f[o]
      BY <2>2, <1>4 DEF ToolFound
    <3>2. \A o \in S : f[o] \in Nat
      BY <2>2
    <3> QED BY <3>1, <3>2
  <2>5. S \in ToolOrderPossible
    BY <2>2, <2>3, <2>4, <1>0, <1>3 DEF ToolOrderPossible
  <2> QED BY <2>2, <2>5, <1>4
<1>8. ToolLargest(n, ToolOrderPossible) = d
  <2>1. ToolOrderPossible # {}
    BY <1>7
  <2>2. /\ ToolLargest(n, ToolOrderPossible) \in 0 .. n
        /\ \E S \in ToolOrderPossible : Scores!Cardinality(S) = ToolLargest(n, ToolOrderPossible)
        /\ \A S \in ToolOrderPossible : Scores!Cardinality(S) <= ToolLargest(n, ToolOrderPossible)
    BY <1>5, <2>1, ToolLargestIs
  <2> QED BY <2>2, <1>4, <1>6, <1>7
<1>9. \A p, q \in score.pairs :
         Scores!MatchKey(made[p[1]], Scores!Key(score.wanted[p[2]])) /\ (p[1] < q[1] <=> p[2] < q[2])
  <2>1. \A p \in Scores!Way(keys) : Scores!MatchKey(made[p[1]], keys[p[2]]) /\ p[2] \in 1 .. n
    BY <1>4 DEF ToolFound
  <2>2. \A p \in Scores!Way(keys) : Scores!MatchKey(made[p[1]], Scores!Key(wanted[p[2]]))
    BY <2>1, <1>1
  <2>3. \A p, q \in Scores!Way(keys) : p[1] < q[1] <=> p[2] < q[2]
    BY <1>4 DEF ToolFound
  <2> QED BY <2>2, <2>3, <1>3
<1>10. Scores!Hits = ToolLargest(Len(score.wanted), ToolOrderPossible)
  BY <1>0, <1>3, <1>4, <1>8 DEF Scores!Hits
<1> QED BY <1>3, <1>9, <1>10
           DEF Scores!LongestFound, Scores!Best, Scores!Assignments, ToolLargest, ToolOrderPossible

LEMMA ToolValueIs ==
    ASSUME NEW h \in Nat, NEW n \in Nat, NEW a, NEW b, <<a, b>> = Scores!Value(h, n)
    PROVE  a = b <=> (made = <<>> /\ n = 0) \/ (made # <<>> /\ n # 0 /\ h = n)
BY DEF Scores!Value
LEMMA ToolFullIs ==
    ASSUME NEW h \in Nat, NEW n \in Nat, score.value = Scores!Value(h, n)
    PROVE  Scores!Full <=> (made = <<>> /\ n = 0) \/ (made # <<>> /\ n # 0 /\ h = n)
<1>1. \E a, b : <<a, b>> = Scores!Value(h, n)
  BY DEF Scores!Value
<1>2. PICK a, b : <<a, b>> = Scores!Value(h, n)
  BY <1>1
<1>3. score.value[1] = a /\ score.value[2] = b
  BY <1>2
<1> QED BY <1>2, <1>3, ToolValueIs DEF Scores!Full

LEMMA ToolOrderIsExact ==
    ASSUME made \in Seq(Tools), NEW wanted \in Seq(ExpectedCalls),
           score = Scores!Scored("order", wanted, TRUE, Scores!OrderPairs(Scores!KeysOf(wanted), TRUE))
    PROVE  Scores!LongestFound
<1> DEFINE keys == Scores!KeysOf(wanted)
<1>0. PICK n \in Nat : n = Len(wanted) /\ DOMAIN keys = 1 .. n /\ Len(keys) = n
  <2>1. Len(wanted) \in Nat
    OBVIOUS
  <2> QED BY <2>1, ToolKeysAre
<1>1. score.of = "order" /\ score.wanted = wanted /\ score.strict = TRUE
                            /\ score.pairs = Scores!OrderPairs(keys, TRUE)
      /\ score.value = Scores!Value(Scores!Hits, n)
  BY <1>0 DEF Scores!Scored, Scores!Hits
<1> HIDE DEF keys
<1>2. Scores!Hits = IF Scores!InOrder(keys) THEN n ELSE 0
  <2>1. CASE Scores!InOrder(keys)
    <3>1. score.pairs = {<<i, i>> : i \in 1 .. n}
      BY <2>1, <1>0, <1>1 DEF Scores!OrderPairs
    <3>2. Scores!IsFiniteSet(1 .. n) /\ Scores!Cardinality(1 .. n) = n
      BY ToolFS_Interval
    <3> DEFINE f == [i \in 1 .. n |-> <<i, i>>]
    <3>3. f \in Bijection(1 .. n, score.pairs)
      <4>1. f \in [1 .. n -> score.pairs] /\ \A i, j \in 1 .. n : f[i] = f[j] => i = j
        BY <3>1
      <4>2. \A t \in score.pairs : \E s \in 1 .. n : f[s] = t
        BY <3>1
      <4> QED BY <4>1, <4>2 DEF Bijection, Injection, Surjection, IsInjective
    <3>4. Scores!Cardinality(score.pairs) = n
      BY <3>2, <3>3, ToolFS_Bijection DEF ExistsBijection
    <3> QED BY <3>4, <2>1 DEF Scores!Hits
  <2>2. CASE ~Scores!InOrder(keys)
    BY <2>2, <1>1, ToolFS_EmptySet DEF Scores!OrderPairs, Scores!Hits
  <2> QED BY <2>1, <2>2
<1>a. Len(made) \in Nat /\ (made = <<>> <=> Len(made) = 0)
  OBVIOUS
<1>b. Scores!InOrder(keys) => Len(made) = n
  BY <1>0 DEF Scores!InOrder
<1>c. made = <<>> /\ n = 0 => Scores!InOrder(keys)
  BY <1>a, <1>0 DEF Scores!InOrder
<1>f. Scores!Full <=> (made = <<>> /\ n = 0) \/ (made # <<>> /\ n # 0 /\ Scores!Hits = n)
  <2>1. Scores!Hits \in Nat
    BY <1>2
  <2> QED BY <1>1, <2>1, ToolFullIs
<1>g. ASSUME Scores!InOrder(keys) PROVE Scores!Full
  BY <1>g, <1>2, <1>a, <1>b, <1>f
<1>h. ASSUME Scores!Full PROVE Scores!InOrder(keys)
  BY <1>h, <1>2, <1>a, <1>c, <1>f
<1>3. Scores!Full <=> Scores!InOrder(keys)
  BY <1>g, <1>h
<1>4. Scores!Hits \in {0, Len(score.wanted)}
  BY <1>0, <1>1, <1>2
<1> QED BY <1>1, <1>3, <1>4 DEF Scores!LongestFound, keys

-------------------------------------------------------------------------------
(***************************************************************************)
(* Expectations that take one call after the other.                        *)
(***************************************************************************)
ToolSteady(n, U, next) == \A k \in 1 .. n, u \in U : next[<<k, u>>] \in U
ToolRecursive(n, U, next, t) ==
    t \in [0 .. n -> U] /\ t[0] = {} /\ \A k \in 1 .. n : t[k] = next[<<k, t[k - 1]>>]
LEMMA ToolRecursion ==
    ASSUME NEW n \in Nat, NEW U, {} \in U, NEW next, ToolSteady(n, U, next)
    PROVE  \E t : ToolRecursive(n, U, next, t)
<1>0. \A k \in 1 .. n, u \in U : next[<<k, u>>] \in U
  BY DEF ToolSteady
<1> DEFINE Has(k) == \E t \in [0 .. k -> U] : t[0] = {} /\ \A j \in 1 .. k : t[j] = next[<<j, t[j - 1]>>]
<1> DEFINE Bad == {k \in 0 .. n : ~Has(k)}
<1>1. ASSUME Bad # {} PROVE FALSE
  <2>1. PICK k \in Bad : \A j \in Bad : k <= j
    <3>1. Bad \subseteq Nat
      OBVIOUS
    <3> HIDE DEF Bad
    <3> QED BY <3>1, <1>1, HasMin
  <2>2. k \in 0 .. n /\ ~Has(k)
    OBVIOUS
  <2>3. Has(0)
    <3> DEFINE t == [j \in 0 .. 0 |-> {}]
    <3>1. t \in [0 .. 0 -> U] /\ t[0] = {} /\ \A j \in 1 .. 0 : t[j] = next[<<j, t[j - 1]>>]
      OBVIOUS
    <3> QED BY <3>1
  <2>4. k # 0 /\ k - 1 \in 0 .. n /\ k \in 1 .. n
    <3> HIDE DEF Has
    <3>1. k # 0
      BY <2>2, <2>3
    <3> QED BY <2>2, <3>1
  <2>5. k - 1 \notin Bad
    <3> HIDE DEF Bad
    <3> QED BY <2>1, <2>4
  <2>6. PICK t \in [0 .. k - 1 -> U] : t[0] = {} /\ \A j \in 1 .. k - 1 : t[j] = next[<<j, t[j - 1]>>]
    BY <2>4, <2>5
  <2> HIDE DEF Bad
  <2> DEFINE s == [j \in 0 .. k |-> IF j = k THEN next[<<k, t[k - 1]>>] ELSE t[j]]
  <2>7. t[k - 1] \in U
    BY <2>4, <2>6
  <2>8. next[<<k, t[k - 1]>>] \in U
    BY <2>4, <2>7, <1>0
  <2>9. \A j \in 0 .. k : j # k => j \in 0 .. k - 1
    BY <2>4
  <2>10. s \in [0 .. k -> U]
    BY <2>8, <2>9, <2>6
  <2>11. \A j \in 0 .. k - 1 : s[j] = t[j]
    BY <2>4
  <2>12. s[k] = next[<<k, t[k - 1]>>]
    BY <2>4
  <2> HIDE DEF s
  <2>13. s[0] = {}
    BY <2>4, <2>6, <2>11
  <2>14. ASSUME NEW j \in 1 .. k PROVE s[j] = next[<<j, s[j - 1]>>]
    <3>1. s[j - 1] = t[j - 1]
      BY <2>4, <2>11
    <3>2. CASE j = k
      BY <3>1, <3>2, <2>12
    <3>3. CASE j # k
      <4>1. j \in 1 .. k - 1
        BY <3>3, <2>4
      <4>2. j \in 0 .. k - 1
        BY <4>1
      <4> QED BY <4>1, <4>2, <3>1, <2>6, <2>11
    <3> QED BY <3>2, <3>3
  <2>15. Has(k)
    BY <2>10, <2>13, <2>14
  <2> QED BY <2>2, <2>15
<1>2. n \in 0 .. n
  OBVIOUS
<1>3. Has(n)
  BY <1>1, <1>2
<1> QED BY <1>3 DEF ToolRecursive

\* Expectation k takes a call that is left and ok, or none.
ToolTakes(t, k, m, ok) ==
    \/ t[k] = t[k - 1]
    \/ \E i \in 1 .. m : <<i, k>> \in ok /\ (\A p \in t[k - 1] : p[1] # i) /\ t[k] = t[k - 1] \cup {<<i, k>>}
ToolSkips(t, k, m, ok) ==
    \/ \A i \in 1 .. m : <<i, k>> \in ok => \E p \in t[k - 1] : p[1] = i
    \/ \E i \in 1 .. m : <<i, k>> \in t[k]
LEMMA ToolTakingIs ==
    ASSUME NEW m \in Nat, NEW n \in Nat, NEW ok, NEW t, t[0] = {}, \A k \in 1 .. n : ToolTakes(t, k, m, ok)
    PROVE  /\ ToolPaired(t[n], m, n) /\ t[n] \subseteq ok
           /\ (\A k \in 1 .. n : ToolSkips(t, k, m, ok)) =>
                 \A i \in 1 .. m, k \in 1 .. n : <<i, k>> \in ok => \E p \in t[n] : p[1] = i \/ p[2] = k
<1> DEFINE All == \A k \in 1 .. n : ToolSkips(t, k, m, ok)
<1> DEFINE Nothing(k) == \A i \in 1 .. m, j \in 1 .. k : <<i, j>> \in ok => \E p \in t[k] : p[1] = i \/ p[2] = j
<1> DEFINE Good(k) == ToolPaired(t[k], m, k) /\ t[k] \subseteq ok /\ (All => Nothing(k))
<1> DEFINE Bad == {k \in 0 .. n : ~Good(k)}
<1>1. ASSUME Bad # {} PROVE FALSE
  <2>1. PICK k \in Bad : \A j \in Bad : k <= j
    <3>1. Bad \subseteq Nat
      OBVIOUS
    <3> HIDE DEF Bad
    <3> QED BY <3>1, <1>1, HasMin
  <2>2. k \in 0 .. n /\ ~Good(k)
    OBVIOUS
  <2>3. Good(0)
    BY DEF ToolPaired
  <2>4. k # 0 /\ k - 1 \in 0 .. n /\ k \in 1 .. n
    BY <2>2, <2>3
  <2>5. Good(k - 1)
    BY <2>1, <2>4
  <2> HIDE DEF Bad
  <2>6. ToolTakes(t, k, m, ok)
    BY <2>4
  <2>7. ToolPaired(t[k - 1], m, k - 1) /\ t[k - 1] \subseteq ok
    BY <2>5
  <2>8. \A p \in t[k - 1] : p \in (1 .. m) \X (1 .. k) /\ p[2] # k
    <3>1. \A p \in t[k - 1] : p \in (1 .. m) \X (1 .. k - 1)
      BY <2>7 DEF ToolPaired
    <3> QED BY <3>1, <2>4
  <2>9. t[k - 1] \subseteq t[k]
    BY <2>6 DEF ToolTakes
  <2>10. ToolPaired(t[k], m, k) /\ t[k] \subseteq ok
    <3>1. CASE t[k] = t[k - 1]
      BY <3>1, <2>7, <2>8 DEF ToolPaired
    <3>2. ASSUME NEW i \in 1 .. m, <<i, k>> \in ok, \A p \in t[k - 1] :
                     p[1] # i, t[k] = t[k - 1] \cup {<<i, k>>}
          PROVE  ToolPaired(t[k], m, k) /\ t[k] \subseteq ok
      <4>1. t[k] \subseteq (1 .. m) \X (1 .. k) /\ t[k] \subseteq ok
        BY <3>2, <2>7, <2>8, <2>4
      <4>2. \A p, q \in t[k - 1] : p # q => p[1] # q[1] /\ p[2] # q[2]
        BY <2>7 DEF ToolPaired
      <4>3. \A p \in t[k] : p \in t[k - 1] \/ p = <<i, k>>
        BY <3>2
      <4>4. \A p, q \in t[k] : p # q => p[1] # q[1] /\ p[2] # q[2]
        <5> SUFFICES ASSUME NEW p \in t[k], NEW q \in t[k], p # q PROVE p[1] # q[1] /\ p[2] # q[2]
          OBVIOUS
        <5>1. CASE p \in t[k - 1] /\ q \in t[k - 1]
          BY <5>1, <4>2
        <5>2. CASE p \in t[k - 1] /\ q = <<i, k>>
          BY <5>2, <3>2, <2>8
        <5>3. CASE p = <<i, k>> /\ q \in t[k - 1]
          BY <5>3, <3>2, <2>8
        <5> QED BY <5>1, <5>2, <5>3, <4>3
      <4> QED BY <4>1, <4>4 DEF ToolPaired
    <3> QED BY <3>1, <3>2, <2>6 DEF ToolTakes
  <2>11. ASSUME All PROVE Nothing(k)
    <3> SUFFICES ASSUME NEW i \in 1 .. m, NEW j \in 1 .. k, <<i, j>> \in ok
                 PROVE  \E p \in t[k] : p[1] = i \/ p[2] = j
      OBVIOUS
    <3>1. CASE j = k
      <4>1. ToolSkips(t, k, m, ok)
        BY <2>11, <2>4
      <4>2. CASE \E p \in t[k - 1] : p[1] = i
        BY <4>2, <2>9
      <4>3. CASE \E l \in 1 .. m : <<l, k>> \in t[k]
        BY <4>3, <3>1
      <4> QED BY <4>1, <4>2, <4>3, <3>1 DEF ToolSkips
    <3>2. CASE j # k
      <4>1. j \in 1 .. k - 1
        BY <3>2, <2>4
      <4>2. \E p \in t[k - 1] : p[1] = i \/ p[2] = j
        BY <4>1, <2>5, <2>11
      <4> QED BY <4>2, <2>9
    <3> QED BY <3>1, <3>2
  <2>12. Good(k)
    BY <2>10, <2>11
  <2> QED BY <2>2, <2>12
<1>2. n \in 0 .. n
  OBVIOUS
<1>3. Good(n)
  BY <1>1, <1>2
<1> QED BY <1>3

LEMMA ToolLeastIs ==
    ASSUME NEW S, S \subseteq Nat, S # {}
    PROVE  Scores!Least(S) \in S
<1>1. \E i \in S : \A j \in S : i <= j
  BY HasMin
<1> QED BY <1>1 DEF Scores!Least

-------------------------------------------------------------------------------
(***************************************************************************)
(* The arguments of the calls.                                             *)
(***************************************************************************)
ToolTakeArgs(wanted, t, n) ==
    LET left == {i \in DOMAIN made \ Scores!Visited(t) : Scores!CallsMatch(made[i], wanted[n])
        /\ Scores!Fits(made[i], wanted[n])}
    IN  t \cup IF left = {} THEN {} ELSE {<<Scores!Least(left), n>>}

LEMMA ToolArgsAre ==
    ASSUME made \in Seq(Tools), NEW wanted \in Seq(ExpectedCalls)
    PROVE  \E t : /\ t[0] = {} /\ \A k \in 1 .. Len(wanted) : t[k] = ToolTakeArgs(wanted, t[k - 1], k)
                  /\ Scores!ArgsPairs(wanted) = t[Len(wanted)]
<1>0. PICK m, n \in Nat : m = Len(made) /\ n = Len(wanted) /\ DOMAIN made = 1 .. m
  OBVIOUS
<1> DEFINE U == SUBSET ((1 .. m) \X (1 .. n))
<1> DEFINE next == [x \in (1 .. n) \X U |-> ToolTakeArgs(wanted, x[2], x[1])]
<1>1. ASSUME NEW k \in 1 .. n, NEW u \in U PROVE ToolTakeArgs(wanted, u, k) \in U
  <2> DEFINE left == {i \in DOMAIN made \ Scores!Visited(u) : Scores!CallsMatch(made[i], wanted[k])
                 /\ Scores!Fits(made[i], wanted[k])}
  <2>1. left \subseteq 1 .. m
    BY <1>0
  <2>2. left # {} => Scores!Least(left) \in 1 .. m
    <3> HIDE DEF left
    <3>1. left \subseteq Nat
      BY <2>1
    <3> QED BY <3>1, <2>1, ToolLeastIs
  <2>3. ToolTakeArgs(wanted, u, k) = u \cup IF left = {} THEN {} ELSE {<<Scores!Least(left), k>>}
    BY DEF ToolTakeArgs
  <2> HIDE DEF left
  <2> QED BY <2>2, <2>3
<1>2. ToolSteady(n, U, next)
  <2> HIDE DEF U
  <2> QED BY <1>1 DEF ToolSteady
<1>3. {} \in U
  OBVIOUS
<1>a. PICK t : ToolRecursive(n, U, next, t)
  <2> HIDE DEF U, next
  <2> QED BY <1>2, <1>3, ToolRecursion
<1>4. t \in [0 .. n -> U] /\ t[0] = {} /\ \A k \in 1 .. n : t[k] = next[<<k, t[k - 1]>>]
  <2> HIDE DEF U, next
  <2> QED BY <1>a DEF ToolRecursive
<1>5. \A k \in 1 .. n : t[k] = ToolTakeArgs(wanted, t[k - 1], k)
  <2> HIDE DEF U
  <2>1. \A k \in 1 .. n : t[k - 1] \in U
    BY <1>4
  <2> QED BY <1>4, <2>1
<1>6. t = [k \in 0 .. n |-> IF k = 0 THEN {} ELSE ToolTakeArgs(wanted, t[k - 1], k)]
  <2>1. \A k \in 0 .. n : t[k] = IF k = 0 THEN {} ELSE ToolTakeArgs(wanted, t[k - 1], k)
    BY <1>4, <1>5
  <2> HIDE DEF U, next
  <2> QED BY <2>1, <1>4
<1> DEFINE s == CHOOSE f : f = [k \in 0 .. n |-> IF k = 0 THEN {} ELSE ToolTakeArgs(wanted, f[k - 1], k)]
<1>7. s = [k \in 0 .. n |-> IF k = 0 THEN {} ELSE ToolTakeArgs(wanted, s[k - 1], k)]
  <2>1. \E f : f = [k \in 0 .. n |-> IF k = 0 THEN {} ELSE ToolTakeArgs(wanted, f[k - 1], k)]
    BY <1>6
  <2> QED BY <2>1
<1>8. Scores!ArgsPairs(wanted) = s[Len(wanted)]
  BY <1>0 DEF Scores!ArgsPairs, ToolTakeArgs
<1> HIDE DEF s
<1>9. s[0] = {} /\ \A k \in 1 .. n : s[k] = ToolTakeArgs(wanted, s[k - 1], k)
  <2>1. \A k \in 0 .. n : s[k] = IF k = 0 THEN {} ELSE ToolTakeArgs(wanted, s[k - 1], k)
    BY <1>7
  <2>2. 0 \in 0 .. n /\ \A k \in 1 .. n : k \in 0 .. n /\ k # 0
    OBVIOUS
  <2> QED BY <2>1, <2>2
<1> QED BY <1>0, <1>8, <1>9

ToolArgsFit(wanted) ==
    UNION {{<<i, n>> : n \in {k \in DOMAIN wanted : Scores!CallsMatch(made[i], wanted[k])
        /\ Scores!Fits(made[i], wanted[k])}} :
              i \in DOMAIN made}
LEMMA ToolArgsFitIs ==
    ASSUME NEW wanted, NEW i \in DOMAIN made, NEW n \in DOMAIN wanted
    PROVE  <<i, n>> \in ToolArgsFit(wanted) <=> Scores!CallsMatch(made[i], wanted[n])
               /\ Scores!Fits(made[i], wanted[n])
BY DEF ToolArgsFit

LEMMA ToolArgsArePaired ==
    ASSUME made \in Seq(Tools), NEW wanted \in Seq(ExpectedCalls)
    PROVE  /\ ToolPaired(Scores!ArgsPairs(wanted), Len(made), Len(wanted))
              /\ Scores!ArgsPairs(wanted) \subseteq ToolArgsFit(wanted)
           /\ \A i \in DOMAIN made, k \in DOMAIN wanted : <<i, k>> \in ToolArgsFit(wanted) =>
                 \E p \in Scores!ArgsPairs(wanted) : p[1] = i \/ p[2] = k
<1>0. PICK m, n \in Nat : m = Len(made) /\ n = Len(wanted) /\ DOMAIN made = 1 .. m /\ DOMAIN wanted = 1 .. n
  OBVIOUS
<1>1. PICK t : /\ t[0] = {} /\ \A k \in 1 .. n : t[k] = ToolTakeArgs(wanted, t[k - 1], k)
               /\ Scores!ArgsPairs(wanted) = t[n]
  BY <1>0, ToolArgsAre
<1> DEFINE ok == ToolArgsFit(wanted)
<1>2. ASSUME NEW k \in 1 .. n PROVE ToolTakes(t, k, m, ok) /\ ToolSkips(t, k, m, ok)
  <2> DEFINE left == {i \in DOMAIN made \ Scores!Visited(t[k - 1]) : Scores!CallsMatch(made[i], wanted[k])
                 /\ Scores!Fits(made[i], wanted[k])}
  <2>1. t[k] = t[k - 1] \cup IF left = {} THEN {} ELSE {<<Scores!Least(left), k>>}
    BY <1>1 DEF ToolTakeArgs
  <2>2. \A i \in left : i \in 1 .. m /\ <<i, k>> \in ok /\ \A p \in t[k - 1] : p[1] # i
    BY <1>0, ToolArgsFitIs DEF Scores!Visited
  <2>3. \A i \in 1 .. m : <<i, k>> \in ok => i \in left \/ \E p \in t[k - 1] : p[1] = i
    BY <1>0, ToolArgsFitIs DEF Scores!Visited
  <2>4. left \subseteq Nat
    BY <2>2
  <2> HIDE DEF left, ok
  <2>5. CASE left = {}
    BY <2>5, <2>1, <2>3 DEF ToolTakes, ToolSkips
  <2>6. CASE left # {}
    <3>1. Scores!Least(left) \in left
      BY <2>4, <2>6, ToolLeastIs
    <3>2. t[k] = t[k - 1] \cup {<<Scores!Least(left), k>>}
      BY <2>1, <2>6
    <3>3. ToolTakes(t, k, m, ok)
      BY <3>1, <3>2, <2>2 DEF ToolTakes
    <3>4. <<Scores!Least(left), k>> \in t[k] /\ Scores!Least(left) \in 1 .. m
      BY <3>1, <3>2, <2>2
    <3> QED BY <3>3, <3>4 DEF ToolSkips
  <2> QED BY <2>5, <2>6
<1>3. /\ ToolPaired(t[n], m, n) /\ t[n] \subseteq ok
      /\ \A i \in 1 .. m, k \in 1 .. n : <<i, k>> \in ok => \E p \in t[n] : p[1] = i \/ p[2] = k
  <2> HIDE DEF ok
  <2> QED BY <1>1, <1>2, ToolTakingIs
<1> QED BY <1>0, <1>1, <1>3

ToolArgsScored(wanted, strict, subset) ==
    [of |-> "args", wanted |-> wanted, strict |-> strict, subset |-> subset, taken |-> Scores!ArgsPairs(wanted),
     pairs |-> Scores!AllOf(wanted, strict, Scores!ArgsPairs(wanted)),
     value |-> Scores!Value(Scores!Cardinality(Scores!AllOf(wanted, strict, Scores!ArgsPairs(wanted))),
         Len(wanted))]
LEMMA ToolArgsOverlookNothing ==
    ASSUME made \in Seq(Tools), NEW wanted \in Seq(ExpectedCalls), NEW strict \in BOOLEAN, NEW subset \in BOOLEAN,
           score = ToolArgsScored(wanted, strict, subset)
    PROVE  Scores!NothingOverlooked
<1>1. score.of = "args" /\ score.wanted = wanted /\ score.strict = strict
                           /\ score.taken = Scores!ArgsPairs(wanted)
      /\ score.pairs = Scores!AllOf(wanted, strict, Scores!ArgsPairs(wanted))
  BY DEF ToolArgsScored
<1>2. /\ ToolPaired(Scores!ArgsPairs(wanted), Len(made), Len(wanted))
      /\ \A i \in DOMAIN made, k \in DOMAIN wanted : <<i, k>> \in ToolArgsFit(wanted) =>
            \E p \in Scores!ArgsPairs(wanted) : p[1] = i \/ p[2] = k
  BY ToolArgsArePaired
<1>3. \A p, q \in score.taken : p # q => p[1] # q[1] /\ p[2] # q[2]
  BY <1>1, <1>2 DEF ToolPaired
<1>4. \A i \in DOMAIN made, n \in DOMAIN score.wanted :
         Scores!CallsMatch(made[i], score.wanted[n]) /\ Scores!Fits(made[i], score.wanted[n])
            => \E p \in score.taken : p[1] = i \/ p[2] = n
  <2> SUFFICES ASSUME NEW i \in DOMAIN made, NEW n \in DOMAIN wanted,
                      Scores!CallsMatch(made[i], wanted[n]), Scores!Fits(made[i], wanted[n])
               PROVE  \E p \in Scores!ArgsPairs(wanted) : p[1] = i \/ p[2] = n
    BY <1>1
  <2>1. <<i, n>> \in ToolArgsFit(wanted)
    BY ToolArgsFitIs
  <2> QED BY <2>1, <1>2
<1>5. score.strict => Scores!Hits \in {0, Len(score.wanted)}
  <2>1. strict => Scores!Cardinality(Scores!AllOf(wanted, strict, Scores!ArgsPairs(wanted))) \in {0,
            Len(wanted)}
    BY ToolFS_EmptySet DEF Scores!AllOf
  <2> QED BY <2>1, <1>1 DEF Scores!Hits
<1> QED BY <1>3, <1>4, <1>5 DEF Scores!NothingOverlooked

-------------------------------------------------------------------------------
(***************************************************************************)
(* The outputs of the calls.                                               *)
(***************************************************************************)
ToolTakeOutput(wanted, strict, t, n) ==
    LET left == {i \in DOMAIN made \ Scores!Visited(t) : Scores!CallsMatch(made[i], wanted[n])}
        open == IF strict /\ left # {} THEN {Scores!Least(left)} ELSE left
        equal == {i \in open : Scores!Equal(made[i], wanted[n])}
    IN  t \cup IF equal = {} THEN {} ELSE {<<Scores!Least(equal), n>>}

LEMMA ToolOutputsAre ==
    ASSUME made \in Seq(Tools), NEW wanted \in Seq(ExpectedCalls), NEW strict \in BOOLEAN
    PROVE  \E t : /\ t[0] = {} /\ \A k \in 1 .. Len(wanted) : t[k] = ToolTakeOutput(wanted, strict, t[k - 1], k)
                  /\ Scores!OutputPairs(wanted, strict) = t[Len(wanted)]
<1>0. PICK m, n \in Nat : m = Len(made) /\ n = Len(wanted) /\ DOMAIN made = 1 .. m
  OBVIOUS
<1> DEFINE U == SUBSET ((1 .. m) \X (1 .. n))
<1> DEFINE next == [x \in (1 .. n) \X U |-> ToolTakeOutput(wanted, strict, x[2], x[1])]
<1>1. ASSUME NEW k \in 1 .. n, NEW u \in U PROVE ToolTakeOutput(wanted, strict, u, k) \in U
  <2> DEFINE left == {i \in DOMAIN made \ Scores!Visited(u) : Scores!CallsMatch(made[i], wanted[k])}
  <2> DEFINE open == IF strict /\ left # {} THEN {Scores!Least(left)} ELSE left
  <2> DEFINE equal == {i \in open : Scores!Equal(made[i], wanted[k])}
  <2>1. left \subseteq 1 .. m
    BY <1>0
  <2>2. open \subseteq 1 .. m
    <3> HIDE DEF left
    <3>1. left \subseteq Nat
      BY <2>1
    <3> QED BY <3>1, <2>1, ToolLeastIs
  <2>3. equal \subseteq 1 .. m /\ equal \subseteq Nat
    <3> HIDE DEF open
    <3>1. equal \subseteq open
      OBVIOUS
    <3> HIDE DEF equal
    <3> QED BY <3>1, <2>2
  <2>4. ToolTakeOutput(wanted, strict, u, k) = u \cup IF equal = {} THEN {} ELSE {<<Scores!Least(equal), k>>}
    BY DEF ToolTakeOutput
  <2> HIDE DEF equal
  <2>5. equal # {} => Scores!Least(equal) \in 1 .. m
    BY <2>3, ToolLeastIs
  <2> QED BY <2>4, <2>5
<1>2. ToolSteady(n, U, next)
  <2> HIDE DEF U
  <2> QED BY <1>1 DEF ToolSteady
<1>3. {} \in U
  OBVIOUS
<1>a. PICK t : ToolRecursive(n, U, next, t)
  <2> HIDE DEF U, next
  <2> QED BY <1>2, <1>3, ToolRecursion
<1>4. t \in [0 .. n -> U] /\ t[0] = {} /\ \A k \in 1 .. n : t[k] = next[<<k, t[k - 1]>>]
  <2> HIDE DEF U, next
  <2> QED BY <1>a DEF ToolRecursive
<1>5. \A k \in 1 .. n : t[k] = ToolTakeOutput(wanted, strict, t[k - 1], k)
  <2> HIDE DEF U
  <2>1. \A k \in 1 .. n : t[k - 1] \in U
    BY <1>4
  <2> QED BY <1>4, <2>1
<1>6. t = [k \in 0 .. n |-> IF k = 0 THEN {} ELSE ToolTakeOutput(wanted, strict, t[k - 1], k)]
  <2>1. \A k \in 0 .. n : t[k] = IF k = 0 THEN {} ELSE ToolTakeOutput(wanted, strict, t[k - 1], k)
    BY <1>4, <1>5
  <2> HIDE DEF U, next
  <2> QED BY <2>1, <1>4
<1> DEFINE s == CHOOSE f :
               f = [k \in 0 .. n |-> IF k = 0 THEN {} ELSE ToolTakeOutput(wanted, strict, f[k - 1], k)]
<1>7. s = [k \in 0 .. n |-> IF k = 0 THEN {} ELSE ToolTakeOutput(wanted, strict, s[k - 1], k)]
  <2>1. \E f : f = [k \in 0 .. n |-> IF k = 0 THEN {} ELSE ToolTakeOutput(wanted, strict, f[k - 1], k)]
    BY <1>6
  <2> QED BY <2>1
<1>8. Scores!OutputPairs(wanted, strict) = s[Len(wanted)]
  BY <1>0 DEF Scores!OutputPairs, ToolTakeOutput
<1> HIDE DEF s
<1>9. s[0] = {} /\ \A k \in 1 .. n : s[k] = ToolTakeOutput(wanted, strict, s[k - 1], k)
  <2>1. \A k \in 0 .. n : s[k] = IF k = 0 THEN {} ELSE ToolTakeOutput(wanted, strict, s[k - 1], k)
    BY <1>7
  <2>2. 0 \in 0 .. n /\ \A k \in 1 .. n : k \in 0 .. n /\ k # 0
    OBVIOUS
  <2> QED BY <2>1, <2>2
<1> QED BY <1>0, <1>8, <1>9

ToolOutputFit(wanted) ==
    UNION {{<<i, n>> : n \in {k \in DOMAIN wanted : Scores!CallsMatch(made[i], wanted[k])
        /\ Scores!Equal(made[i], wanted[k])}} :
              i \in DOMAIN made}
LEMMA ToolOutputFitIs ==
    ASSUME NEW wanted, NEW i \in DOMAIN made, NEW n \in DOMAIN wanted
    PROVE  <<i, n>> \in ToolOutputFit(wanted) <=> Scores!CallsMatch(made[i], wanted[n])
               /\ Scores!Equal(made[i], wanted[n])
BY DEF ToolOutputFit

LEMMA ToolOutputsArePaired ==
    ASSUME made \in Seq(Tools), NEW wanted \in Seq(ExpectedCalls), NEW strict \in BOOLEAN
    PROVE  /\ ToolPaired(Scores!OutputPairs(wanted, strict), Len(made), Len(wanted))
           /\ Scores!OutputPairs(wanted, strict) \subseteq ToolOutputFit(wanted)
           /\ ~strict => \A i \in DOMAIN made, k \in DOMAIN wanted : <<i, k>> \in ToolOutputFit(wanted) =>
                 \E p \in Scores!OutputPairs(wanted, strict) : p[1] = i \/ p[2] = k
<1>0. PICK m, n \in Nat : m = Len(made) /\ n = Len(wanted) /\ DOMAIN made = 1 .. m /\ DOMAIN wanted = 1 .. n
  OBVIOUS
<1>1. PICK t : /\ t[0] = {} /\ \A k \in 1 .. n : t[k] = ToolTakeOutput(wanted, strict, t[k - 1], k)
               /\ Scores!OutputPairs(wanted, strict) = t[n]
  BY <1>0, ToolOutputsAre
<1> DEFINE ok == ToolOutputFit(wanted)
<1>2. ASSUME NEW k \in 1 .. n PROVE ToolTakes(t, k, m, ok) /\ (~strict => ToolSkips(t, k, m, ok))
  <2> DEFINE left == {i \in DOMAIN made \ Scores!Visited(t[k - 1]) : Scores!CallsMatch(made[i], wanted[k])}
  <2> DEFINE open == IF strict /\ left # {} THEN {Scores!Least(left)} ELSE left
  <2> DEFINE equal == {i \in open : Scores!Equal(made[i], wanted[k])}
  <2>1. t[k] = t[k - 1] \cup IF equal = {} THEN {} ELSE {<<Scores!Least(equal), k>>}
    BY <1>1 DEF ToolTakeOutput
  <2>2. \A i \in left : i \in 1 .. m /\ Scores!CallsMatch(made[i], wanted[k]) /\ \A p \in t[k - 1] : p[1] # i
    BY <1>0 DEF Scores!Visited
  <2>3. open \subseteq left /\ (~strict => open = left)
    <3>1. left \subseteq Nat
      BY <2>2
    <3> HIDE DEF left
    <3> QED BY <3>1, ToolLeastIs
  <2>4. \A i \in equal : i \in 1 .. m /\ <<i, k>> \in ok /\ \A p \in t[k - 1] : p[1] # i
    <3> HIDE DEF open, left
    <3> QED BY <2>2, <2>3, <1>0, ToolOutputFitIs
  <2>5. ASSUME ~strict, NEW i \in 1 .. m, <<i, k>> \in ok PROVE i \in equal \/ \E p \in t[k - 1] : p[1] = i
    <3>1. Scores!CallsMatch(made[i], wanted[k]) /\ Scores!Equal(made[i], wanted[k])
      BY <2>5, <1>0, ToolOutputFitIs
    <3>2. i \in left \/ \E p \in t[k - 1] : p[1] = i
      BY <3>1, <1>0 DEF Scores!Visited
    <3>3. i \in left => i \in equal
      <4> HIDE DEF left
      <4> QED BY <3>1, <2>3, <2>5
    <3> QED BY <3>2, <3>3
  <2>6. equal \subseteq Nat
    <3>1. \A i \in equal : i \in 1 .. m
      BY <2>4
    <3> HIDE DEF equal
    <3> QED BY <3>1
  <2> HIDE DEF left, open, equal, ok
  <2>7. CASE equal = {}
    BY <2>7, <2>1, <2>5 DEF ToolTakes, ToolSkips
  <2>8. CASE equal # {}
    <3>1. Scores!Least(equal) \in equal
      BY <2>6, <2>8, ToolLeastIs
    <3>2. t[k] = t[k - 1] \cup {<<Scores!Least(equal), k>>}
      BY <2>1, <2>8
    <3>3. ToolTakes(t, k, m, ok)
      BY <3>1, <3>2, <2>4 DEF ToolTakes
    <3>4. <<Scores!Least(equal), k>> \in t[k] /\ Scores!Least(equal) \in 1 .. m
      BY <3>1, <3>2, <2>4
    <3> QED BY <3>3, <3>4 DEF ToolSkips
  <2> QED BY <2>7, <2>8
<1>3. /\ ToolPaired(t[n], m, n) /\ t[n] \subseteq ok
      /\ ~strict => \A i \in 1 .. m, k \in 1 .. n : <<i, k>> \in ok => \E p \in t[n] : p[1] = i \/ p[2] = k
  <2> HIDE DEF ok
  <2> QED BY <1>1, <1>2, ToolTakingIs
<1> QED BY <1>0, <1>1, <1>3

\* Where calls and expectations fall into classes, pairs that leave nothing
\* over are as many as can be.
ToolRectangular(ok, m, n) ==
    \A i, j \in 1 .. m, k, l \in 1 .. n : <<i, k>> \in ok /\ <<j, k>> \in ok
            /\ <<j, l>> \in ok => <<i, l>> \in ok
ToolLeft(ok, m, n, pairs) == \E i \in 1 .. m, k \in 1 .. n : <<i, k>> \in ok /\ \A p \in pairs : p[1] # i
        /\ p[2] # k
ToolChosen(ok, m, n, S, f) ==
    S \subseteq 1 .. n /\ f \in [S -> 1 .. m] /\ (\A o \in S : <<f[o], o>> \in ok)
                          /\ \A o, r \in S : f[o] = f[r] => o = r
LEMMA ToolNothingLeftIsMost ==
    ASSUME NEW m \in Nat, NEW n \in Nat, NEW ok, ToolRectangular(ok, m, n), NEW pairs, ToolPaired(pairs, m, n),
           pairs \subseteq ok, ~ToolLeft(ok, m, n, pairs), NEW S, NEW f, ToolChosen(ok, m, n, S, f)
    PROVE  Scores!Cardinality(S) <= Scores!Cardinality(pairs)
<1>a. \A i \in 1 .. m, k \in 1 .. n : <<i, k>> \in ok => \E p \in pairs : p[1] = i \/ p[2] = k
  BY DEF ToolLeft
<1>b. S \subseteq 1 .. n /\ f \in [S -> 1 .. m] /\ (\A o \in S : <<f[o], o>> \in ok)
                            /\ \A o, r \in S : f[o] = f[r] => o = r
  BY DEF ToolChosen
<1> DEFINE More(o) == \E k \in 1 .. n : <<f[o], k>> \in ok /\ \A p \in pairs : p[2] # k
<1> DEFINE Its(o, p) == IF More(o) THEN p[1] = f[o] ELSE p[2] = o
<1>1. ASSUME NEW o \in S PROVE \E p \in pairs : Its(o, p)
  <2>1. CASE More(o)
    <3>1. PICK k \in 1 .. n : <<f[o], k>> \in ok /\ \A p \in pairs : p[2] # k
      BY <2>1
    <3>2. \E p \in pairs : p[1] = f[o] \/ p[2] = k
      BY <3>1, <1>a, <1>b
    <3> HIDE DEF More
    <3> QED BY <3>1, <3>2, <2>1
  <2>2. CASE ~More(o)
    <3>1. <<f[o], o>> \in ok /\ o \in 1 .. n
      BY <1>b
    <3>2. \E p \in pairs : p[2] = o
      BY <3>1, <2>2
    <3> HIDE DEF More
    <3> QED BY <3>2, <2>2
  <2> QED BY <2>1, <2>2
<1>2. ASSUME NEW o \in S, NEW r \in S, NEW p \in pairs, More(o), p[1] = f[o], p[2] = r PROVE More(r)
  <2>1. p = <<f[o], r>>
    BY <1>2 DEF ToolPaired
  <2>2. <<f[o], r>> \in ok /\ <<f[r], r>> \in ok
    BY <2>1, <1>b
  <2>3. PICK k \in 1 .. n : <<f[o], k>> \in ok /\ \A q \in pairs : q[2] # k
    BY <1>2
  <2>4. <<f[r], k>> \in ok
    <3>1. f[o] \in 1 .. m /\ f[r] \in 1 .. m /\ r \in 1 .. n
      BY <1>b
    <3> QED BY <3>1, <2>2, <2>3 DEF ToolRectangular
  <2> QED BY <2>3, <2>4
<1> HIDE DEF More
<1> DEFINE h == [o \in S |-> CHOOSE p \in pairs : Its(o, p)]
<1>3. \A o \in S : h[o] \in pairs /\ Its(o, h[o])
  BY <1>1
<1>4. h \in [S -> pairs]
  BY <1>3
<1> HIDE DEF h
<1>5. ASSUME NEW o \in S, NEW r \in S, h[o] = h[r] PROVE o = r
  <2> DEFINE p == h[o]
  <2>1. p \in pairs /\ Its(o, p) /\ Its(r, p)
    BY <1>3, <1>5
  <2> HIDE DEF p
  <2>2. CASE More(o) <=> More(r)
    BY <2>1, <2>2, <1>b
  <2>3. CASE More(o) /\ ~More(r)
    BY <2>1, <2>3, <1>2
  <2>4. CASE More(r) /\ ~More(o)
    BY <2>1, <2>4, <1>2
  <2> QED BY <2>2, <2>3, <2>4
<1>6. Scores!IsFiniteSet(pairs)
  BY ToolPairedIs
<1> QED BY <1>4, <1>5, <1>6, ToolNoFewer

ToolOutputPossible ==
    {S \in SUBSET DOMAIN score.wanted :
        {f \in [S -> DOMAIN made] :
            \A n \in S : /\ Scores!CallsMatch(made[f[n]], score.wanted[n])
                            /\ Scores!Equal(made[f[n]], score.wanted[n])
                         /\ \A o \in S : o < n => f[o] # f[n] /\ (FALSE => f[o] < f[n])} # {}}

LEMMA ToolOutputsAreCounted ==
    ASSUME made \in Seq(Tools), NEW wanted \in Seq(ExpectedCalls), NEW strict \in BOOLEAN,
           score = Scores!Scored("output", wanted, strict,
               Scores!AllOf(wanted, strict, Scores!OutputPairs(wanted, strict)))
    PROVE  Scores!OutputsCounted
<1> DEFINE alike == \A i, j \in DOMAIN made : made[i].id = None <=> made[j].id = None
<1> DEFINE pairs == Scores!OutputPairs(wanted, strict)
<1> DEFINE ok == ToolOutputFit(wanted)
<1>0. PICK m, n \in Nat : m = Len(made) /\ n = Len(wanted) /\ DOMAIN made = 1 .. m /\ DOMAIN wanted = 1 .. n
  OBVIOUS
<1>1. score.of = "output" /\ score.wanted = wanted /\ score.strict = strict
                             /\ Scores!Hits = Scores!Cardinality(Scores!AllOf(wanted, strict, pairs))
  BY DEF Scores!Scored, Scores!Hits
<1>2. /\ ToolPaired(pairs, m, n) /\ pairs \subseteq ok
      /\ ~strict => \A i \in 1 .. m, k \in 1 .. n : <<i, k>> \in ok => \E p \in pairs : p[1] = i \/ p[2] = k
  BY <1>0, ToolOutputsArePaired
<1>3. \A i \in 1 .. m, k \in 1 .. n : <<i, k>> \in ok <=> Scores!CallsMatch(made[i], wanted[k])
          /\ Scores!Equal(made[i], wanted[k])
  BY <1>0, ToolOutputFitIs
<1>4. ToolOutputPossible \subseteq SUBSET (1 .. n)
  BY <1>0, <1>1 DEF ToolOutputPossible
<1>5. ASSUME NEW some, ToolPaired(some, m, n), some \subseteq ok
      PROVE  \E S \in ToolOutputPossible : Scores!Cardinality(S) = Scores!Cardinality(some)
  <2>1. PICK S, f : /\ S \in SUBSET (1 .. n) /\ f \in [S -> 1 .. m]
                    /\ \A o \in S : <<f[o], o>> \in some
                    /\ Scores!Cardinality(S) = Scores!Cardinality(some)
    BY <1>5, ToolPairedIs
  <2> HIDE DEF ok
  <2>2. \A o \in S : Scores!CallsMatch(made[f[o]], wanted[o]) /\ Scores!Equal(made[f[o]], wanted[o])
    BY <2>1, <1>3, <1>5
  <2>3. \A o, r \in S : r < o => f[r] # f[o]
    <3> SUFFICES ASSUME NEW o \in S, NEW r \in S, r < o PROVE f[r] # f[o]
      OBVIOUS
    <3>1. <<f[o], o>> \in some /\ <<f[r], r>> \in some /\ o # r
      BY <2>1
    <3>2. <<f[o], o>> # <<f[r], r>>
      BY <3>1
    <3> QED BY <3>1, <3>2, <1>5 DEF ToolPaired
  <2>4. S \in ToolOutputPossible
    BY <2>1, <2>2, <2>3, <1>0, <1>1 DEF ToolOutputPossible
  <2> QED BY <2>1, <2>4
<1>6. ASSUME alike, ~strict, NEW S \in ToolOutputPossible
      PROVE Scores!Cardinality(S) <= Scores!Cardinality(pairs)
  <2>1. S \subseteq 1 .. n
    BY <1>4
  <2>2. PICK f \in [S -> 1 .. m] : \A o \in S : /\ Scores!CallsMatch(made[f[o]], wanted[o])
          /\ Scores!Equal(made[f[o]], wanted[o])
                                                /\ \A r \in S : r < o => f[r] # f[o]
    BY <1>0, <1>1 DEF ToolOutputPossible
  <2>3. \A o \in S : <<f[o], o>> \in ok
    <3> HIDE DEF ok
    <3> QED BY <2>1, <2>2, <1>3
  <2>4. \A o, r \in S : f[o] = f[r] => o = r
    <3>1. \A o, r \in S : o < r \/ r < o \/ o = r
      BY <2>1
    <3> QED BY <3>1, <2>2
  <2>5. ToolRectangular(ok, m, n)
    <3> HIDE DEF ok
    <3> SUFFICES ASSUME NEW i \in 1 .. m, NEW j \in 1 .. m, NEW k \in 1 .. n, NEW l \in 1 .. n,
                        <<i, k>> \in ok, <<j, k>> \in ok, <<j, l>> \in ok
                 PROVE  <<i, l>> \in ok
      BY DEF ToolRectangular
    <3>1. /\ Scores!CallsMatch(made[i], wanted[k]) /\ Scores!Equal(made[i], wanted[k])
          /\ Scores!CallsMatch(made[j], wanted[k]) /\ Scores!Equal(made[j], wanted[k])
          /\ Scores!CallsMatch(made[j], wanted[l]) /\ Scores!Equal(made[j], wanted[l])
      BY <1>3
    <3>2. made[i].id = None <=> made[j].id = None
      BY <1>0, <1>6
    <3>3. Scores!CallsMatch(made[i], wanted[l])
      BY <3>1, <3>2 DEF Scores!CallsMatch
    <3>4. Scores!Equal(made[i], wanted[l])
      BY <3>1 DEF Scores!Equal
    <3> QED BY <3>3, <3>4, <1>3
  <2> HIDE DEF ok, pairs, alike
  <2>6. ToolChosen(ok, m, n, S, f)
    BY <2>1, <2>2, <2>3, <2>4 DEF ToolChosen
  <2>7. ~ToolLeft(ok, m, n, pairs)
    BY <1>2, <1>6 DEF ToolLeft
  <2> QED BY <2>5, <2>6, <2>7, <1>2, ToolNothingLeftIsMost
<1> DEFINE best == ToolLargest(n, ToolOutputPossible)
<1>7. /\ best \in 0 .. n /\ (\E S \in ToolOutputPossible : Scores!Cardinality(S) = best)
      /\ \A S \in ToolOutputPossible : Scores!Cardinality(S) <= best
  <2>1. ToolOutputPossible # {}
    BY <1>2, <1>5
  <2> QED BY <1>4, <2>1, ToolLargestIs
<1>8. ToolPaired(pairs, m, n) /\ pairs \subseteq ok
  BY <1>2
<1> HIDE DEF pairs, ok, best
<1>9. Scores!Cardinality(pairs) <= best /\ Scores!Cardinality(pairs) \in Nat
  <2>1. Scores!Cardinality(pairs) <= best
    BY <1>5, <1>7, <1>8
  <2>2. Scores!IsFiniteSet(pairs)
    BY <1>8, ToolPairedIs
  <2> QED BY <2>1, <2>2, ToolFS_CardinalityType
<1>10. strict => Scores!Hits <= best
  <2>1. strict => Scores!Hits = 0 \/ Scores!Hits = Scores!Cardinality(pairs)
    BY <1>1, ToolFS_EmptySet DEF Scores!AllOf
  <2> QED BY <2>1, <1>7, <1>9
<1>11. alike /\ ~strict => Scores!Hits = best
  <2>1. ~strict => Scores!Hits = Scores!Cardinality(pairs)
    BY <1>1 DEF Scores!AllOf
  <2>2. alike /\ ~strict => \A S \in ToolOutputPossible : Scores!Cardinality(S) <= Scores!Cardinality(pairs)
    BY <1>6
  <2> HIDE DEF alike
  <2> QED BY <2>1, <2>2, <1>7, <1>9
<1>12. alike => IF score.strict THEN Scores!Hits <= ToolLargest(Len(score.wanted), ToolOutputPossible)
                ELSE Scores!Hits = ToolLargest(Len(score.wanted), ToolOutputPossible)
  <2> HIDE DEF alike
  <2> QED BY <1>0, <1>1, <1>10, <1>11 DEF best
<1> QED BY <1>1, <1>12
           DEF Scores!OutputsCounted, Scores!Best, Scores!Assignments, ToolLargest, ToolOutputPossible

-------------------------------------------------------------------------------
(***************************************************************************)
(* How often the tools are called.                                         *)
(***************************************************************************)
ToolComparisons == {"=", ">", "<", "!=", ">=", "<="}
ToolRightOf(expected, cmp) == {k \in DOMAIN expected : Scores!Compared(cmp, Scores!Times(k), expected[k])}
ToolCountedOf(expected, cmp, strict) ==
    IF strict /\ ToolRightOf(expected, cmp) # DOMAIN expected THEN {} ELSE ToolRightOf(expected, cmp)
ToolCountScored(expected, cmp, strict) ==
    [of |-> "count", expected |-> expected, cmp |-> cmp, right |-> ToolRightOf(expected, cmp),
     value |-> Scores!Value(Scores!Cardinality(ToolCountedOf(expected, cmp, strict)),
         Scores!Cardinality(DOMAIN expected))]

LEMMA ToolOrderIsCounted ==
    ASSUME Scores!IsFiniteSet(ExpectedCalls), MaxWanted \in Nat, made \in Seq(Tools),
           NEW expected \in Scores!Counts, NEW cmp \in ToolComparisons, NEW strict \in BOOLEAN,
           score = ToolCountScored(expected, cmp, strict)
    PROVE  Scores!OrderImpliesCount
<1>1. score.of = "count" /\ score.expected = expected /\ score.cmp = cmp
      /\ score.value = Scores!Value(Scores!Cardinality(ToolCountedOf(expected, cmp, strict)),
             Scores!Cardinality(DOMAIN expected))
  BY DEF ToolCountScored
<1> SUFFICES ASSUME cmp = "=", expected # <<>>, NEW wanted \in Scores!Expectations,
                    Scores!CountsAsOrdered(Scores!KeysOf(wanted)), Scores!OneSpelling(Scores!KeysOf(wanted)),
                    \A i \in DOMAIN made : Sanitized[Scores!Key(made[i])] = Scores!Key(made[i])
             PROVE  Scores!Full
  BY <1>1 DEF Scores!OrderImpliesCount
<1> DEFINE keys == Scores!KeysOf(wanted)
<1>2. wanted \in Seq(ExpectedCalls)
  BY DEF Scores!Expectations, Scores!SeqOf
<1>3. PICK n \in Nat : n = Len(wanted) /\ DOMAIN keys = 1 .. n /\ Len(keys) = n
        /\ keys \in Seq({Scores!Key(w) : w \in ExpectedCalls})
  <2>1. Len(wanted) \in Nat
    BY <1>2
  <2> QED BY <2>1, <1>2, ToolKeysAre
<1>4. /\ Scores!InOrder(keys) /\ keys # <<>>
      /\ \A k \in DOMAIN expected : expected[k] = Scores!Cardinality({i \in DOMAIN keys : keys[i] = k})
      /\ \A k, l \in DOMAIN expected \cup {keys[i] : i \in DOMAIN keys} : Sanitized[k] = Sanitized[l] => k = l
  <2>1. Scores!InOrder(keys) /\ keys # <<>>
    BY DEF Scores!CountsAsOrdered
  <2>2. \A k \in DOMAIN expected : expected[k] = Scores!Cardinality({i \in DOMAIN keys : keys[i] = k})
    BY <1>1 DEF Scores!CountsAsOrdered
  <2> HIDE DEF keys
  <2>3. Scores!OneSpelling(keys)
    BY DEF keys
  <2>4. \A k, l \in DOMAIN expected \cup Scores!Range(keys) : Sanitized[k] = Sanitized[l] => k = l
    BY <2>3, <1>1 DEF Scores!OneSpelling
  <2>5. Scores!Range(keys) = {keys[i] : i \in DOMAIN keys}
    BY DEF Scores!Range
  <2> QED BY <2>1, <2>2, <2>4, <2>5
<1> HIDE DEF keys
\* Each call goes by the sanitized key in its place.
<1>5. DOMAIN made = 1 .. n /\ n # 0 /\ made # <<>> /\ \A i \in 1 .. n : Sanitized[keys[i]] = Scores!Key(made[i])
  <2>1. Len(made) = n /\ \A i \in 1 .. n : Scores!MatchKey(made[i], keys[i])
    BY <1>3, <1>4 DEF Scores!InOrder
  <2>2. n # 0
    BY <1>3, <1>4
  <2>3. DOMAIN made = 1 .. n /\ made # <<>>
    BY <2>1, <2>2
  <2>4. ASSUME NEW i \in 1 .. n PROVE Sanitized[keys[i]] = Scores!Key(made[i])
    <3>1. Sanitized[Scores!Key(made[i])] = Scores!Key(made[i])
      BY <2>3
    <3> QED BY <2>1, <3>1 DEF Scores!MatchKey, Scores!Key
  <2> QED BY <2>2, <2>3, <2>4
<1>6. \A k \in DOMAIN expected : Scores!Times(k) = expected[k]
  <2> SUFFICES ASSUME NEW k \in DOMAIN expected PROVE Scores!Times(k) = expected[k]
    OBVIOUS
  <2>1. {i \in DOMAIN made : Scores!Key(made[i]) = Sanitized[k]} = {i \in DOMAIN keys : keys[i] = k}
    BY <1>3, <1>4, <1>5
  <2>2. Scores!Called(Sanitized[k]) = expected[k]
    BY <2>1, <1>4 DEF Scores!Called
  \* If calls go by the key as it is, it is sanitized.
  <2>3. CASE Scores!Called(k) > 0
    <3>1. PICK i \in DOMAIN made : Scores!Key(made[i]) = k
      <4>1. SUFFICES ASSUME {i \in DOMAIN made : Scores!Key(made[i]) = k} = {} PROVE FALSE
        OBVIOUS
      <4>2. Scores!Called(k) = 0
        BY <4>1, ToolFS_EmptySet DEF Scores!Called
      <4> QED BY <4>2, <2>3
    <3>2. Sanitized[k] = k
      BY <3>1
    <3> QED BY <3>2, <2>2, <2>3 DEF Scores!Times
  <2>4. CASE ~(Scores!Called(k) > 0)
    BY <2>2, <2>4 DEF Scores!Times
  <2> QED BY <2>3, <2>4
<1>7. ToolRightOf(expected, cmp) = DOMAIN expected
  BY <1>6 DEF ToolRightOf, Scores!Compared
<1>8. ToolCountedOf(expected, cmp, strict) = DOMAIN expected
  BY <1>7 DEF ToolCountedOf
<1>9. Scores!IsFiniteSet(DOMAIN expected) /\ DOMAIN expected # {}
  <2>1. PICK K \in SUBSET {Scores!Key(w) : w \in ExpectedCalls} : expected \in [K -> 0 .. MaxToolCalls]
    BY DEF Scores!Counts
  <2>2. Scores!IsFiniteSet({Scores!Key(w) : w \in ExpectedCalls})
    <3> DEFINE f == [w \in ExpectedCalls |-> Scores!Key(w)]
    <3>1. f \in Surjection(ExpectedCalls, {Scores!Key(w) : w \in ExpectedCalls})
      BY DEF Surjection
    <3> QED BY <3>1, ToolFS_Surjection
  <2>3. Scores!IsFiniteSet(DOMAIN expected)
    BY <2>1, <2>2, ToolFS_Subset
  <2>4. DOMAIN expected # {}
    <3>1. SUFFICES ASSUME DOMAIN expected = {} PROVE expected = <<>>
      OBVIOUS
    <3>2. expected \in [{} -> 0 .. MaxToolCalls]
      BY <2>1, <3>1
    <3>3. expected = [x \in {} |-> 0]
      BY <3>2
    <3>4. <<>> = [x \in {} |-> 0]
      <4>1. <<>> \in [{} -> 0 .. MaxToolCalls]
        OBVIOUS
      <4> QED BY <4>1
    <3> QED BY <3>3, <3>4
  <2> QED BY <2>3, <2>4
<1>10. Scores!Cardinality(DOMAIN expected) \in Nat /\ Scores!Cardinality(DOMAIN expected) # 0
  BY <1>9, ToolFS_CardinalityType, ToolFS_EmptySet
<1>11. score.value = Scores!Value(Scores!Cardinality(DOMAIN expected), Scores!Cardinality(DOMAIN expected))
  BY <1>1, <1>8
<1> QED BY <1>5, <1>10, <1>11, ToolFullIs

-------------------------------------------------------------------------------
(***************************************************************************)
(* The score is of the calls there are.                                    *)
(***************************************************************************)
ToolOrderScored(wanted, strict) ==
    Scores!Scored("order", wanted, strict, Scores!OrderPairs(Scores!KeysOf(wanted), strict))
ToolOutputScored(wanted, strict) ==
    Scores!Scored("output", wanted, strict, Scores!AllOf(wanted, strict, Scores!OutputPairs(wanted, strict)))
ToolScoreIs ==
    \/ score = Scores!NoScore
    \/ \E wanted \in Scores!Expectations, strict \in BOOLEAN : score = ToolOrderScored(wanted, strict)
    \/ \E expected \in Scores!Counts, cmp \in ToolComparisons, strict \in BOOLEAN :
           score = ToolCountScored(expected, cmp, strict)
    \/ \E wanted \in Scores!Expectations, strict \in BOOLEAN, subset \in BOOLEAN :
           score = ToolArgsScored(wanted, strict, subset)
    \/ \E wanted \in Scores!Expectations, strict \in BOOLEAN : score = ToolOutputScored(wanted, strict)
ToolIInv == made \in Seq(Tools) /\ ToolScoreIs

LEMMA ToolStarts ==
    ASSUME Scores!Init PROVE ToolIInv
BY DEF Scores!Init, ToolIInv, ToolScoreIs

LEMMA ToolSameScores ==
    ASSUME made' = made
    PROVE  /\ \A wanted, strict : ToolOrderScored(wanted, strict)' = ToolOrderScored(wanted, strict)
           /\ \A expected, cmp, strict :
                  ToolCountScored(expected, cmp, strict)' = ToolCountScored(expected, cmp, strict)
           /\ \A wanted, strict, subset :
                  ToolArgsScored(wanted, strict, subset)' = ToolArgsScored(wanted, strict, subset)
           /\ \A wanted, strict : ToolOutputScored(wanted, strict)' = ToolOutputScored(wanted, strict)
<1>1. ASSUME NEW wanted, NEW strict
      PROVE  ToolOrderScored(wanted, strict)' = ToolOrderScored(wanted, strict)
  BY DEF ToolOrderScored, Scores!Scored, Scores!Value, Scores!OrderPairs, Scores!Way, Scores!Table,
     Scores!InOrder, Scores!MatchKey, Scores!Up
<1>2. ASSUME NEW expected, NEW cmp, NEW strict
      PROVE  ToolCountScored(expected, cmp, strict)' = ToolCountScored(expected, cmp, strict)
  BY DEF ToolCountScored, ToolCountedOf, ToolRightOf, Scores!Times, Scores!Called, Scores!Value
<1>3. ASSUME NEW wanted, NEW strict, NEW subset
      PROVE  ToolArgsScored(wanted, strict, subset)' = ToolArgsScored(wanted, strict, subset)
  BY DEF ToolArgsScored, Scores!ArgsPairs, Scores!Value
<1>4. ASSUME NEW wanted, NEW strict
      PROVE  ToolOutputScored(wanted, strict)' = ToolOutputScored(wanted, strict)
  BY DEF ToolOutputScored, Scores!Scored, Scores!OutputPairs, Scores!Value
<1> QED BY <1>1, <1>2, <1>3, <1>4

LEMMA ToolSteps ==
    ASSUME ToolIInv, [Scores!Next]_(Scores!vars)
    PROVE  ToolIInv'
<1>1. CASE Scores!Call
  BY <1>1 DEF Scores!Call, ToolIInv, ToolScoreIs
<1>2. CASE Scores!Evaluate
  <2>1. made' = made /\ made \in Seq(Tools)
    BY <1>2 DEF Scores!Evaluate, ToolIInv
  <2>2. CASE Scores!Order
    <3>1. PICK wanted \in Scores!Expectations, strict \in BOOLEAN : score' = ToolOrderScored(wanted, strict)
      BY <2>2 DEF Scores!Order, ToolOrderScored
    <3>2. score' = ToolOrderScored(wanted, strict)'
      BY <3>1, <2>1, ToolSameScores
    <3> QED BY <2>1, <3>2 DEF ToolIInv, ToolScoreIs, Scores!Expectations
  <2>3. CASE Scores!Count
    <3>1. PICK expected \in Scores!Counts, cmp \in ToolComparisons, strict \in BOOLEAN :
                   score' = ToolCountScored(expected, cmp, strict)
      BY <2>3 DEF Scores!Count, ToolCountScored, ToolCountedOf, ToolRightOf, ToolComparisons
    <3>2. score' = ToolCountScored(expected, cmp, strict)'
      BY <3>1, <2>1, ToolSameScores
    <3> QED BY <2>1, <3>2 DEF ToolIInv, ToolScoreIs, Scores!Counts, ToolComparisons
  <2>4. CASE Scores!Args
    <3>1. PICK wanted \in Scores!Expectations, strict \in BOOLEAN, subset \in BOOLEAN :
             score' = ToolArgsScored(wanted, strict, subset)
      BY <2>4 DEF Scores!Args, ToolArgsScored
    <3>2. score' = ToolArgsScored(wanted, strict, subset)'
      BY <3>1, <2>1, ToolSameScores
    <3> QED BY <2>1, <3>2 DEF ToolIInv, ToolScoreIs, Scores!Expectations
  <2>5. CASE Scores!Output
    <3>1. PICK wanted \in Scores!Expectations, strict \in BOOLEAN : score' = ToolOutputScored(wanted, strict)
      BY <2>5 DEF Scores!Output, ToolOutputScored
    <3>2. score' = ToolOutputScored(wanted, strict)'
      BY <3>1, <2>1, ToolSameScores
    <3> QED BY <2>1, <3>2 DEF ToolIInv, ToolScoreIs, Scores!Expectations
  <2> QED BY <1>2, <2>2, <2>3, <2>4, <2>5 DEF Scores!Evaluate
<1>3. CASE UNCHANGED Scores!vars
  <2>1. made' = made /\ score' = score
    BY <1>3 DEF Scores!vars
  <2> QED BY <2>1, ToolSameScores DEF ToolIInv, ToolScoreIs, Scores!Expectations, Scores!Counts, ToolComparisons
<1> QED BY <1>1, <1>2, <1>3 DEF Scores!Next

LEMMA ToolHolds ==
    ASSUME Scores!IsFiniteSet(ExpectedCalls), MaxWanted \in Nat, ToolIInv
    PROVE  Scores!LongestFound /\ Scores!NothingOverlooked /\ Scores!OutputsCounted /\ Scores!OrderImpliesCount
<1>0. Scores!Expectations \subseteq Seq(ExpectedCalls) /\ made \in Seq(Tools)
  BY DEF Scores!Expectations, Scores!SeqOf, ToolIInv
<1>1. CASE score = Scores!NoScore
  <2>1. score.of = "nothing"
    BY <1>1 DEF Scores!NoScore
  <2> QED BY <2>1
             DEF Scores!LongestFound, Scores!NothingOverlooked, Scores!OutputsCounted, Scores!OrderImpliesCount
<1>2. ASSUME NEW wanted \in Scores!Expectations, NEW strict \in BOOLEAN, score = ToolOrderScored(wanted, strict)
      PROVE  Scores!LongestFound /\ Scores!NothingOverlooked /\ Scores!OutputsCounted
              /\ Scores!OrderImpliesCount
  <2>1. score.of = "order"
    BY <1>2 DEF ToolOrderScored, Scores!Scored
  <2>2. Scores!LongestFound
    <3>1. CASE strict
      BY <3>1, <1>0, <1>2, ToolOrderIsExact DEF ToolOrderScored
    <3>2. CASE ~strict
      <4>1. score = Scores!Scored("order", wanted, FALSE, Scores!Way(Scores!KeysOf(wanted)))
        BY <3>2, <1>2 DEF ToolOrderScored, Scores!OrderPairs
      <4> QED BY <4>1, <1>0, ToolOrderIsLongest
    <3> QED BY <3>1, <3>2
  <2> QED BY <2>1, <2>2 DEF Scores!NothingOverlooked, Scores!OutputsCounted, Scores!OrderImpliesCount
<1>3. ASSUME NEW expected \in Scores!Counts, NEW cmp \in ToolComparisons, NEW strict \in BOOLEAN,
             score = ToolCountScored(expected, cmp, strict)
      PROVE  Scores!LongestFound /\ Scores!NothingOverlooked /\ Scores!OutputsCounted
              /\ Scores!OrderImpliesCount
  <2>1. score.of = "count"
    BY <1>3 DEF ToolCountScored
  <2>2. Scores!OrderImpliesCount
    BY <1>0, <1>3, ToolOrderIsCounted
  <2> QED BY <2>1, <2>2 DEF Scores!NothingOverlooked, Scores!OutputsCounted, Scores!LongestFound
<1>4. ASSUME NEW wanted \in Scores!Expectations, NEW strict \in BOOLEAN, NEW subset \in BOOLEAN,
             score = ToolArgsScored(wanted, strict, subset)
      PROVE  Scores!LongestFound /\ Scores!NothingOverlooked /\ Scores!OutputsCounted
              /\ Scores!OrderImpliesCount
  <2>1. score.of = "args"
    BY <1>4 DEF ToolArgsScored
  <2>2. Scores!NothingOverlooked
    BY <1>0, <1>4, ToolArgsOverlookNothing
  <2> QED BY <2>1, <2>2 DEF Scores!LongestFound, Scores!OutputsCounted, Scores!OrderImpliesCount
<1>5. ASSUME NEW wanted \in Scores!Expectations, NEW strict \in BOOLEAN,
                 score = ToolOutputScored(wanted, strict)
      PROVE  Scores!LongestFound /\ Scores!NothingOverlooked /\ Scores!OutputsCounted
              /\ Scores!OrderImpliesCount
  <2>1. score.of = "output"
    BY <1>5 DEF ToolOutputScored, Scores!Scored
  <2>2. Scores!OutputsCounted
    BY <1>0, <1>5, ToolOutputsAreCounted DEF ToolOutputScored
  <2> QED BY <2>1, <2>2 DEF Scores!LongestFound, Scores!NothingOverlooked, Scores!OrderImpliesCount
<1> QED BY <1>1, <1>2, <1>3, <1>4, <1>5 DEF ToolIInv, ToolScoreIs

\* The score of the order is the longest common subsequence of the calls made and
\* expected; no call counts for two expectations and none is left over that one
\* could have had; as many outputs count as any pairing could make count; and calls
\* in the expected order, by sanitized names, are as many as expected, however what
\* is expected is spelled, for any tools and any number of calls
\* (evaluators_helpers.py tool_calls_order_score, tool_calls_args_score,
\* tool_calls_output_score, tool_calls_count_score).
THEOREM CallsAlwaysScored == Spec => []CallsScored
<1> DEFINE Inv == service = "scores" => ToolIInv
<1>1. Scores!IsFiniteSet(ExpectedCalls) /\ MaxWanted \in Nat
  BY ServicesAssumption DEF Scores!ScoresAssumption
<1>2. Init => Inv
  BY ToolStarts DEF Init
<1>3. Inv /\ [Next]_vars => Inv'
  BY OneService, ToolSteps
<1>4. Inv => CallsScored
  BY <1>1, ToolHolds DEF CallsScored
<1> HIDE DEF Inv
<1> QED BY <1>2, <1>3, <1>4, PTL DEF Spec

\* A decorated function runs under what was found for it, beneath the span it
\* belongs to and with what its guardrails let through.
THEOREM WrappersAlwaysHold == Spec => []WrappersHold
BY OverwritesAlwaysAgree, TraceAlwaysKept, GuardrailsAlwaysHold, PTL DEF WrappersHold
===============================================================================
