----------------------------- MODULE ChangeProofs -----------------------------
(***************************************************************************)
(* Proofs about the models of Services whose calls change what the         *)
(* platform keeps (attachments, indexes, jobs, transactions, records), and *)
(* about the guardrails and the throttle that calls pass.                  *)
(***************************************************************************)
EXTENDS Services, Integers, FiniteSetTheorems, WellFoundedInduction, TLAPS

\* A behaviour stays with its service, and there every step is one of its model.
LEMMA OneService ==
    ASSUME [Next]_vars
    PROVE  /\ service' = service
           /\ service = "attachments" => [Attachments!Next]_(Attachments!vars)
           /\ service = "indexes" => [Indexes!Next]_(Indexes!vars)
           /\ service = "gateway" => [Gateway!Next]_(Gateway!vars)
           /\ service = "overwrites" => [Overwrites!Next]_(Overwrites!vars)
           /\ service = "documents" => [Documents!Next]_(Documents!vars)
           /\ service = "works" => [Works!Next]_(Works!vars)
           /\ service = "entities" => [Entities!Next]_(Entities!vars)
           /\ service = "pages" => [Pages!Next]_(Pages!vars)
           /\ service = "tracing" => [Tracing!Next]_(Tracing!vars)
           /\ service = "scores" => [Scores!Next]_(Scores!vars)
           /\ service = "guardrails" => [Rails!Next]_(Rails!vars)
<1>1. CASE UNCHANGED vars
  BY <1>1 DEF vars, attachments, indexes, gateway, overwrites, documents, Attachments!vars, Attachments!server,
              Attachments!history, Indexes!vars, Indexes!server, Indexes!history, Gateway!vars, Gateway!throttle,
              Overwrites!vars, Documents!vars, works, Works!vars, Works!server, Entities!vars, pages,
              Pages!vars, tracing, Tracing!vars, scores, Scores!vars, rails, Rails!vars, Rails!cvars
<1>2. CASE Next
  BY <1>2 DEF Next, Of, InAttachments, InIndexes, InDocuments, InGateway, InWorks, InEntities, InPages,
              InOverwrites, InTracing, InScores, InRails
<1> QED BY <1>1, <1>2

-------------------------------------------------------------------------------
\* Numbers, and how many of them there are.
LEMMA HasMin ==
    ASSUME NEW S, S \subseteq Nat, S # {}
    PROVE  \E m \in S : \A n \in S : m <= n
<1> DEFINE R == OpToRel(<, Nat)
<1>1. IsWellFoundedOn(R, Nat)
  BY NatLessThanWellFounded
<1>2. \A x, y \in Nat : x < y => <<x, y>> \in R
  BY DEF OpToRel
<1> HIDE DEF R
<1>3. PICK m \in S : \A n \in S : ~ (<<n, m>> \in R)
  BY <1>1, WFMin
<1>4. \A n \in S : ~(n < m)
  BY <1>2, <1>3
<1> QED BY <1>3, <1>4

LEMMA HasMax ==
    ASSUME NEW n \in Nat, NEW S, S \subseteq 1 .. n, S # {}
    PROVE  \E m \in S : \A i \in S : i <= m
<1>0. \A i \in S : i \in Nat /\ i <= n /\ n - i \in Nat
  OBVIOUS
<1> DEFINE T == {n - i : i \in S}
<1>1. T \subseteq Nat
  BY <1>0
<1>t. T # {}
  OBVIOUS
<1> HIDE DEF T
<1>2. PICK t \in T : \A u \in T : t <= u
  BY <1>1, <1>t, HasMin
<1>3. PICK m \in S : t = n - m
  BY DEF T
<1>4. \A i \in S : n - i \in T
  BY DEF T
<1>5. \A i \in S : n - m <= n - i
  BY <1>2, <1>3, <1>4
<1> QED BY <1>0, <1>5

\* Where a number is in a set of them, or would be.
Rank(S, e) == Cardinality({x \in S : x <= e})

LEMMA CountsAre ==
    ASSUME NEW n \in Nat, NEW S, S \subseteq 1 .. n
    PROVE  /\ IsFiniteSet(S) /\ Cardinality(S) \in Nat
           /\ \A T : T \subseteq S => IsFiniteSet(T) /\ Cardinality(T) \in Nat /\ Cardinality(T) <= Cardinality(S)
<1>1. IsFiniteSet(1 .. n)
  BY FS_Interval
<1>2. IsFiniteSet(S)
  BY <1>1, FS_Subset
<1> QED BY <1>2, FS_Subset, FS_CardinalityType

LEMMA CountsGrow ==
    ASSUME NEW n \in Nat, NEW S, NEW T, S \subseteq T, T \subseteq 1 .. n, NEW e
    PROVE  Cardinality({x \in S : x <= e}) <= Cardinality({x \in T : x <= e})
<1> DEFINE E == {x \in S : x <= e}
           F == {x \in T : x <= e}
<1>1. E \subseteq F /\ F \subseteq T
  OBVIOUS
<1> HIDE DEF E, F
<1>2. F \subseteq 1 .. n
  BY <1>1
<1>3. Cardinality(E) <= Cardinality(F)
  BY <1>1, <1>2, CountsAre
<1> QED BY <1>3 DEF E, F

LEMMA RankGrows ==
    ASSUME NEW n \in Nat, NEW S, S \subseteq 1 .. n
    PROVE  /\ \A e \in Nat : Rank(S, e) \in Nat /\ Rank(S, e) <= Cardinality(S)
           /\ \A e \in S : e \in Nat /\ Rank(S, e) > 0
           /\ \A e, f \in Nat : e <= f => Rank(S, e) <= Rank(S, f)
           /\ \A e \in Nat, f \in S : e < f => Rank(S, e) < Rank(S, f)
<1> DEFINE E(e) == {x \in S : x <= e}
<1>1. \A e \in S : e \in Nat
  OBVIOUS
<1>2. \A e : E(e) \subseteq S
  OBVIOUS
<1>3. \A e, f \in Nat : e <= f => E(e) \subseteq E(f)
  <2>1. SUFFICES ASSUME NEW e \in Nat, NEW f \in Nat, e <= f, NEW x \in S, x <= e PROVE x <= f
    OBVIOUS
  <2> QED BY <1>1, <2>1
<1>4. \A e \in S : e \in E(e)
  BY <1>1
<1>5. \A e \in Nat, f \in S : e < f => f \notin E(e)
  BY <1>1
<1>6. \A e : Rank(S, e) = Cardinality(E(e))
  BY DEF Rank
<1> HIDE DEF E
<1>7. \A e : IsFiniteSet(E(e)) /\ Cardinality(E(e)) \in Nat /\ Cardinality(E(e)) <= Cardinality(S)
  BY <1>2, CountsAre
<1>8. \A e \in S : Cardinality(E(e)) > 0
  <2>1. \A e \in S : Cardinality(E(e)) # 0
    BY <1>4, <1>7, FS_EmptySet
  <2> QED BY <1>7, <2>1
<1>9. \A e, f \in Nat : e <= f => Cardinality(E(e)) <= Cardinality(E(f))
  BY <1>3, <1>7, FS_Subset
<1>10. \A e \in Nat, f \in S : e < f => Cardinality(E(e)) < Cardinality(E(f))
  <2>1. SUFFICES ASSUME NEW e \in Nat, NEW f \in S, e < f PROVE Cardinality(E(e)) < Cardinality(E(f))
    OBVIOUS
  <2>2. E(e) \subseteq E(f) /\ E(e) # E(f)
    BY <1>1, <1>3, <1>4, <1>5, <2>1
  <2>3. Cardinality(E(e)) # Cardinality(E(f))
    BY <1>7, <2>2, FS_Subset
  <2> QED BY <1>1, <1>7, <1>9, <2>1, <2>3
<1> QED BY <1>1, <1>6, <1>7, <1>8, <1>9, <1>10

\* The ranks of a set are 1, 2, ... up to its size.
LEMMA RankOnto ==
    ASSUME NEW n \in Nat, NEW S, S \subseteq 1 .. n, NEW k \in 1 .. Cardinality(S)
    PROVE  \E e \in S : Rank(S, e) = k
<1> DEFINE C == Cardinality(S)
           rank == [e \in S |-> Rank(S, e)]
<1>1. IsFiniteSet(S) /\ C \in Nat
  BY CountsAre
<1>2. \A e \in S : rank[e] \in 1 .. C
  <2>2. \A e \in S : Rank(S, e) \in Nat /\ Rank(S, e) <= C /\ Rank(S, e) > 0
    BY RankGrows
  <2> QED BY <1>1, <2>2
<1>3. \A e, f \in S : e # f => rank[e] # rank[f]
  <2>1. SUFFICES ASSUME NEW e \in S, NEW f \in S, e < f PROVE rank[e] # rank[f]
    <3>1. \A e, f \in S : e # f => e < f \/ f < e
      OBVIOUS
    <3> QED BY <2>1, <3>1
  <2>3. Rank(S, e) < Rank(S, f) /\ Rank(S, e) \in Nat /\ Rank(S, f) \in Nat
    BY <2>1, RankGrows
  <2> QED BY <2>3
<1>4. rank \in Injection(S, 1 .. C)
  BY <1>2, <1>3 DEF Injection, IsInjective
<1>5. IsFiniteSet(1 .. C) /\ Cardinality(1 .. C) = C
  BY <1>1, FS_Interval
<1>6. rank \in Surjection(S, 1 .. C)
  BY <1>4, <1>5, FS_Injection
<1> QED BY <1>6 DEF Surjection

\* A page that something comes after is full.
LEMMA PageFull ==
    ASSUME NEW n \in Nat, NEW S, S \subseteq 1 .. n, NEW from \in Nat, NEW take \in Nat,
           NEW e \in S, Rank(S, e) > from + take
    PROVE  Cardinality({x \in S : from < Rank(S, x) /\ Rank(S, x) <= from + take}) = take
<1> DEFINE P == {x \in S : from < Rank(S, x) /\ Rank(S, x) <= from + take}
           place == [x \in P |-> Rank(S, x) - from]
<1>1. \A x \in S : x \in Nat
  BY RankGrows
<1>2. \A x \in S : Rank(S, x) \in Nat /\ Rank(S, x) <= Cardinality(S)
  BY RankGrows
<1>3. Cardinality(S) \in Nat /\ IsFiniteSet(P)
  <2>1. P \subseteq S
    OBVIOUS
  <2> HIDE DEF P
  <2> QED BY <2>1, CountsAre
<1>4. place \in Injection(P, 1 .. take)
  <2>1. \A x \in P : place[x] \in 1 .. take
    BY <1>2
  <2>2. \A x, y \in P : x # y => place[x] # place[y]
    <3>1. SUFFICES ASSUME NEW x \in P, NEW y \in P, x < y PROVE place[x] # place[y]
      <4>1. \A x, y \in P : x # y => x < y \/ y < x
        BY <1>1
      <4> QED BY <3>1, <4>1
    <3>2. x \in S /\ y \in S
      OBVIOUS
    <3>3. Rank(S, x) < Rank(S, y) /\ Rank(S, x) \in Nat /\ Rank(S, y) \in Nat
      BY <3>1, <3>2, RankGrows
    <3> QED BY <3>3
  <2> HIDE DEF P
  <2> QED BY <2>1, <2>2 DEF Injection, IsInjective
<1>5. place \in Surjection(P, 1 .. take)
  <2>1. \A k \in 1 .. take : \E x \in P : place[x] = k
    <3>1. SUFFICES ASSUME NEW k \in 1 .. take PROVE \E x \in P : place[x] = k
      OBVIOUS
    <3>2. from + k \in 1 .. Cardinality(S)
      BY <1>2, <1>3
    <3>3. PICK x \in S : Rank(S, x) = from + k
      BY <3>2, RankOnto
    <3>4. x \in P
      BY <3>3
    <3> QED BY <3>3, <3>4
  <2> HIDE DEF P
  <2> QED BY <1>4, <2>1 DEF Surjection, Injection, IsInjective
<1>6. IsFiniteSet(1 .. take) /\ Cardinality(1 .. take) = take
  BY FS_Interval
<1> HIDE DEF P, place
<1>7. Cardinality(P) = Cardinality(1 .. take)
  BY <1>4, <1>5, <1>6, FS_Injection
<1> QED BY <1>6, <1>7 DEF P

-------------------------------------------------------------------------------
(***************************************************************************)
(* AttachmentStore, for any calls and keys, and any number of attempts.    *)
(*                                                                         *)
(* The argument: a key that was drawn belongs to one call and is not drawn *)
(* again, so what a creating call says of its key nobody else can undo but *)
(* a deletion (Fills), and a key that a call has stands for a record, a    *)
(* file or a deletion that some call knows of (Has).  A call that learnt   *)
(* nothing of its attempts at a record has made fewer records than         *)
(* attempts (Makes).  A step of another call respects what these rest on   *)
(* (Relied).                                                               *)
(***************************************************************************)
LEMMA StoreCardinality ==
    /\ \A S : Attachments!Cardinality(S) = Cardinality(S)
    /\ \A S : Attachments!IsFiniteSet(S) <=> IsFiniteSet(S)
<1>1. \A S : Attachments!IsFiniteSet(S) <=> IsFiniteSet(S)
  BY DEF Attachments!IsFiniteSet, IsFiniteSet
<1>2. \A S : Attachments!Cardinality(S) = Cardinality(S)
  BY DEF Attachments!Cardinality, Cardinality, Attachments!IsFiniteSet, IsFiniteSet
<1> QED BY <1>1, <1>2

StoreRecords ==
    [op : Attachments!Creating \cup Attachments!Using \cup {"none", "keep", "delete"},
     pc : {"idle", "create", "put", "link", "keep", "locate", "fetch", "delete", "returned", "raised"},
     key : AttachmentKeys \cup {NoKey}, tries : Nat, blind : BOOLEAN,
     file : {"before", "partial", "content", "error page"}]
StoreTyped ==
    /\ record \in [AttachmentKeys -> {"none", "live", "deleted"}] /\ auth \subseteq AttachmentKeys
       /\ blob \subseteq AttachmentKeys
    /\ links \subseteq AttachmentKeys /\ local \subseteq AttachmentKeys /\ call \in [Callers -> StoreRecords]
    /\ owner \in [DOMAIN owner -> Callers] /\ DOMAIN owner \subseteq AttachmentKeys
       /\ refused \subseteq AttachmentKeys

\* Call d deleted k, and may not know.
StoreDeleter(d, k) == call[d].op = "delete" /\ call[d].key = k
        /\ (Attachments!At(d, "returned") \/ call[d].blind)
StoreDeleted(d, k) == call[d].op = "delete" /\ call[d].key = k /\ Attachments!At(d, "returned")

\* What is true of a key, whoever has it.
StoreKeyInv(k) ==
    /\ k \in GivenAttachments \cup DOMAIN owner => record[k] # "none"
    /\ k \in local => record[k] = "none" /\ \E d \in Callers : call[d].key = k
    /\ record[k] = "deleted" => \E d \in Callers : StoreDeleter(d, k)
    /\ k \in links => k \in blob \cup refused \/ record[k] = "deleted"

\* Where call c may be, by what it is.
StorePlaced(c) ==
    /\ Attachments!At(c, "idle") => call[c].key = NoKey /\ ~call[c].blind /\ call[c].tries = 1
    /\ Attachments!At(c, "create") => call[c].op \in Attachments!Creating /\ call[c].key = NoKey
    /\ Attachments!At(c, "put") => call[c].op \in Attachments!Creating
    /\ Attachments!At(c, "link") => call[c].op = "attach"
    /\ Attachments!At(c, "keep") => call[c].op = "keep" /\ call[c].key = NoKey
    /\ call[c].pc \in {"locate", "fetch"} => call[c].op \in Attachments!Using
    /\ Attachments!At(c, "delete") => call[c].op = "delete"
    /\ call[c].pc \in {"put", "link", "locate", "fetch", "delete", "returned"} => call[c].key \in AttachmentKeys
    /\ call[c].op = "delete" /\ ~Attachments!At(c, "idle") => call[c].key \in AttachmentKeys

\* The records a call has made are as many as its attempts at making one.
StoreMakes(c) ==
    /\ Attachments!At(c, "idle") \/ call[c].op \notin Attachments!Creating => Attachments!Made(c) = {}
    /\ Attachments!At(c, "create") =>
          /\ Cardinality(Attachments!Made(c)) < call[c].tries /\ call[c].tries <= MaxRetryAttempts
          /\ ~call[c].blind => Attachments!Made(c) = {}
    /\ Cardinality(Attachments!Made(c)) <= IF call[c].blind THEN MaxRetryAttempts ELSE 1

\* The record is made before the content is put, and that before it is linked.
StoreFills(c) ==
    call[c].op \in Attachments!Creating =>
       /\ call[c].pc \in {"put", "link", "returned"} => call[c].key \in Attachments!Made(c)
       /\ call[c].pc \in {"link", "returned"} =>
             call[c].key \in blob \cup refused \/ record[call[c].key] = "deleted"
       /\ call[c].op = "attach" /\ Attachments!At(c, "returned") => call[c].key \in links

\* A key the program has is of a record or a file, or of one it knows is deleted.
StoreHas(c) ==
    LET k == call[c].key IN
    k \in AttachmentKeys => record[k] # "none" \/ k \in local \/ \E d \in Callers : StoreDeleted(d, k)

StoreDeletes(c) ==
    LET k == call[c].key IN
    StoreDeleted(c, k) => k \notin Attachments!Live \cup local /\ \A d \in Callers \ {c} : ~StoreDeleted(d, k)

StoreCallInv(c) == StorePlaced(c) /\ StoreMakes(c) /\ StoreFills(c) /\ StoreHas(c) /\ StoreDeletes(c)
StoreIInv == StoreTyped /\ (\A k \in AttachmentKeys : StoreKeyInv(k)) /\ \A c \in Callers : StoreCallInv(c)

\* What a step of x leaves the other calls.
StoreRelied(x) ==
    /\ \A d \in Callers : d # x => call'[d] = call[d] /\ Attachments!Made(d)' = Attachments!Made(d)
    /\ \A k \in AttachmentKeys :
          /\ k \in blob => k \in blob' \/ record'[k] = "deleted"
          /\ k \in refused => k \in refused'
          /\ k \in links => k \in links'
          /\ record[k] # "none" => record'[k] # "none"
          /\ record[k] = "deleted" => record'[k] = "deleted"
          /\ k \in local => k \in local' \/ StoreDeleted(x, k)'
          /\ \A d \in Callers :
                /\ call[d].key = k =>
                      /\ call'[d].key = k
                      /\ k \in (Attachments!Live \cup local)' => k \in Attachments!Live \cup local
                /\ StoreDeleted(d, k) => StoreDeleted(d, k)'
                /\ StoreDeleter(d, k) => StoreDeleter(d, k)'
          /\ StoreDeleted(x, k)' => StoreDeleted(x, k) \/ k \in Attachments!Live \cup local

LEMMA StoreOthersInv ==
    ASSUME StoreTyped, NEW x \in Callers, StoreRelied(x), StoreTyped', NEW d \in Callers, d # x, StoreCallInv(d)
    PROVE  StoreCallInv(d)'
<1>1. call'[d] = call[d] /\ Attachments!Made(d)' = Attachments!Made(d) /\ call[d] \in StoreRecords
  BY DEF StoreRelied, StoreTyped
<1>2. StorePlaced(d)'
  BY <1>1 DEF StoreCallInv, StorePlaced, Attachments!At
<1>3. StoreMakes(d)'
  <2> DEFINE M == Attachments!Made(d)
  <2>1. StoreMakes(d)
    BY DEF StoreCallInv
  <2> QED BY <1>1, <2>1 DEF StoreMakes, Attachments!At
<1>4. StoreFills(d)'
  BY <1>1 DEF StoreCallInv, StorePlaced, StoreFills, StoreRelied, Attachments!At
<1>5. StoreHas(d)'
  <2> DEFINE k == call[d].key
  <2> SUFFICES ASSUME k \in AttachmentKeys
               PROVE  record'[k] # "none" \/ k \in local' \/ \E e \in Callers : StoreDeleted(e, k)'
    BY <1>1 DEF StoreHas
  <2> QED BY DEF StoreCallInv, StoreHas, StoreRelied
<1>6. StoreDeletes(d)'
  <2> DEFINE k == call[d].key
  <2> SUFFICES ASSUME StoreDeleted(d, k)
               PROVE  k \notin (Attachments!Live \cup local)' /\ \A e \in Callers \ {d} : ~StoreDeleted(e, k)'
    BY <1>1 DEF StoreDeletes, StoreDeleted, Attachments!At
  <2>1. k \in AttachmentKeys
    BY DEF StoreCallInv, StorePlaced, StoreDeleted, Attachments!At
  <2>2. k \notin Attachments!Live \cup local /\ \A e \in Callers \ {d} : ~StoreDeleted(e, k)
    BY DEF StoreCallInv, StoreDeletes
  <2>3. k \notin (Attachments!Live \cup local)'
    BY <2>1, <2>2 DEF StoreRelied
  <2>4. ASSUME NEW e \in Callers \ {d} PROVE ~StoreDeleted(e, k)'
    <3>1. CASE e = x
      BY <2>1, <2>2, <3>1 DEF StoreRelied
    <3>2. CASE e # x
      BY <2>2, <3>2 DEF StoreRelied, StoreDeleted, Attachments!At
    <3> QED BY <3>1, <3>2
  <2> QED BY <2>3, <2>4
<1> QED BY <1>2, <1>3, <1>4, <1>5, <1>6 DEF StoreCallInv

LEMMA StoreTogether ==
    ASSUME StoreIInv, NEW c \in Callers, StoreRelied(c), StoreTyped', \A k \in AttachmentKeys : StoreKeyInv(k)',
           StoreCallInv(c)'
    PROVE  StoreIInv'
  BY StoreOthersInv DEF StoreIInv

\* What a call goes on with: its key and its records are as they were.
LEMMA StoreGoesOn ==
    ASSUME StoreIInv, NEW c \in Callers, StoreRelied(c), StoreTyped', call'[c].op = call[c].op,
           call'[c].key = call[c].key,
           call[c].blind => call'[c].blind, Attachments!Made(c)' = Attachments!Made(c),
           call[c].pc \notin {"idle", "create"}, call'[c].pc \notin {"idle", "create"},
           StorePlaced(c)', StoreFills(c)', StoreDeletes(c)', Attachments!StoreAssumption
    PROVE  StoreCallInv(c)'
<1>1. call[c].pc \notin {"idle", "create"} /\ StoreMakes(c) /\ StoreHas(c) /\ MaxRetryAttempts \in Nat \ {0}
  BY RequestAssumption DEF StoreIInv, StoreCallInv
<1>2. StoreMakes(c)'
  <2>1. IsFiniteSet(Attachments!Made(c))
    BY StoreCardinality, FS_Subset DEF StoreIInv, StoreTyped, Attachments!Made, Attachments!StoreAssumption
  <2>2. Cardinality(Attachments!Made(c)) \in Nat
    BY <2>1, FS_CardinalityType
  <2>3. Cardinality(Attachments!Made(c)) <= IF call[c].blind THEN MaxRetryAttempts ELSE 1
    BY <1>1 DEF StoreMakes
  <2>4. call[c].op \notin Attachments!Creating => Attachments!Made(c) = {}
    BY <1>1 DEF StoreMakes
  <2>5. Cardinality(Attachments!Made(c)) <= IF call'[c].blind THEN MaxRetryAttempts ELSE 1
    BY <1>1, <2>2, <2>3
  <2> QED BY <2>4, <2>5 DEF StoreMakes, Attachments!At
<1>3. StoreHas(c)'
  BY <1>1 DEF StoreHas, StoreRelied
<1> QED BY <1>2, <1>3 DEF StoreCallInv

-------------------------------------------------------------------------------
\* What becomes of a call after an attempt.
LEMMA StoreOneMore == \A n \in Nat : n + 1 \in Nat
  OBVIOUS

LEMMA StoreGoneOnIs ==
    ASSUME StoreTyped, NEW c \in Callers,
           NEW pc \in {"put", "link", "fetch", "returned", "raised"}
    PROVE  LET r == Attachments!Go(c, pc) IN
           /\ r \in [Callers -> StoreRecords] /\ \A d \in Callers \ {c} : r[d] = call[d]
           /\ r[c].op = call[c].op /\ r[c].pc = pc /\ r[c].key = call[c].key /\ r[c].blind = call[c].blind
<1> DEFINE q == [call[c] EXCEPT !.pc = pc, !.tries = 1]
<1>1. call[c] \in StoreRecords
  BY DEF StoreTyped
<1>2. q \in StoreRecords
  BY <1>1 DEF StoreRecords
<1>3. q.op = call[c].op /\ q.pc = pc /\ q.key = call[c].key /\ q.blind = call[c].blind
  BY <1>1 DEF StoreRecords
<1>4. Attachments!Go(c, pc) = [call EXCEPT ![c] = q]
  BY DEF StoreTyped, Attachments!Go
<1> QED BY <1>2, <1>3, <1>4 DEF StoreTyped

LEMMA StoreGoneOnWith ==
    ASSUME StoreTyped, NEW c \in Callers, NEW pc \in {"put", "returned"}, NEW k \in AttachmentKeys
    PROVE  LET r == [Attachments!Go(c, pc) EXCEPT ![c].key = k] IN
           /\ r \in [Callers -> StoreRecords] /\ \A d \in Callers \ {c} : r[d] = call[d]
           /\ r[c].op = call[c].op /\ r[c].pc = pc /\ r[c].key = k /\ r[c].blind = call[c].blind
<1> DEFINE g == Attachments!Go(c, pc)
           q == [g[c] EXCEPT !.key = k]
<1>1. /\ g \in [Callers -> StoreRecords] /\ \A d \in Callers \ {c} : g[d] = call[d]
      /\ g[c].op = call[c].op /\ g[c].pc = pc /\ g[c].blind = call[c].blind
  BY StoreGoneOnIs
<1> HIDE DEF g
<1>2. g[c] \in StoreRecords
  BY <1>1
<1>3. q \in StoreRecords /\ q.op = g[c].op /\ q.pc = g[c].pc /\ q.key = k /\ q.blind = g[c].blind
  BY <1>2 DEF StoreRecords
<1>4. [g EXCEPT ![c].key = k] = [g EXCEPT ![c] = q]
  BY <1>1
<1> QED BY <1>1, <1>3, <1>4 DEF g

LEMMA StoreNotAnswered ==
    ASSUME StoreTyped, NEW c \in Callers, NEW a \in Attachments!Attempts, NEW x, call' = Attachments!After(c, a, x),
           a.seen # "answer"
    PROVE  /\ call' \in [Callers -> StoreRecords] /\ \A d \in Callers \ {c} : call'[d] = call[d]
           /\ call'[c].op = call[c].op /\ call'[c].key = call[c].key
           /\ call'[c].blind = (call[c].blind \/ Attachments!Unanswered(a))
           /\ \/ call'[c].pc = "raised"
              \/ /\ call'[c].pc = call[c].pc /\ call[c].tries < MaxRetryAttempts
                 /\ call'[c].tries = call[c].tries + 1
<1>1. call[c] \in StoreRecords /\ call[c].tries \in Nat
  BY DEF StoreTyped, StoreRecords
<1>2. call[c].tries + 1 \in Nat
  BY <1>1, StoreOneMore
<1>3. Attachments!Unanswered(a) \in BOOLEAN
  BY DEF Attachments!Unanswered, Attachments!Attempts
<1>4. PICK b \in BOOLEAN : b = (call[c].blind \/ Attachments!Unanswered(a))
  BY <1>1, <1>3 DEF StoreRecords
<1>5. CASE Attachments!Retries(a, call[c].tries)
  <2> DEFINE q == [call[c] EXCEPT !.tries = call[c].tries + 1, !.blind = b]
  <2>1. /\ q \in StoreRecords /\ q.op = call[c].op /\ q.pc = call[c].pc /\ q.key = call[c].key /\ q.blind = b
        /\ q.tries = call[c].tries + 1
    BY <1>1, <1>2 DEF StoreRecords
  <2>2. call' = [call EXCEPT ![c] = q]
    BY <1>1, <1>4, <1>5 DEF Attachments!After, StoreTyped, StoreRecords
  <2>3. call[c].tries < MaxRetryAttempts
    BY <1>5 DEF Attachments!Retries
  <2> HIDE DEF q
  <2> QED BY <1>4, <2>1, <2>2, <2>3 DEF StoreTyped
<1>6. CASE ~Attachments!Retries(a, call[c].tries)
  <2> DEFINE q == [call[c] EXCEPT !.pc = "raised", !.blind = b]
  <2>1. q \in StoreRecords /\ q.op = call[c].op /\ q.pc = "raised" /\ q.key = call[c].key /\ q.blind = b
    BY <1>1 DEF StoreRecords
  <2>2. call' = [call EXCEPT ![c] = q]
    BY <1>1, <1>4, <1>6 DEF Attachments!After, StoreTyped, StoreRecords
  <2> HIDE DEF q
  <2> QED BY <1>4, <2>1, <2>2 DEF StoreTyped
<1> QED BY <1>5, <1>6

\* A call moves, and neither deletes anything nor learns a key of another's.
StoreMoves(c) ==
    /\ call' \in [Callers -> StoreRecords] /\ \A d \in Callers \ {c} : call'[d] = call[d]
    /\ call[c].pc \notin {"returned", "raised"}
    /\ call[c].blind => call'[c].blind
    /\ call[c].key \in AttachmentKeys => call'[c].key = call[c].key /\ call'[c].op = call[c].op

LEMMA StoreCallsKeep ==
    ASSUME StoreTyped, NEW c \in Callers, StoreMoves(c)
    PROVE  \A k \in AttachmentKeys, d \in Callers :
              /\ call[d].key = k => call'[d].key = k
              /\ StoreDeleted(d, k) => StoreDeleted(d, k)'
              /\ StoreDeleter(d, k) => StoreDeleter(d, k)'
<1> SUFFICES ASSUME NEW k \in AttachmentKeys, NEW d \in Callers
             PROVE  /\ call[d].key = k => call'[d].key = k
                    /\ StoreDeleted(d, k) => StoreDeleted(d, k)'
                    /\ StoreDeleter(d, k) => StoreDeleter(d, k)'
  OBVIOUS
<1>1. CASE d = c
  BY <1>1 DEF StoreMoves, StoreDeleted, StoreDeleter, Attachments!At
<1>2. CASE d # c
  BY <1>2 DEF StoreMoves, StoreDeleted, StoreDeleter, Attachments!At
<1> QED BY <1>1, <1>2

\* Nothing else changes.
LEMMA StoreQuietly ==
    ASSUME StoreIInv, NEW c \in Callers, StoreMoves(c),
           UNCHANGED <<Attachments!server, local, Attachments!history>>,
           call'[c].op # "delete" \/ call'[c].pc # "returned"
    PROVE  StoreRelied(c) /\ StoreTyped' /\ (\A k \in AttachmentKeys : StoreKeyInv(k)')
                             /\ Attachments!Made(c)' = Attachments!Made(c)
<1>1. /\ record' = record /\ auth' = auth /\ blob' = blob /\ links' = links /\ local' = local
      /\ owner' = owner /\ refused' = refused
  BY DEF Attachments!server, Attachments!history
<1>2. \A k \in AttachmentKeys, d \in Callers :
         /\ call[d].key = k => call'[d].key = k
         /\ StoreDeleted(d, k) => StoreDeleted(d, k)'
         /\ StoreDeleter(d, k) => StoreDeleter(d, k)'
  BY StoreCallsKeep DEF StoreIInv
<1>3. \A d \in Callers : Attachments!Made(d)' = Attachments!Made(d)
  BY <1>1 DEF Attachments!Made
<1>4. \A k \in AttachmentKeys : ~StoreDeleted(c, k)'
  BY DEF StoreDeleted, Attachments!At
<1>5. StoreTyped'
  BY <1>1 DEF StoreIInv, StoreTyped, StoreMoves
<1>6. StoreRelied(c)
  BY <1>1, <1>2, <1>3, <1>4 DEF StoreRelied, StoreMoves, Attachments!Live
<1>7. ASSUME NEW k \in AttachmentKeys PROVE StoreKeyInv(k)'
  BY <1>1, <1>2 DEF StoreIInv, StoreKeyInv
<1> QED BY <1>3, <1>5, <1>6, <1>7

\* An attempt that comes to nothing, if it may be made again.
LEMMA StoreAttemptFails ==
    ASSUME StoreIInv, Attachments!StoreAssumption, NEW c \in Callers, NEW a \in Attachments!Attempts, NEW x,
           call' = Attachments!After(c, a, x), a.seen # "answer",
           call[c].pc \in {"put", "link", "locate", "delete"}, StoreRelied(c), StoreTyped',
           Attachments!Made(c)' = Attachments!Made(c)
    PROVE  StoreCallInv(c)'
<1>1. /\ call'[c].op = call[c].op /\ call'[c].key = call[c].key /\ (call[c].blind => call'[c].blind)
      /\ call'[c].pc \in {call[c].pc, "raised"}
  BY StoreNotAnswered DEF StoreIInv
<1>2. StorePlaced(c)'
  BY <1>1 DEF StoreIInv, StoreCallInv, StorePlaced, Attachments!At
<1>3. StoreFills(c)'
  BY <1>1 DEF StoreIInv, StoreCallInv, StorePlaced, StoreFills, StoreRelied, Attachments!At
<1>4. StoreDeletes(c)'
  BY <1>1 DEF StoreDeletes, StoreDeleted, Attachments!At
<1> QED BY <1>1, <1>2, <1>3, <1>4, StoreGoesOn

LEMMA StoreAttemptMoves ==
    ASSUME StoreTyped, NEW c \in Callers, NEW a \in Attachments!Attempts, NEW x, call' = Attachments!After(c, a, x),
           a.seen # "answer",
           call[c].pc \in {"create", "put", "link", "locate", "delete"}
    PROVE  StoreMoves(c) /\ ~Attachments!At(c, "returned")'
  BY StoreNotAnswered DEF StoreMoves, Attachments!At

LEMMA StoreGoingMoves ==
    ASSUME StoreTyped, NEW c \in Callers, NEW pc \in {"put", "link", "fetch", "returned", "raised"},
           call' = Attachments!Go(c, pc),
           call[c].pc \notin {"returned", "raised"}
    PROVE  StoreMoves(c) /\ call'[c].op = call[c].op /\ call'[c].pc = pc /\ call'[c].key = call[c].key
           /\ call'[c].blind = call[c].blind
  BY StoreGoneOnIs DEF StoreMoves

-------------------------------------------------------------------------------
\* The actions.
LEMMA StoreBeginInv ==
    ASSUME StoreIInv, Attachments!StoreAssumption, NEW c \in Callers, Attachments!Begin(c)
    PROVE  StoreIInv'
<1>1. /\ Attachments!At(c, "idle") /\ UNCHANGED <<Attachments!server, local, Attachments!history>>
         /\ call \in [Callers -> StoreRecords] /\ call[c] \in StoreRecords
      /\ call[c].key = NoKey /\ NoKey \notin AttachmentKeys /\ ~call[c].blind /\ Attachments!Made(c) = {}
  BY DEF Attachments!Begin, StoreIInv, StoreTyped, StoreCallInv, StorePlaced, StoreMakes,
     Attachments!StoreAssumption
<1>2. ASSUME NEW k \in Attachments!Known
      PROVE  k \in AttachmentKeys /\ (record[k] # "none" \/ k \in local \/ \E d \in Callers : StoreDeleted(d, k))
  <2>1. CASE k \in GivenAttachments
    BY <2>1 DEF StoreIInv, StoreKeyInv, Attachments!StoreAssumption
  <2>2. CASE k \notin GivenAttachments
    <3>1. PICK d \in Callers : Attachments!At(d, "returned") /\ k = call[d].key
      BY <2>2 DEF Attachments!Known, Attachments!At
    <3> QED BY <3>1 DEF StoreIInv, StoreCallInv, StorePlaced, StoreHas, Attachments!At
  <2> QED BY <2>1, <2>2
<1>3. PICK op \in Attachments!Creating \cup Attachments!Using \cup {"keep", "delete"},
           pc \in {"create", "keep", "locate", "delete"},
           k \in Attachments!Known \cup {NoKey} :
         /\ call' = [call EXCEPT ![c] = [@ EXCEPT !.op = op, !.pc = pc, !.key = k]]
         /\ \/ op \in Attachments!Creating /\ pc = "create" /\ k = NoKey
            \/ op = "keep" /\ pc = "keep" /\ k = NoKey
            \/ op \in Attachments!Using /\ pc = "locate" /\ k \in Attachments!Known
            \/ op = "delete" /\ pc = "delete" /\ k \in Attachments!Known
  <2>1. ASSUME NEW op \in Attachments!Creating, call' = [call EXCEPT ![c].op = op, ![c].pc = "create"]
        PROVE  call' = [call EXCEPT ![c] = [@ EXCEPT !.op = op, !.pc = "create", !.key = NoKey]]
    BY <1>1, <2>1 DEF StoreRecords
  <2>2. ASSUME call' = [call EXCEPT ![c].op = "keep", ![c].pc = "keep"]
        PROVE  call' = [call EXCEPT ![c] = [@ EXCEPT !.op = "keep", !.pc = "keep", !.key = NoKey]]
    BY <1>1, <2>2 DEF StoreRecords
  <2>3. ASSUME NEW k \in Attachments!Known, NEW op \in Attachments!Using,
               call' = [call EXCEPT ![c].op = op, ![c].pc = "locate", ![c].key = k]
        PROVE  call' = [call EXCEPT ![c] = [@ EXCEPT !.op = op, !.pc = "locate", !.key = k]]
    BY <1>1, <2>3
  <2>4. ASSUME NEW k \in Attachments!Known,
               call' = [call EXCEPT ![c].op = "delete", ![c].pc = "delete", ![c].key = k]
        PROVE  call' = [call EXCEPT ![c] = [@ EXCEPT !.op = "delete", !.pc = "delete", !.key = k]]
    BY <1>1, <2>4
  <2> QED BY <2>1, <2>2, <2>3, <2>4 DEF Attachments!Begin
<1> DEFINE q == [call[c] EXCEPT !.op = op, !.pc = pc, !.key = k]
<1>4. k \in AttachmentKeys \cup {NoKey}
  BY <1>2
<1>5. /\ q \in StoreRecords /\ q.op = op /\ q.pc = pc /\ q.key = k /\ q.blind = call[c].blind
         /\ q.tries = call[c].tries
  BY <1>1, <1>4 DEF StoreRecords
<1>6. call' = [call EXCEPT ![c] = q]
  BY <1>1, <1>3
<1> HIDE DEF q
<1>7. /\ call' \in [Callers -> StoreRecords] /\ (\A d \in Callers \ {c} : call'[d] = call[d])
         /\ call'[c].op = op
      /\ call'[c].pc = pc /\ call'[c].key = k /\ ~call'[c].blind /\ call'[c].tries = call[c].tries
  BY <1>1, <1>5, <1>6
<1>8. StoreMoves(c)
  BY <1>1, <1>7 DEF StoreMoves, Attachments!At
<1>9. StoreRelied(c) /\ StoreTyped' /\ (\A j \in AttachmentKeys : StoreKeyInv(j)') /\ Attachments!Made(c)' = {}
  BY <1>1, <1>7, <1>8, StoreQuietly
<1>10. StoreCallInv(c)'
  <2>1. StorePlaced(c)'
    BY <1>1, <1>2, <1>3, <1>7 DEF StorePlaced, Attachments!At, Attachments!Creating, Attachments!Using
  <2>2. StoreMakes(c)'
    <3>1. Cardinality({}) = 0 /\ MaxRetryAttempts \in Nat \ {0}
      BY FS_EmptySet, RequestAssumption
    <3>2. call[c].tries = 1
      BY <1>1 DEF StoreIInv, StoreCallInv, StorePlaced
    <3> QED BY <1>7, <1>9, <3>1, <3>2 DEF StoreMakes, Attachments!At
  <2>3. StoreFills(c)'
    BY <1>3, <1>7 DEF StoreFills, Attachments!At
  <2>4. StoreHas(c)'
    BY <1>1, <1>2, <1>3, <1>7, <1>9 DEF StoreHas, StoreRelied
  <2>5. StoreDeletes(c)'
    BY <1>3, <1>7 DEF StoreDeletes, StoreDeleted, Attachments!At
  <2> QED BY <2>1, <2>2, <2>3, <2>4, <2>5 DEF StoreCallInv
<1> QED BY <1>9, <1>10, StoreTogether

LEMMA StoreCreateInv ==
    ASSUME StoreIInv, Attachments!StoreAssumption, NEW c \in Callers, Attachments!Create(c)
    PROVE  StoreIInv'
<1>1. PICK a \in Attachments!Attempts :
         /\ IF a.applied
            THEN /\ record' = [record EXCEPT ![Attachments!NewKey] = "live"]
                 /\ auth' \in {auth, auth \cup {Attachments!NewKey}}
                 /\ owner' = [k \in DOMAIN owner \cup {Attachments!NewKey} |->
                                    IF k = Attachments!NewKey THEN c ELSE owner[k]]
            ELSE UNCHANGED <<record, auth, owner>>
         /\ call' = Attachments!After(c, a, [Attachments!Go(c, "put") EXCEPT ![c].key = Attachments!NewKey])
  BY DEF Attachments!Create
<1> DEFINE n == Attachments!NewKey
<1>2. /\ n \in AttachmentKeys /\ record[n] = "none" /\ \A d \in Callers : call[d].key # n
  BY DEF Attachments!Create, Attachments!Undrawn, Attachments!NewKey
<1> HIDE DEF n
<1>3. /\ n \notin local /\ n \notin DOMAIN owner
  BY <1>2 DEF StoreIInv, StoreKeyInv
<1>4. /\ blob' = blob /\ links' = links /\ local' = local /\ refused' = refused /\ Attachments!At(c, "create")
  BY DEF Attachments!Create
<1>5. /\ call[c] \in StoreRecords /\ call[c].op \in Attachments!Creating /\ call[c].key = NoKey
         /\ NoKey \notin AttachmentKeys
      /\ Cardinality(Attachments!Made(c)) < call[c].tries /\ call[c].tries <= MaxRetryAttempts
      /\ ~call[c].blind => Attachments!Made(c) = {}
  BY <1>4 DEF StoreIInv, StoreTyped, StoreCallInv, StorePlaced, StoreMakes, Attachments!StoreAssumption
<1>6. /\ StoreMoves(c) /\ call'[c].op = call[c].op
      /\ \/ a.seen = "answer" /\ call'[c].pc = "put" /\ call'[c].key = n /\ call'[c].blind = call[c].blind
         \/ /\ a.seen # "answer" /\ call'[c].key = NoKey
               /\ call'[c].blind = (call[c].blind \/ Attachments!Unanswered(a))
            /\ \/ call'[c].pc = "raised"
               \/ call'[c].pc = "create" /\ call'[c].tries = call[c].tries + 1
                       /\ call[c].tries < MaxRetryAttempts
  <2>1. CASE a.seen = "answer"
    <3>1. call' = [Attachments!Go(c, "put") EXCEPT ![c].key = n]
      BY <1>1, <2>1 DEF Attachments!After, n
    <3>2. StoreTyped
      BY DEF StoreIInv
    <3> QED BY <1>2, <1>4, <1>5, <2>1, <3>1, <3>2, StoreGoneOnWith DEF StoreMoves, Attachments!At
  <2>2. CASE a.seen # "answer"
    <3>1. call' = Attachments!After(c, a, [Attachments!Go(c, "put") EXCEPT ![c].key = n]) /\ StoreTyped
      BY <1>1 DEF n, StoreIInv
    <3> QED BY <1>4, <1>5, <2>2, <3>1, StoreNotAnswered, StoreAttemptMoves DEF Attachments!At
  <2> QED BY <2>1, <2>2
<1>7. \A j \in AttachmentKeys, d \in Callers :
         /\ call[d].key = j => call'[d].key = j
         /\ StoreDeleted(d, j) => StoreDeleted(d, j)'
         /\ StoreDeleter(d, j) => StoreDeleter(d, j)'
  BY <1>6, StoreCallsKeep DEF StoreIInv
<1>8. \A j \in AttachmentKeys : ~StoreDeleted(c, j)'
  BY <1>6 DEF StoreDeleted, Attachments!At
<1>9. CASE ~a.applied
  <2>1. a.seen # "answer"
    BY <1>9 DEF Attachments!Attempts
  <2>2. record' = record /\ auth' = auth /\ owner' = owner
    BY <1>1, <1>9
  <2>3. StoreRelied(c) /\ StoreTyped' /\ (\A j \in AttachmentKeys : StoreKeyInv(j)')
                          /\ Attachments!Made(c)' = Attachments!Made(c)
    BY <1>4, <1>6, <2>1, <2>2, StoreQuietly DEF Attachments!server, Attachments!history
  <2>4. StoreCallInv(c)'
    <3>1. StorePlaced(c)'
      BY <1>5, <1>6, <2>1 DEF StorePlaced, Attachments!At, Attachments!Creating
    <3>2. StoreMakes(c)'
      <4>1. IsFiniteSet(Attachments!Made(c))
        BY StoreCardinality, FS_Subset DEF StoreIInv, StoreTyped, Attachments!Made, Attachments!StoreAssumption
      <4>2. Cardinality(Attachments!Made(c)) \in Nat /\ MaxRetryAttempts \in Nat \ {0} /\ call[c].tries \in Nat
        BY <1>5, <4>1, FS_CardinalityType, RequestAssumption DEF StoreRecords
      <4>3. Attachments!Unanswered(a) = FALSE
        BY <1>9 DEF Attachments!Unanswered
      <4>4. Cardinality({}) = 0
        BY FS_EmptySet
      <4>5. ~call'[c].blind => Attachments!Made(c) = {}
        BY <1>5, <1>6, <2>1, <4>3
      <4>6. Cardinality(Attachments!Made(c)) <= IF call'[c].blind THEN MaxRetryAttempts ELSE 1
        BY <1>5, <4>2, <4>4, <4>5
      <4>7. call'[c].pc = "create" =>
                     Cardinality(Attachments!Made(c)) < call'[c].tries /\ call'[c].tries <= MaxRetryAttempts
        BY <1>5, <1>6, <2>1, <4>2
      <4> QED BY <1>5, <1>6, <2>1, <2>3, <4>5, <4>6, <4>7 DEF StoreMakes, Attachments!At
    <3>3. StoreFills(c)'
      BY <1>6, <2>1 DEF StoreFills, Attachments!At
    <3>4. StoreHas(c)'
      BY <1>5, <1>6, <2>1 DEF StoreHas
    <3>5. StoreDeletes(c)'
      BY <1>6, <2>1 DEF StoreDeletes, StoreDeleted, Attachments!At
    <3> QED BY <3>1, <3>2, <3>3, <3>4, <3>5 DEF StoreCallInv
  <2> QED BY <2>3, <2>4, StoreTogether
<1>10. CASE a.applied
  <2>1. /\ record' = [record EXCEPT ![n] = "live"] /\ auth' \in {auth, auth \cup {n}}
        /\ owner' = [k \in DOMAIN owner \cup {n} |-> IF k = n THEN c ELSE owner[k]]
    BY <1>1, <1>10 DEF n
  <2>2. StoreTyped'
    BY <1>2, <1>4, <1>6, <2>1 DEF StoreIInv, StoreTyped, StoreMoves
  <2>3. Attachments!Made(c)' = Attachments!Made(c) \cup {n} /\ n \notin Attachments!Made(c)
          /\ \A d \in Callers : d # c => Attachments!Made(d)' = Attachments!Made(d)
    BY <1>3, <2>1 DEF Attachments!Made
  <2>4. StoreRelied(c)
    <3>1. ASSUME NEW j \in AttachmentKeys, NEW d \in Callers, call[d].key = j, j \in (Attachments!Live \cup local)'
          PROVE  j \in Attachments!Live \cup local
      <4>1. j # n
        BY <1>2, <3>1
      <4> QED BY <1>4, <2>1, <3>1, <4>1 DEF Attachments!Live
    <3>2. \A j \in AttachmentKeys :
          /\ record[j] # "none" => record'[j] # "none"
          /\ record[j] = "deleted" => record'[j] = "deleted"
      BY <1>2, <2>1 DEF StoreIInv, StoreTyped
    <3> QED BY <1>4, <1>6, <1>7, <1>8, <2>3, <3>1, <3>2 DEF StoreRelied, StoreMoves
  <2>5. ASSUME NEW j \in AttachmentKeys PROVE StoreKeyInv(j)'
    <3>1. CASE j = n
      <4>1. record'[n] = "live"
        BY <1>2, <2>1 DEF StoreIInv, StoreTyped
      <4>2. n \in links => n \in blob \cup refused
        BY <1>2 DEF StoreIInv, StoreKeyInv
      <4> QED BY <1>3, <1>4, <3>1, <4>1, <4>2 DEF StoreKeyInv
    <3>2. CASE j # n
      <4>1. record'[j] = record[j] /\ (j \in DOMAIN owner' => j \in DOMAIN owner)
        BY <2>1, <3>2 DEF StoreIInv, StoreTyped
      <4>2. StoreKeyInv(j)
        BY DEF StoreIInv
      <4> QED BY <1>4, <1>7, <4>1, <4>2 DEF StoreKeyInv
    <3> QED BY <3>1, <3>2
  <2>6. StoreCallInv(c)'
    <3>1. StorePlaced(c)'
      BY <1>2, <1>5, <1>6 DEF StorePlaced, Attachments!At, Attachments!Creating
    <3>2. StoreMakes(c)'
      <4>1. IsFiniteSet(Attachments!Made(c))
        BY StoreCardinality, FS_Subset DEF StoreIInv, StoreTyped, Attachments!Made, Attachments!StoreAssumption
      <4>2. Cardinality(Attachments!Made(c)) \in Nat /\ MaxRetryAttempts \in Nat \ {0} /\ call[c].tries \in Nat
        BY <1>5, <4>1, FS_CardinalityType, RequestAssumption DEF StoreRecords
      <4>3. Cardinality(Attachments!Made(c)') = Cardinality(Attachments!Made(c)) + 1
        BY <2>3, <4>1, FS_AddElement
      <4>4. Cardinality({}) = 0
        BY FS_EmptySet
      <4>5. ~call'[c].blind => a.seen = "answer" /\ Attachments!Made(c) = {}
        BY <1>5, <1>6, <1>10 DEF Attachments!Unanswered
      <4>6. Cardinality(Attachments!Made(c)') <= IF call'[c].blind THEN MaxRetryAttempts ELSE 1
        <5>1. Cardinality(Attachments!Made(c)') <= MaxRetryAttempts
          BY <1>5, <4>2, <4>3
        <5>2. CASE call'[c].blind
          BY <5>1, <5>2
        <5>3. CASE ~call'[c].blind
          BY <4>3, <4>4, <4>5, <5>3
        <5> QED BY <5>2, <5>3
      <4>7. call'[c].pc = "create" =>
            /\ Cardinality(Attachments!Made(c)') < call'[c].tries /\ call'[c].tries <= MaxRetryAttempts
            /\ call'[c].blind
        BY <1>5, <1>6, <4>2, <4>3, <4>5
      <4>8. call'[c].op \in Attachments!Creating /\ call'[c].pc # "idle"
        BY <1>5, <1>6
      <4> QED BY <4>6, <4>7, <4>8 DEF StoreMakes, Attachments!At
    <3>3. StoreFills(c)'
      BY <1>6, <2>3 DEF StoreFills, Attachments!At
    <3>4. StoreHas(c)'
      <4>1. record'[n] = "live"
        BY <1>2, <2>1 DEF StoreIInv, StoreTyped
      <4> QED BY <1>5, <1>6, <4>1 DEF StoreHas
    <3>5. StoreDeletes(c)'
      BY <1>6 DEF StoreDeletes, StoreDeleted, Attachments!At
    <3> QED BY <3>1, <3>2, <3>3, <3>4, <3>5 DEF StoreCallInv
  <2> QED BY <2>2, <2>4, <2>5, <2>6, StoreTogether
<1> QED BY <1>9, <1>10

\* Content or a link is put, which takes nothing from the others.
LEMMA StoreAdding ==
    ASSUME StoreIInv, NEW c \in Callers, StoreMoves(c), call'[c].op # "delete" \/ call'[c].pc # "returned",
           record' = record, auth' = auth, local' = local, owner' = owner,
           blob \subseteq blob', blob' \subseteq AttachmentKeys, refused \subseteq refused',
           refused' \subseteq AttachmentKeys,
           links \subseteq links', links' \subseteq AttachmentKeys,
           \A k \in links' \ links : k \in blob \cup refused \/ record[k] = "deleted"
    PROVE  StoreRelied(c) /\ StoreTyped' /\ (\A k \in AttachmentKeys : StoreKeyInv(k)')
                             /\ Attachments!Made(c)' = Attachments!Made(c)
<1>2. \A k \in AttachmentKeys, d \in Callers :
         /\ call[d].key = k => call'[d].key = k
         /\ StoreDeleted(d, k) => StoreDeleted(d, k)'
         /\ StoreDeleter(d, k) => StoreDeleter(d, k)'
  BY StoreCallsKeep DEF StoreIInv
<1>3. \A d \in Callers : Attachments!Made(d)' = Attachments!Made(d)
  BY DEF Attachments!Made
<1>4. \A k \in AttachmentKeys : ~StoreDeleted(c, k)'
  BY DEF StoreDeleted, Attachments!At
<1>5. StoreTyped'
  BY DEF StoreIInv, StoreTyped, StoreMoves
<1>6. StoreRelied(c)
  BY <1>2, <1>3, <1>4 DEF StoreRelied, StoreMoves, Attachments!Live
<1>7. ASSUME NEW k \in AttachmentKeys PROVE StoreKeyInv(k)'
  BY <1>2 DEF StoreIInv, StoreKeyInv
<1> QED BY <1>3, <1>5, <1>6, <1>7

LEMMA StorePutBehindInv ==
    ASSUME StoreIInv, Attachments!StoreAssumption, NEW c \in Callers, Attachments!PutBehind(c)
    PROVE  StoreIInv'
<1>1. PICK a \in Attachments!Attempts :
         /\ blob' = IF a.applied THEN blob \cup {call[c].key} ELSE blob
         /\ call' = Attachments!After(c, a, Attachments!Go(c, Attachments!AfterPut(c)))
  BY DEF Attachments!PutBehind
<1>2. /\ Attachments!At(c, "put") /\ record' = record /\ auth' = auth /\ links' = links /\ local' = local
      /\ owner' = owner /\ refused' = refused
  BY DEF Attachments!PutBehind, Attachments!history
<1>3. call[c].key \in AttachmentKeys /\ call[c].op \in Attachments!Creating
        /\ call[c].key \in Attachments!Made(c) /\ StoreTyped
  BY <1>2 DEF StoreIInv, StoreCallInv, StorePlaced, StoreFills, Attachments!At
<1>4. blob \subseteq blob' /\ blob' \subseteq AttachmentKeys
  BY <1>1, <1>3 DEF StoreIInv, StoreTyped
<1>5. /\ refused \subseteq refused' /\ refused' \subseteq AttachmentKeys /\ links \subseteq links'
         /\ links' \subseteq AttachmentKeys
      /\ links' \ links = {}
  BY <1>2 DEF StoreIInv, StoreTyped
<1>6. CASE a.seen = "answer"
  <2>1. call' = Attachments!Go(c, Attachments!AfterPut(c)) /\
        Attachments!AfterPut(c) \in {"link", "returned"} /\ a.applied
    BY <1>1, <1>6 DEF Attachments!After, Attachments!AfterPut, Attachments!Attempts
  <2>2. /\ StoreMoves(c) /\ call'[c].op = call[c].op /\ call'[c].pc = Attachments!AfterPut(c)
           /\ call'[c].key = call[c].key
        /\ call'[c].blind = call[c].blind
    BY <1>2, <1>3, <2>1, StoreGoingMoves DEF Attachments!At
  <2>3. StoreRelied(c) /\ StoreTyped' /\ (\A k \in AttachmentKeys : StoreKeyInv(k)')
                          /\ Attachments!Made(c)' = Attachments!Made(c)
    BY <1>2, <1>3, <1>4, <1>5, <2>2, StoreAdding DEF Attachments!Creating
  <2>4. StorePlaced(c)'
    BY <1>3, <2>1, <2>2 DEF StorePlaced, Attachments!At, Attachments!AfterPut, Attachments!Creating
  <2>5. StoreFills(c)'
    BY <1>1, <1>3, <2>1, <2>2, <2>3 DEF StoreFills, Attachments!At, Attachments!AfterPut
  <2>6. StoreDeletes(c)'
    BY <1>3, <2>2 DEF StoreDeletes, StoreDeleted, Attachments!Creating
  <2> QED BY <1>2, <2>1, <2>2, <2>3, <2>4, <2>5, <2>6, StoreGoesOn, StoreTogether DEF Attachments!At
<1>7. CASE a.seen # "answer"
  <2>1. call' = Attachments!After(c, a, Attachments!Go(c, Attachments!AfterPut(c)))
    BY <1>1
  <2>2. StoreMoves(c) /\ ~Attachments!At(c, "returned")'
    BY <1>2, <1>3, <1>7, <2>1, StoreAttemptMoves DEF Attachments!At
  <2>3. StoreRelied(c) /\ StoreTyped' /\ (\A k \in AttachmentKeys : StoreKeyInv(k)')
                          /\ Attachments!Made(c)' = Attachments!Made(c)
    BY <1>2, <1>4, <1>5, <2>2, StoreAdding DEF Attachments!At
  <2>4. StoreCallInv(c)'
    BY <1>2, <1>7, <2>1, <2>3, StoreAttemptFails DEF Attachments!At
  <2> QED BY <2>3, <2>4, StoreTogether
<1> QED BY <1>6, <1>7

LEMMA StorePutStraightInv ==
    ASSUME StoreIInv, Attachments!StoreAssumption, NEW c \in Callers, Attachments!PutStraight(c)
    PROVE  StoreIInv'
<1>2. /\ Attachments!At(c, "put") /\ record' = record /\ auth' = auth /\ links' = links /\ local' = local
         /\ owner' = owner
  BY DEF Attachments!PutStraight
<1>3. call[c].key \in AttachmentKeys /\ call[c].op \in Attachments!Creating
        /\ call[c].key \in Attachments!Made(c) /\ StoreTyped
  BY <1>2 DEF StoreIInv, StoreCallInv, StorePlaced, StoreFills, Attachments!At
<1>1. PICK pc \in {"link", "returned", "raised"} :
         /\ call' = Attachments!Go(c, pc) /\ (pc = "raised" \/ (pc = Attachments!AfterPut(c)
            /\ call[c].key \in blob' \cup refused'))
         /\ blob' \in {blob, blob \cup {call[c].key}} /\ refused' \in {refused, refused \cup {call[c].key}}
  BY DEF Attachments!PutStraight, Attachments!AfterPut
<1>4. blob \subseteq blob' /\ blob' \subseteq AttachmentKeys /\ refused \subseteq refused'
                              /\ refused' \subseteq AttachmentKeys
  BY <1>1, <1>3 DEF StoreIInv, StoreTyped
<1>5. links \subseteq links' /\ links' \subseteq AttachmentKeys /\ links' \ links = {}
  BY <1>2 DEF StoreIInv, StoreTyped
<1>6. /\ StoreMoves(c) /\ call'[c].op = call[c].op /\ call'[c].pc = pc /\ call'[c].key = call[c].key
      /\ call'[c].blind = call[c].blind
  BY <1>1, <1>2, <1>3, StoreGoingMoves DEF Attachments!At
<1>7. StoreRelied(c) /\ StoreTyped' /\ (\A k \in AttachmentKeys : StoreKeyInv(k)')
                        /\ Attachments!Made(c)' = Attachments!Made(c)
  BY <1>2, <1>3, <1>4, <1>5, <1>6, StoreAdding DEF Attachments!Creating
<1>8. StorePlaced(c)'
  BY <1>1, <1>3, <1>6 DEF StorePlaced, Attachments!At, Attachments!AfterPut, Attachments!Creating
<1>9. StoreFills(c)'
  BY <1>1, <1>3, <1>6, <1>7 DEF StoreFills, Attachments!At, Attachments!AfterPut
<1>10. StoreDeletes(c)'
  BY <1>3, <1>6 DEF StoreDeletes, StoreDeleted, Attachments!Creating
<1> QED BY <1>2, <1>6, <1>7, <1>8, <1>9, <1>10, StoreGoesOn, StoreTogether DEF Attachments!At

LEMMA StoreLinkInv ==
    ASSUME StoreIInv, Attachments!StoreAssumption, NEW c \in Callers, Attachments!Link(c)
    PROVE  StoreIInv'
<1>1. PICK a \in Attachments!Attempts :
         /\ links' = IF a.applied THEN links \cup {call[c].key} ELSE links
         /\ call' = Attachments!After(c, a, Attachments!Go(c, "returned"))
  BY DEF Attachments!Link
<1>2. /\ Attachments!At(c, "link") /\ record' = record /\ auth' = auth /\ blob' = blob /\ local' = local
      /\ owner' = owner /\ refused' = refused
  BY DEF Attachments!Link, Attachments!history
<1>3. /\ call[c].key \in AttachmentKeys /\ call[c].op = "attach" /\ call[c].key \in Attachments!Made(c)
         /\ StoreTyped
      /\ call[c].key \in blob \cup refused \/ record[call[c].key] = "deleted"
  BY <1>2 DEF StoreIInv, StoreCallInv, StorePlaced, StoreFills, Attachments!At, Attachments!Creating
<1>4. links \subseteq links' /\ links' \subseteq AttachmentKeys /\ links' \ links \subseteq {call[c].key}
  BY <1>1, <1>3 DEF StoreIInv, StoreTyped
<1>5. blob \subseteq blob' /\ blob' \subseteq AttachmentKeys /\ refused \subseteq refused'
                              /\ refused' \subseteq AttachmentKeys
  BY <1>2 DEF StoreIInv, StoreTyped
<1>s. \A k \in links' \ links : k \in blob \cup refused \/ record[k] = "deleted"
  BY <1>3, <1>4
<1>6. CASE a.seen = "answer"
  <2>1. call' = Attachments!Go(c, "returned") /\ a.applied
    BY <1>1, <1>6 DEF Attachments!After, Attachments!Attempts
  <2>2. /\ StoreMoves(c) /\ call'[c].op = call[c].op /\ call'[c].pc = "returned" /\ call'[c].key = call[c].key
        /\ call'[c].blind = call[c].blind
    BY <1>2, <1>3, <2>1, StoreGoingMoves DEF Attachments!At
  <2>3. StoreRelied(c) /\ StoreTyped' /\ (\A k \in AttachmentKeys : StoreKeyInv(k)')
                          /\ Attachments!Made(c)' = Attachments!Made(c)
    BY <1>2, <1>3, <1>4, <1>5, <1>s, <2>2, StoreAdding
  <2>4. StorePlaced(c)'
    BY <1>3, <2>2 DEF StorePlaced, Attachments!At
  <2>5. StoreFills(c)'
    BY <1>1, <1>2, <1>3, <2>1, <2>2, <2>3 DEF StoreFills, Attachments!At
  <2>6. StoreDeletes(c)'
    BY <1>3, <2>2 DEF StoreDeletes, StoreDeleted
  <2> QED BY <1>2, <2>2, <2>3, <2>4, <2>5, <2>6, StoreGoesOn, StoreTogether DEF Attachments!At
<1>7. CASE a.seen # "answer"
  <2>1. call' = Attachments!After(c, a, Attachments!Go(c, "returned"))
    BY <1>1
  <2>2. StoreMoves(c) /\ ~Attachments!At(c, "returned")'
    BY <1>2, <1>3, <1>7, <2>1, StoreAttemptMoves DEF Attachments!At
  <2>3. StoreRelied(c) /\ StoreTyped' /\ (\A k \in AttachmentKeys : StoreKeyInv(k)')
                          /\ Attachments!Made(c)' = Attachments!Made(c)
    BY <1>2, <1>4, <1>5, <1>s, <2>2, StoreAdding DEF Attachments!At
  <2>4. StoreCallInv(c)'
    BY <1>2, <1>7, <2>1, <2>3, StoreAttemptFails DEF Attachments!At
  <2> QED BY <2>3, <2>4, StoreTogether
<1> QED BY <1>6, <1>7

\* What reads, and what gives up.
LEMMA StoreNoWriteInv ==
    ASSUME StoreIInv, Attachments!StoreAssumption, NEW c \in Callers, Attachments!NoWriteBehind(c)
    PROVE  StoreIInv'
<1>1. /\ Attachments!At(c, "put") /\ call[c].op = "write" /\ call' = Attachments!Go(c, "raised")
         /\ UNCHANGED <<Attachments!server, local, Attachments!history>>
      /\ StoreTyped
  BY DEF Attachments!NoWriteBehind, StoreIInv
<1>2. /\ StoreMoves(c) /\ call'[c].op = call[c].op /\ call'[c].pc = "raised" /\ call'[c].key = call[c].key
      /\ call'[c].blind = call[c].blind
  BY <1>1, StoreGoingMoves DEF Attachments!At
<1>3. StoreRelied(c) /\ StoreTyped' /\ (\A k \in AttachmentKeys : StoreKeyInv(k)')
                        /\ Attachments!Made(c)' = Attachments!Made(c)
  BY <1>1, <1>2, StoreQuietly
<1>4. StorePlaced(c)' /\ StoreFills(c)' /\ StoreDeletes(c)'
  BY <1>1, <1>2 DEF StorePlaced, StoreFills, StoreDeletes, StoreDeleted, Attachments!At, Attachments!Creating
<1> QED BY <1>1, <1>2, <1>3, <1>4, StoreGoesOn, StoreTogether DEF Attachments!At

LEMMA StoreUsesInv ==
    ASSUME StoreIInv, Attachments!StoreAssumption, NEW c \in Callers,
           UNCHANGED <<Attachments!server, local, Attachments!history>>,
           call[c].pc \in {"locate", "fetch"}, StoreMoves(c), call'[c].op = call[c].op,
           call'[c].pc \in {"fetch", "returned", "raised"}, call'[c].key = call[c].key,
           call'[c].blind = call[c].blind
    PROVE  StoreIInv'
<1>1. call[c].op \in Attachments!Using /\ call[c].key \in AttachmentKeys
  BY DEF StoreIInv, StoreCallInv, StorePlaced
<1>2. StoreRelied(c) /\ StoreTyped' /\ (\A k \in AttachmentKeys : StoreKeyInv(k)')
                        /\ Attachments!Made(c)' = Attachments!Made(c)
  BY <1>1, StoreQuietly DEF Attachments!Using
<1>3. StorePlaced(c)' /\ StoreFills(c)' /\ StoreDeletes(c)'
  BY <1>1 DEF StorePlaced, StoreFills, StoreDeletes, StoreDeleted, Attachments!At, Attachments!Creating,
     Attachments!Using
<1> QED BY <1>2, <1>3, StoreGoesOn, StoreTogether

LEMMA StoreLocateInv ==
    ASSUME StoreIInv, Attachments!StoreAssumption, NEW c \in Callers, Attachments!Locate(c)
    PROVE  StoreIInv'
<1> DEFINE next == IF call[c].key \in Attachments!Live THEN Attachments!Go(c, "fetch") ELSE Attachments!FromLocal(c)
<1>1. PICK a \in Attachments!Attempts : call' = Attachments!After(c, a, next)
  BY DEF Attachments!Locate
<1>2. Attachments!At(c, "locate") /\ UNCHANGED <<Attachments!server, local, Attachments!history>> /\ StoreTyped
  BY DEF Attachments!Locate, StoreIInv
<1>3. CASE a.seen = "answer"
  <2>1. \/ \E pc \in {"fetch", "raised"} : call' = Attachments!Go(c, pc)
        \/ call' = [Attachments!Go(c, "returned") EXCEPT ![c].file = "content"]
    BY <1>1, <1>3 DEF Attachments!After, Attachments!FromLocal
  <2>2. /\ call' \in [Callers -> StoreRecords] /\ (\A d \in Callers \ {c} : call'[d] = call[d])
           /\ call'[c].op = call[c].op
        /\ call'[c].pc \in {"fetch", "returned", "raised"} /\ call'[c].key = call[c].key
           /\ call'[c].blind = call[c].blind
    <3>1. CASE \E pc \in {"fetch", "raised"} : call' = Attachments!Go(c, pc)
      BY <1>2, <3>1, StoreGoneOnIs
    <3>2. CASE call' = [Attachments!Go(c, "returned") EXCEPT ![c].file = "content"]
      <4> DEFINE g == Attachments!Go(c, "returned")
               q == [g[c] EXCEPT !.file = "content"]
      <4>1. /\ g \in [Callers -> StoreRecords] /\ \A d \in Callers \ {c} : g[d] = call[d]
            /\ g[c].op = call[c].op /\ g[c].pc = "returned" /\ g[c].key = call[c].key
               /\ g[c].blind = call[c].blind
        BY <1>2, StoreGoneOnIs
      <4>2. call' = [g EXCEPT ![c] = q]
        BY <3>2, <4>1
      <4> HIDE DEF g
      <4>3. q \in StoreRecords /\ q.op = g[c].op /\ q.pc = g[c].pc /\ q.key = g[c].key /\ q.blind = g[c].blind
        BY <4>1 DEF StoreRecords
      <4> HIDE DEF q
      <4> QED BY <4>1, <4>2, <4>3
    <3> QED BY <2>1, <3>1, <3>2
  <2> QED BY <1>2, <2>2, StoreUsesInv DEF Attachments!At, StoreMoves
<1>4. CASE a.seen # "answer"
  <2> HIDE DEF next
  <2>2. StoreMoves(c) /\ ~Attachments!At(c, "returned")'
    BY <1>1, <1>2, <1>4, StoreAttemptMoves DEF Attachments!At
  <2>3. StoreRelied(c) /\ StoreTyped' /\ (\A k \in AttachmentKeys : StoreKeyInv(k)')
                          /\ Attachments!Made(c)' = Attachments!Made(c)
    BY <1>2, <2>2, StoreQuietly DEF Attachments!At
  <2>4. StoreCallInv(c)'
    BY <1>1, <1>2, <1>4, <2>3, StoreAttemptFails DEF Attachments!At
  <2> QED BY <2>3, <2>4, StoreTogether
<1> QED BY <1>3, <1>4

LEMMA StoreFetchInv ==
    ASSUME StoreIInv, Attachments!StoreAssumption, NEW c \in Callers, Attachments!Fetch(c)
    PROVE  StoreIInv'
<1>1. Attachments!At(c, "fetch") /\ UNCHANGED <<Attachments!server, local, Attachments!history>>
        /\ StoreTyped /\ call[c] \in StoreRecords
  BY DEF Attachments!Fetch, StoreIInv, StoreTyped
<1>2. PICK pc \in {"returned", "raised"}, file \in {"before", "partial", "content", "error page"} :
         call' = [Attachments!Go(c, pc) EXCEPT ![c].file = file]
  <2>1. PICK pc \in {"returned", "raised"}, f \in {"partial", "content", "error page"} :
           call' = [Attachments!Go(c, pc) EXCEPT ![c].file = IF call[c].op = "download" THEN f ELSE @]
    BY DEF Attachments!Fetch
  <2>2. Attachments!Go(c, pc)[c].file = call[c].file /\
        call[c].file \in {"before", "partial", "content", "error page"}
    BY <1>1 DEF Attachments!Go, StoreTyped, StoreRecords
  <2>3. call' = [Attachments!Go(c, pc) EXCEPT ![c].file = IF call[c].op = "download" THEN f ELSE call[c].file]
    BY <1>1, <2>1, <2>2 DEF Attachments!Go, StoreTyped
  <2> QED BY <2>2, <2>3
<1>3. /\ call' \in [Callers -> StoreRecords] /\ (\A d \in Callers \ {c} : call'[d] = call[d])
         /\ call'[c].op = call[c].op
      /\ call'[c].pc = pc /\ call'[c].key = call[c].key /\ call'[c].blind = call[c].blind
  <2> DEFINE g == Attachments!Go(c, pc)
           q == [g[c] EXCEPT !.file = file]
  <2>1. /\ g \in [Callers -> StoreRecords] /\ \A d \in Callers \ {c} : g[d] = call[d]
        /\ g[c].op = call[c].op /\ g[c].pc = pc /\ g[c].key = call[c].key /\ g[c].blind = call[c].blind
    <3>1. pc \in {"put", "link", "fetch", "returned", "raised"}
      OBVIOUS
    <3> QED BY <1>1, <3>1, StoreGoneOnIs
  <2>2. call' = [g EXCEPT ![c] = q]
    BY <1>2, <2>1
  <2> HIDE DEF g
  <2>3. q \in StoreRecords /\ q.op = g[c].op /\ q.pc = g[c].pc /\ q.key = g[c].key /\ q.blind = g[c].blind
    BY <2>1 DEF StoreRecords
  <2> HIDE DEF q
  <2> QED BY <2>1, <2>2, <2>3
<1> QED BY <1>1, <1>3, StoreUsesInv DEF Attachments!At, StoreMoves

LEMMA StoreKeepInv ==
    ASSUME StoreIInv, Attachments!StoreAssumption, NEW c \in Callers, Attachments!Keep(c)
    PROVE  StoreIInv'
<1> DEFINE n == Attachments!NewKey
<1>1. /\ n \in AttachmentKeys /\ record[n] = "none" /\ \A d \in Callers : call[d].key # n
  BY DEF Attachments!Keep, Attachments!Undrawn, Attachments!NewKey
<1>2. local' = local \cup {n} /\ call' = [Attachments!Go(c, "returned") EXCEPT ![c].key = n]
  BY DEF Attachments!Keep
<1> HIDE DEF n
<1>3. /\ record' = record /\ auth' = auth /\ blob' = blob /\ links' = links /\ owner' = owner
         /\ refused' = refused
      /\ Attachments!At(c, "keep") /\ StoreTyped
  BY DEF Attachments!Keep, Attachments!server, Attachments!history, StoreIInv
<1>4. call[c].op = "keep" /\ call[c].key = NoKey /\ NoKey \notin AttachmentKeys
  BY <1>3 DEF StoreIInv, StoreCallInv, StorePlaced, Attachments!StoreAssumption
<1>5. /\ call' \in [Callers -> StoreRecords] /\ (\A d \in Callers \ {c} : call'[d] = call[d])
         /\ call'[c].op = "keep"
      /\ call'[c].pc = "returned" /\ call'[c].key = n /\ call'[c].blind = call[c].blind
  BY <1>1, <1>2, <1>3, <1>4, StoreGoneOnWith
<1>6. StoreMoves(c)
  BY <1>3, <1>4, <1>5 DEF StoreMoves, Attachments!At
<1>7. \A j \in AttachmentKeys, d \in Callers :
         /\ call[d].key = j => call'[d].key = j
         /\ StoreDeleted(d, j) => StoreDeleted(d, j)'
         /\ StoreDeleter(d, j) => StoreDeleter(d, j)'
  BY <1>3, <1>6, StoreCallsKeep
<1>8. \A j \in AttachmentKeys : ~StoreDeleted(c, j)'
  BY <1>5 DEF StoreDeleted
<1>9. StoreTyped'
  BY <1>1, <1>2, <1>3, <1>5 DEF StoreTyped
<1>10. \A d \in Callers : Attachments!Made(d)' = Attachments!Made(d)
  BY <1>3 DEF Attachments!Made
<1>11. StoreRelied(c)
  <2>1. ASSUME NEW j \in AttachmentKeys, NEW d \in Callers, call[d].key = j, j \in (Attachments!Live \cup local)'
        PROVE  j \in Attachments!Live \cup local
    BY <1>1, <1>2, <1>3, <2>1 DEF Attachments!Live
  <2> QED BY <1>2, <1>3, <1>5, <1>7, <1>8, <1>10, <2>1 DEF StoreRelied
<1>12. ASSUME NEW j \in AttachmentKeys PROVE StoreKeyInv(j)'
  <2>1. CASE j = n
    BY <1>1, <1>3, <1>5, <1>7, <2>1 DEF StoreIInv, StoreKeyInv
  <2>2. CASE j # n
    BY <1>2, <1>3, <1>7, <2>2 DEF StoreIInv, StoreKeyInv
  <2> QED BY <2>1, <2>2
<1>13. StorePlaced(c)' /\ StoreFills(c)' /\ StoreDeletes(c)'
  BY <1>1, <1>5 DEF StorePlaced, StoreFills, StoreDeletes, StoreDeleted, Attachments!At, Attachments!Creating,
     Attachments!Using
<1>14. StoreHas(c)'
  BY <1>1, <1>2, <1>5 DEF StoreHas
<1>15. StoreMakes(c)'
  <2>1. Attachments!Made(c) = {} /\ Cardinality({}) = 0 /\ MaxRetryAttempts \in Nat \ {0}
    BY <1>4, FS_EmptySet, RequestAssumption DEF StoreIInv, StoreCallInv, StoreMakes, Attachments!Creating
  <2>2. Attachments!Made(c)' = {}
    BY <1>10, <2>1
  <2> QED BY <1>5, <2>1, <2>2 DEF StoreMakes, Attachments!At
<1> QED BY <1>9, <1>11, <1>12, <1>13, <1>14, <1>15, StoreTogether DEF StoreCallInv

LEMMA StoreDeleteInv ==
    ASSUME StoreIInv, Attachments!StoreAssumption, NEW c \in Callers, Attachments!Delete(c)
    PROVE  StoreIInv'
<1> DEFINE k == call[c].key
<1>1. PICK a \in Attachments!Attempts :
         /\ IF a.applied
            THEN record' = [record EXCEPT ![k] = "deleted"] /\ blob' = blob \ {k}
            ELSE UNCHANGED <<record, blob>>
         /\ call' = Attachments!After(c, a, Attachments!Go(c, "returned"))
  BY DEF Attachments!Delete
<1>2. /\ Attachments!At(c, "delete") /\ record[k] = "live" /\ auth' = auth /\ links' = links
         /\ local' = local /\ owner' = owner
      /\ refused' = refused /\ StoreTyped /\ k \in AttachmentKeys
  BY DEF Attachments!Delete, Attachments!history, Attachments!Live, StoreIInv
<1>3. call[c].op = "delete" /\ k \notin local
  BY <1>2 DEF StoreIInv, StoreCallInv, StorePlaced, StoreKeyInv
<1>4. /\ StoreMoves(c) /\ call'[c].op = "delete" /\ call'[c].key = k
      /\ \/ a.seen = "answer" /\ call'[c].pc = "returned"
         \/ /\ a.seen # "answer" /\ call'[c].pc \in {"delete", "raised"}
            /\ call'[c].blind = (call[c].blind \/ Attachments!Unanswered(a))
  <2>1. CASE a.seen = "answer"
    <3>1. call' = Attachments!Go(c, "returned")
      BY <1>1, <2>1 DEF Attachments!After
    <3> QED BY <1>2, <1>3, <2>1, <3>1, StoreGoingMoves DEF Attachments!At
  <2>2. CASE a.seen # "answer"
    BY <1>1, <1>2, <1>3, <2>2, StoreNotAnswered, StoreAttemptMoves DEF Attachments!At
  <2> QED BY <2>1, <2>2
<1>5. \A j \in AttachmentKeys, d \in Callers :
         /\ call[d].key = j => call'[d].key = j
         /\ StoreDeleted(d, j) => StoreDeleted(d, j)'
         /\ StoreDeleter(d, j) => StoreDeleter(d, j)'
  BY <1>2, <1>4, StoreCallsKeep
<1>6. \A d \in Callers : Attachments!Made(d)' = Attachments!Made(d)
  BY <1>2 DEF Attachments!Made
<1>7. StoreTyped'
  <2>1. record' \in [AttachmentKeys -> {"none", "live", "deleted"}] /\ blob' \subseteq AttachmentKeys
    BY <1>1, <1>2 DEF StoreTyped
  <2> QED BY <1>2, <1>4, <2>1 DEF StoreTyped, StoreMoves
<1>8. \A j \in AttachmentKeys :
      /\ j # k => record'[j] = record[j] /\ (j \in blob' <=> j \in blob)
      /\ j = k => IF a.applied THEN record'[j] = "deleted"
                  ELSE record'[j] = "live" /\ (j \in blob' <=> j \in blob)
  BY <1>1, <1>2 DEF StoreTyped
<1>9. StoreRelied(c)
  <2>1. \A j \in AttachmentKeys : StoreDeleted(c, j)' => j \in Attachments!Live
    BY <1>2, <1>4 DEF StoreDeleted, Attachments!Live
  <2>2. \A j \in AttachmentKeys : j \in (Attachments!Live \cup local)' => j \in Attachments!Live \cup local
    BY <1>2, <1>8 DEF Attachments!Live
  <2> HIDE DEF k
  <2> QED BY <1>2, <1>4, <1>5, <1>6, <1>8, <2>1, <2>2 DEF StoreRelied, StoreMoves
<1>10. ASSUME NEW j \in AttachmentKeys PROVE StoreKeyInv(j)'
  <2>1. CASE j # k \/ ~a.applied
    <3>1. record'[j] = record[j] /\ (j \in blob' <=> j \in blob)
      BY <1>2, <1>8, <2>1
    <3> QED BY <1>2, <1>5, <3>1 DEF StoreIInv, StoreKeyInv
  <2>2. CASE j = k /\ a.applied
    <3>1. record'[j] = "deleted" /\ j \notin local'
      BY <1>2, <1>3, <1>8, <2>2
    <3>2. StoreDeleter(c, j)'
      BY <1>4, <2>2 DEF StoreDeleter, Attachments!At, Attachments!Unanswered
    <3> QED BY <3>1, <3>2 DEF StoreKeyInv
  <2> QED BY <2>1, <2>2
<1>11. StoreCallInv(c)'
  <2>1. CASE a.seen = "answer"
    <3>1. a.applied /\ call'[c].pc = "returned"
      BY <1>4, <2>1 DEF Attachments!Attempts
    <3>2. StorePlaced(c)' /\ StoreFills(c)'
      BY <1>2, <1>4, <3>1 DEF StorePlaced, StoreFills, Attachments!At, Attachments!Creating
    <3>3. \A d \in Callers \ {c} : ~StoreDeleted(d, k)'
      <4>1. \A d \in Callers : StoreDeleted(d, k) => k \notin Attachments!Live
        BY <1>2 DEF StoreIInv, StoreCallInv, StoreDeletes, StoreDeleted
      <4> QED BY <1>2, <1>4, <4>1 DEF Attachments!Live, StoreMoves, StoreDeleted, Attachments!At
    <3>4. k \notin (Attachments!Live \cup local)'
      BY <1>2, <1>3, <1>8, <3>1 DEF Attachments!Live
    <3>5. StoreDeletes(c)'
      BY <1>4, <3>3, <3>4 DEF StoreDeletes
    <3>6. call[c].pc \notin {"idle", "create"} /\ call'[c].pc \notin {"idle", "create"}
            /\ call'[c].op = call[c].op
          /\ (call[c].blind => call'[c].blind)
      BY <1>2, <1>3, <1>4, <3>1 DEF Attachments!At, StoreMoves
    <3> QED BY <1>4, <1>6, <1>7, <1>9, <3>2, <3>5, <3>6, StoreGoesOn
  <2>2. CASE a.seen # "answer"
    BY <1>1, <1>2, <1>6, <1>7, <1>9, <2>2, StoreAttemptFails DEF Attachments!At
  <2> QED BY <2>1, <2>2
<1> QED BY <1>7, <1>9, <1>10, <1>11, StoreTogether

LEMMA StoreDeleteLocalInv ==
    ASSUME StoreIInv, Attachments!StoreAssumption, NEW c \in Callers, Attachments!DeleteLocal(c)
    PROVE  StoreIInv'
<1> DEFINE k == call[c].key
           end == IF Attachments!FoundLocally(k) THEN "returned" ELSE "raised"
<1>1. PICK a \in Attachments!Attempts :
         /\ local' = IF a.seen = "answer" THEN local \ {k} ELSE local
         /\ call' = Attachments!After(c, a, Attachments!Go(c, end))
  BY DEF Attachments!DeleteLocal
<1>2. /\ Attachments!At(c, "delete") /\ k \notin Attachments!Live /\ record' = record /\ auth' = auth
         /\ blob' = blob /\ links' = links
      /\ owner' = owner /\ refused' = refused /\ StoreTyped
  BY DEF Attachments!DeleteLocal, Attachments!server, Attachments!history, StoreIInv
<1>3. call[c].op = "delete" /\ k \in AttachmentKeys
  BY <1>2 DEF StoreIInv, StoreCallInv, StorePlaced, Attachments!At
<1>4. /\ StoreMoves(c) /\ call'[c].op = "delete" /\ call'[c].key = k
      /\ \/ a.seen = "answer" /\ call'[c].pc = (IF k \in local THEN "returned" ELSE "raised")
         \/ a.seen # "answer" /\ call'[c].pc \in {"delete", "raised"}
  <2>1. CASE a.seen = "answer"
    <3>1. call' = Attachments!Go(c, end) /\ end \in {"put", "link", "fetch", "returned", "raised"}
      BY <1>1, <2>1 DEF Attachments!After
    <3>2. end = (IF k \in local THEN "returned" ELSE "raised")
      BY DEF Attachments!FoundLocally
    <3> HIDE DEF end
    <3> QED BY <1>2, <1>3, <2>1, <3>1, <3>2, StoreGoingMoves DEF Attachments!At
  <2>2. CASE a.seen # "answer"
    BY <1>1, <1>2, <1>3, <2>2, StoreNotAnswered, StoreAttemptMoves DEF Attachments!At
  <2> QED BY <2>1, <2>2
<1>5. \A j \in AttachmentKeys, d \in Callers :
         /\ call[d].key = j => call'[d].key = j
         /\ StoreDeleted(d, j) => StoreDeleted(d, j)'
         /\ StoreDeleter(d, j) => StoreDeleter(d, j)'
  BY <1>2, <1>4, StoreCallsKeep
<1>6. \A d \in Callers : Attachments!Made(d)' = Attachments!Made(d)
  BY <1>2 DEF Attachments!Made
<1>7. StoreTyped'
  BY <1>1, <1>2, <1>4 DEF StoreTyped, StoreMoves
<1>8. \A j \in AttachmentKeys :
      /\ j \in local' => j \in local
      /\ j \in local /\ j \notin local' => j = k /\ a.seen = "answer"
  BY <1>1
<1>9. \A j \in AttachmentKeys : /\ StoreDeleted(c, j)' <=> j = k /\ k \in local /\ a.seen = "answer"
  BY <1>4 DEF StoreDeleted, Attachments!At
<1>10. StoreRelied(c)
  <2>1. \A j \in AttachmentKeys : j \in (Attachments!Live \cup local)' => j \in Attachments!Live \cup local
    BY <1>2, <1>8 DEF Attachments!Live
  <2> HIDE DEF k
  <2> QED BY <1>2, <1>4, <1>5, <1>6, <1>8, <1>9, <2>1 DEF StoreRelied, StoreMoves
<1>11. ASSUME NEW j \in AttachmentKeys PROVE StoreKeyInv(j)'
  BY <1>2, <1>5, <1>8 DEF StoreIInv, StoreKeyInv
<1>12. StoreCallInv(c)'
  <2>1. CASE a.seen = "answer"
    <3>2. StorePlaced(c)' /\ StoreFills(c)'
      BY <1>3, <1>4, <2>1 DEF StorePlaced, StoreFills, Attachments!At, Attachments!Creating
    <3>3. ASSUME k \in local PROVE \A d \in Callers \ {c} : ~StoreDeleted(d, k)'
      <4>1. \A d \in Callers : StoreDeleted(d, k) => k \notin local
        BY <1>2 DEF StoreIInv, StoreCallInv, StoreDeletes, StoreDeleted
      <4> QED BY <1>2, <1>4, <3>3, <4>1 DEF StoreMoves, StoreDeleted, Attachments!At
    <3>4. k \notin (Attachments!Live \cup local)'
      BY <1>1, <1>2, <2>1 DEF Attachments!Live
    <3>5. StoreDeletes(c)'
      <4>1. Attachments!At(c, "returned")' => k \in local
        BY <1>4, <2>1 DEF Attachments!At
      <4> QED BY <1>4, <3>3, <3>4, <4>1 DEF StoreDeletes, StoreDeleted, Attachments!At
    <3>6. call[c].pc \notin {"idle", "create"} /\ call'[c].pc \notin {"idle", "create"}
            /\ call'[c].op = call[c].op
          /\ (call[c].blind => call'[c].blind)
      BY <1>2, <1>3, <1>4, <2>1 DEF Attachments!At, StoreMoves
    <3> QED BY <1>4, <1>6, <1>7, <1>10, <3>2, <3>5, <3>6, StoreGoesOn
  <2>2. CASE a.seen # "answer"
    BY <1>1, <1>2, <1>6, <1>7, <1>10, <2>2, StoreAttemptFails DEF Attachments!At
  <2> QED BY <2>1, <2>2
<1> QED BY <1>7, <1>10, <1>11, <1>12, StoreTogether

-------------------------------------------------------------------------------
LEMMA StoreStarts ==
    ASSUME Attachments!StoreAssumption, Attachments!Init
    PROVE  StoreIInv
<1>1. Attachments!NoCall \in StoreRecords
  BY DEF Attachments!NoCall, StoreRecords
<1>2. owner = [k \in {} |-> Attachments!NoCall] /\ DOMAIN owner = {}
  BY DEF Attachments!Init
<1>3. owner \in [DOMAIN owner -> Callers]
  BY <1>2
<1>4. StoreTyped
  BY <1>1, <1>2, <1>3 DEF Attachments!Init, StoreTyped, Attachments!StoreAssumption
<1>5. ASSUME NEW k \in AttachmentKeys PROVE StoreKeyInv(k)
  BY <1>2 DEF Attachments!Init, StoreKeyInv
<1>6. ASSUME NEW c \in Callers PROVE StoreCallInv(c)
  <2>1. /\ call[c].op = "none" /\ call[c].pc = "idle" /\ call[c].key = NoKey /\ call[c].tries = 1
           /\ ~call[c].blind
    BY DEF Attachments!Init, Attachments!NoCall
  <2>2. Attachments!Made(c) = {}
    BY <1>2 DEF Attachments!Made
  <2>3. Cardinality({}) = 0
    BY FS_EmptySet
  <2>4. StoreMakes(c)
    BY <2>1, <2>2, <2>3 DEF StoreMakes, Attachments!At
  <2> QED BY <2>1, <2>4 DEF StoreCallInv, StorePlaced, StoreFills, StoreHas, StoreDeletes, StoreDeleted,
             Attachments!At, Attachments!Creating, Attachments!StoreAssumption
<1> QED BY <1>4, <1>5, <1>6 DEF StoreIInv

LEMMA StoreSteps ==
    ASSUME Attachments!StoreAssumption, StoreIInv, [Attachments!Next]_(Attachments!vars)
    PROVE  StoreIInv'
<1>1. CASE \E c \in Callers : Attachments!Begin(c) \/ Attachments!Step(c)
  BY <1>1, StoreBeginInv, StoreCreateInv, StorePutBehindInv, StoreNoWriteInv, StorePutStraightInv,
     StoreLinkInv, StoreKeepInv, StoreLocateInv, StoreFetchInv,
     StoreDeleteInv, StoreDeleteLocalInv DEF Attachments!Step
<1>2. CASE UNCHANGED Attachments!vars
  <2>1. /\ record' = record /\ auth' = auth /\ blob' = blob /\ links' = links /\ local' = local /\ call' = call
        /\ owner' = owner /\ refused' = refused
    BY <1>2 DEF Attachments!vars, Attachments!server, Attachments!history
  <2>2. StoreTyped' /\ (\A k \in AttachmentKeys : StoreKeyInv(k)')
    BY <2>1 DEF StoreIInv, StoreTyped, StoreKeyInv, StoreDeleter, Attachments!At
  <2>3. ASSUME NEW c \in Callers PROVE StoreCallInv(c)'
    <3>1. Attachments!Made(c)' = Attachments!Made(c) /\ StoreCallInv(c)
      BY <2>1 DEF Attachments!Made, StoreIInv
    <3>2. StorePlaced(c)' /\ StoreMakes(c)'
      BY <2>1, <3>1 DEF StoreCallInv, StorePlaced, StoreMakes, Attachments!At
    <3>3. StoreFills(c)'
      BY <2>1, <3>1 DEF StoreCallInv, StoreFills, Attachments!At
    <3>4. StoreHas(c)' /\ StoreDeletes(c)'
      BY <2>1
         DEF StoreIInv, StoreCallInv, StoreHas, StoreDeletes, StoreDeleted, Attachments!At, Attachments!Live
    <3> QED BY <3>2, <3>3, <3>4 DEF StoreCallInv
  <2> QED BY <2>2, <2>3 DEF StoreIInv
<1> QED BY <1>1, <1>2 DEF Attachments!Next

LEMMA StoreKept ==
    ASSUME Attachments!StoreAssumption, StoreIInv
    PROVE  Attachments!FewOrphans /\ Attachments!LinkedIsWhole /\ Attachments!DeletedOnce
<1>1. Attachments!FewOrphans
  BY StoreCardinality
     DEF StoreIInv, StoreCallInv, StorePlaced, StoreMakes, StoreFills, Attachments!At, Attachments!FewOrphans
<1>2. Attachments!LinkedIsWhole
  BY DEF StoreIInv, StoreTyped, StoreKeyInv, StoreCallInv, StoreFills, Attachments!Creating,
     Attachments!LinkedIsWhole
<1>3. Attachments!DeletedOnce
  <2> SUFFICES ASSUME NEW c \in Callers, call[c].op = "delete", NEW k, k = call[c].key,
                      NEW others, others = {d \in Callers \ {c} : call[d].op = "delete" /\ call[d].key = k}
               PROVE  /\ Attachments!At(c, "returned") => k \notin Attachments!Live \cup local
                         /\ \A d \in others : ~Attachments!At(d, "returned")
                      /\ Attachments!At(c, "raised") /\ ~call[c].blind
                         /\ k \notin Attachments!Live \cup local =>
                            \E d \in others : Attachments!At(d, "returned") \/ call[d].blind
    BY DEF Attachments!DeletedOnce
  <2>1. Attachments!At(c, "returned") =>
           k \notin Attachments!Live \cup local /\ \A d \in others : ~Attachments!At(d, "returned")
    BY DEF StoreIInv, StoreCallInv, StoreDeletes, StoreDeleted
  <2>2. ASSUME Attachments!At(c, "raised"), ~call[c].blind, k \notin Attachments!Live \cup local
        PROVE  \E d \in others : Attachments!At(d, "returned") \/ call[d].blind
    <3>1. k \in AttachmentKeys /\ StoreHas(c) /\ StoreKeyInv(k)
      BY <2>2 DEF StoreIInv, StoreCallInv, StorePlaced, Attachments!At
    <3>2. \E d \in Callers : StoreDeleter(d, k)
      BY <2>2, <3>1
         DEF StoreHas, StoreKeyInv, StoreDeleter, StoreDeleted, Attachments!Live, StoreIInv, StoreTyped
    <3>3. PICK d \in Callers : StoreDeleter(d, k)
      BY <3>2
    <3>4. d # c
      BY <2>2, <3>3 DEF StoreDeleter, Attachments!At
    <3> QED BY <3>3, <3>4 DEF StoreDeleter
  <2> QED BY <2>1, <2>2
<1> QED BY <1>1, <1>2, <1>3
-------------------------------------------------------------------------------
(***************************************************************************)
(* ContextIndex, for any calls and indexes, and any number of ingestions.  *)
(*                                                                         *)
(* The argument: a file stays in the bucket and is put there before the    *)
(* ingestion is asked for, so the ingestion that waits will find it        *)
(* (Adds); an index that is gone does not come back under its id (Served); *)
(* and the ingestions that were accepted are counted, so that one that is  *)
(* under way when a question comes, and was not when it was checked, is a  *)
(* later one (Asks).  A step of another call respects what these rest on   *)
(* (Relied).                                                               *)
(***************************************************************************)
LEMMA IndexCardinality ==
    /\ \A S : Indexes!Cardinality(S) = Cardinality(S)
    /\ \A S : Indexes!IsFiniteSet(S) <=> IsFiniteSet(S)
<1>1. \A S : Indexes!IsFiniteSet(S) <=> IsFiniteSet(S)
  BY DEF Indexes!IsFiniteSet, IsFiniteSet
<1>2. \A S : Indexes!Cardinality(S) = Cardinality(S)
  BY DEF Indexes!Cardinality, Cardinality, Indexes!IsFiniteSet, IsFiniteSet
<1> QED BY <1>1, <1>2

IndexRecords ==
    [op : Indexes!Ops \cup {"none", "byid"},
     pc : {"idle", "retrieve", "bucket", "uri", "putBehind", "putStraight", "ingest", "delete", "ask", "create",
           "returned", "raised"},
     id : IndexIds \cup {NoId}, tries : Nat, told : [ingestions : Nat, busy : BOOLEAN], hit : BOOLEAN,
     err : {"none", "request", "not found", "ingestion", "data source"}]
IndexStates == {"none", "gone", "new", "Queued", "InProgress", "Successful", "Failed"}
IndexTyped ==
    /\ index \in [IndexIds -> IndexStates] /\ accepted \in [IndexIds -> Nat] /\ bucket \subseteq Callers
    /\ ingested \in [IndexIds -> SUBSET Callers] /\ call \in [Callers -> IndexRecords]
    /\ deletedBy \in [IndexIds -> SUBSET (Callers \cup {"others"})] /\ refused \subseteq Callers

\* What is ingested is in the bucket, and one deleted an index that is gone.
IndexServed ==
    \A i \in IndexIds :
       /\ ingested[i] \subseteq bucket
       /\ deletedBy[i] = {} \/ (index[i] = "gone" /\ \E x \in deletedBy[i] : deletedBy[i] = {x})

\* Where call c may be, by what it is.
IndexPlaced(c) ==
    /\ Indexes!At(c, "idle") => ~call[c].hit
    /\ Indexes!At(c, "retrieve") => call[c].op \in Indexes!Ops \ {"create"} /\ ~call[c].hit
    /\ call[c].pc \in {"bucket", "uri", "putBehind", "putStraight"} => call[c].op \in {"add", "put"}
    /\ Indexes!At(c, "ingest") => call[c].op \in {"add", "ingest"}
    /\ Indexes!At(c, "delete") => call[c].op = "delete"
    /\ Indexes!At(c, "ask") => call[c].op \in Indexes!Questions \cup {"byid"}
    /\ Indexes!At(c, "create") => call[c].op = "create"
    /\ Indexes!At(c, "returned") => call[c].op # "none"
    /\ call[c].pc \in {"bucket", "uri", "putBehind", "putStraight", "ingest", "delete", "ask"} =>
             call[c].id \in IndexIds

\* The file is put before the ingestion is asked for, and stays.
IndexAdds(c) ==
    call[c].op = "add" =>
       /\ call[c].pc \in {"ingest", "returned"} => c \in bucket \cup refused
       /\ Indexes!At(c, "returned") =>
             /\ call[c].id \in IndexIds
             /\ c \in ingested[call[c].id] \cup refused \/ index[call[c].id] \in {"Queued", "gone"}

IndexDeletes(c) ==
    /\ \A i \in IndexIds : c \in deletedBy[i] => call[c].id = i
       /\ call[c].pc \notin {"idle", "retrieve", "create"}
    /\ call[c].op = "delete" /\ Indexes!At(c, "returned") => call[c].id \in IndexIds
       /\ index[call[c].id] = "gone"

\* An ingestion that is under way was accepted after the check.
IndexAsks(c) ==
    call[c].op \in Indexes!Checked =>
       /\ ~call[c].hit
       /\ Indexes!At(c, "ask") =>
             /\ call[c].told.ingestions <= accepted[call[c].id]
             /\ Indexes!Busy(call[c].id) => call[c].told.ingestions < accepted[call[c].id]

IndexCallInv(c) == IndexPlaced(c) /\ IndexAdds(c) /\ IndexDeletes(c) /\ IndexAsks(c)
IndexIInv == IndexTyped /\ IndexServed /\ \A c \in Callers : IndexCallInv(c)

\* What a step of x may do to what the others rely on.
IndexRelied(x) ==
    /\ bucket \subseteq bucket' /\ refused \subseteq refused'
    /\ \A i \in IndexIds :
          /\ index[i] = "gone" => index'[i] = "gone"
          /\ accepted[i] <= accepted'[i]
          /\ Indexes!Busy(i)' => Indexes!Busy(i) \/ accepted[i] < accepted'[i]
          /\ ingested[i] \subseteq ingested'[i]
          /\ index[i] = "Queued" => index'[i] \in {"Queued", "gone"} \/ bucket \subseteq ingested'[i]
          /\ deletedBy'[i] \subseteq deletedBy[i] \cup {x}

LEMMA IndexOthersInv ==
    ASSUME IndexIInv, NEW x, IndexRelied(x), IndexTyped', NEW d \in Callers, d # x, call'[d] = call[d]
    PROVE  IndexCallInv(d)'
<1>1. IndexPlaced(d)'
  BY DEF IndexIInv, IndexCallInv, IndexPlaced, Indexes!At
<1>2. IndexAdds(d)'
  BY DEF IndexIInv, IndexCallInv, IndexAdds, Indexes!At, IndexRelied
<1>3. IndexDeletes(d)'
  BY DEF IndexIInv, IndexCallInv, IndexDeletes, Indexes!At, IndexRelied
<1>4. IndexAsks(d)'
  <2>1. CASE call[d].op \notin Indexes!Checked \/ ~Indexes!At(d, "ask")
    BY <2>1 DEF IndexIInv, IndexCallInv, IndexAsks, Indexes!At
  <2>2. CASE call[d].op \in Indexes!Checked /\ Indexes!At(d, "ask")
    <3> DEFINE i == call[d].id
               n == call[d].told.ingestions
    <3>1. i \in IndexIds
      BY <2>2 DEF IndexIInv, IndexCallInv, IndexPlaced, Indexes!Questions, Indexes!At
    <3>2. n \in Nat
      BY DEF IndexIInv, IndexTyped, IndexRecords
    <3>3. accepted[i] \in Nat /\ accepted'[i] \in Nat
      BY <3>1 DEF IndexIInv, IndexTyped
    <3>4. ~call[d].hit /\ n <= accepted[i] /\ (Indexes!Busy(i) => n < accepted[i])
      BY <2>2 DEF IndexIInv, IndexCallInv, IndexAsks
    <3>5. accepted[i] <= accepted'[i] /\ (Indexes!Busy(i)' => Indexes!Busy(i) \/ accepted[i] < accepted'[i])
      BY <3>1 DEF IndexRelied
    <3>6. n <= accepted'[i] /\ (Indexes!Busy(i)' => n < accepted'[i])
      BY <3>2, <3>3, <3>4, <3>5
    <3> QED BY <3>4, <3>6 DEF IndexAsks, Indexes!At, Indexes!Busy
  <2> QED BY <2>1, <2>2
<1> QED BY <1>1, <1>2, <1>3, <1>4 DEF IndexCallInv

\* What a call is after an attempt: where it goes on, or where it was, or raised.
LEMMA IndexAttemptsAre ==
    ASSUME NEW a \in Indexes!Attempts
    PROVE  a.seen \in {"answer", "transient", "fatal"} /\ (a.seen = "answer" => a.applied)
  BY DEF Indexes!Attempts

LEMMA IndexOneMore == \A n \in Nat : n + 1 \in Nat
  OBVIOUS

LEMMA IndexRecordsAre ==
    ASSUME NEW r \in IndexRecords,
           NEW pc \in {"bucket", "uri", "putBehind", "putStraight", "ingest", "delete", "ask", "returned", "raised"},
           NEW err \in {"none", "request", "not found", "ingestion", "data source"}, NEW n \in Nat
    PROVE  /\ [r EXCEPT !.pc = pc, !.tries = 1] \in IndexRecords
           /\ [r EXCEPT !.err = err] \in IndexRecords
           /\ [r EXCEPT !.tries = n] \in IndexRecords
<1>1. [r EXCEPT !.pc = pc, !.tries = 1] \in IndexRecords
  BY DEF IndexRecords
<1>2. [r EXCEPT !.err = err] \in IndexRecords
  BY DEF IndexRecords
<1>3. [r EXCEPT !.tries = n] \in IndexRecords
  BY DEF IndexRecords
<1> QED BY <1>1, <1>2, <1>3

LEMMA IndexGoneOnIs ==
    ASSUME IndexTyped, NEW c \in Callers,
           NEW pc \in {"bucket", "uri", "putBehind", "putStraight", "ingest", "delete", "ask", "returned", "raised"}
    PROVE  LET r == Indexes!Go(c, pc) IN
           /\ r \in [Callers -> IndexRecords] /\ \A d \in Callers \ {c} : r[d] = call[d]
           /\ r[c].op = call[c].op /\ r[c].pc = pc /\ r[c].id = call[c].id
           /\ r[c].told = call[c].told /\ r[c].hit = call[c].hit
<1> DEFINE q == [call[c] EXCEPT !.pc = pc, !.tries = 1]
<1>1. call[c] \in IndexRecords
  BY DEF IndexTyped
<1>2. q \in IndexRecords
  BY <1>1, IndexRecordsAre
<1>3. /\ q.op = call[c].op /\ q.pc = pc /\ q.id = call[c].id /\ q.told = call[c].told /\ q.hit = call[c].hit
  BY <1>1 DEF IndexRecords
<1>4. Indexes!Go(c, pc) = [call EXCEPT ![c] = q]
  BY DEF IndexTyped, Indexes!Go
<1> QED BY <1>2, <1>3, <1>4 DEF IndexTyped

LEMMA IndexRaisedIs ==
    ASSUME IndexTyped, NEW c \in Callers, NEW err \in {"request", "not found", "ingestion", "data source"}
    PROVE  LET r == Indexes!Raise(c, err) IN
           /\ r \in [Callers -> IndexRecords] /\ \A d \in Callers \ {c} : r[d] = call[d]
           /\ r[c].op = call[c].op /\ r[c].pc = "raised" /\ r[c].id = call[c].id
           /\ r[c].told = call[c].told /\ r[c].hit = call[c].hit
<1> DEFINE g == Indexes!Go(c, "raised")
           q == [g[c] EXCEPT !.err = err]
<1>1. /\ g \in [Callers -> IndexRecords] /\ \A d \in Callers \ {c} : g[d] = call[d]
      /\ g[c].op = call[c].op /\ g[c].pc = "raised" /\ g[c].id = call[c].id
      /\ g[c].told = call[c].told /\ g[c].hit = call[c].hit
  BY IndexGoneOnIs
<1>4. Indexes!Raise(c, err) = [g EXCEPT ![c].err = err]
  BY DEF Indexes!Raise
<1> HIDE DEF g
<1>2. g[c] \in IndexRecords
  BY <1>1
<1>3. q \in IndexRecords
  BY <1>2, IndexRecordsAre
<1>5. /\ q.op = g[c].op /\ q.pc = g[c].pc /\ q.id = g[c].id /\ q.told = g[c].told /\ q.hit = g[c].hit
  BY <1>2 DEF IndexRecords
<1>6. [g EXCEPT ![c].err = err] = [g EXCEPT ![c] = q]
  BY <1>1
<1> QED BY <1>1, <1>3, <1>4, <1>5, <1>6

LEMMA IndexNotAnswered ==
    ASSUME IndexTyped, NEW c \in Callers, NEW a \in Indexes!Attempts, NEW x, call' = Indexes!After(c, a, x),
           a.seen # "answer"
    PROVE  /\ call' \in [Callers -> IndexRecords] /\ \A d \in Callers \ {c} : call'[d] = call[d]
           /\ call'[c].op = call[c].op /\ call'[c].pc \in {call[c].pc, "raised"} /\ call'[c].id = call[c].id
           /\ call'[c].told = call[c].told /\ call'[c].hit = call[c].hit
<1>1. CASE Indexes!Retries(a, call[c].tries)
  <2>1. call' = [call EXCEPT ![c].tries = @ + 1]
    BY <1>1 DEF Indexes!After
  <2>2. call[c] \in IndexRecords /\ call[c].tries \in Nat
    BY DEF IndexTyped, IndexRecords
  <2>3. [call[c] EXCEPT !.tries = @ + 1] \in IndexRecords
    <3>1. call[c].tries + 1 \in Nat
      BY <2>2, IndexOneMore
    <3> QED BY <2>2, <3>1, IndexRecordsAre
  <2>4. call' = [call EXCEPT ![c] = [call[c] EXCEPT !.tries = @ + 1]]
    BY <2>1 DEF IndexTyped
  <2> DEFINE q == [call[c] EXCEPT !.tries = @ + 1]
  <2>5. q.op = call[c].op /\ q.pc = call[c].pc /\ q.id = call[c].id /\ q.told = call[c].told
                             /\ q.hit = call[c].hit
    BY <2>2 DEF IndexRecords
  <2>6. q \in IndexRecords /\ call' = [call EXCEPT ![c] = q]
    BY <2>3, <2>4
  <2> HIDE DEF q
  <2> QED BY <2>5, <2>6 DEF IndexTyped
<1>2. CASE ~Indexes!Retries(a, call[c].tries)
  <2>1. call' = Indexes!Raise(c, "request")
    BY <1>2 DEF Indexes!After
  <2> QED BY <2>1, IndexRaisedIs
<1> QED BY <1>1, <1>2

\* A call that goes no further, or is as it was, keeps its invariant.
LEMMA IndexStaysInv ==
    ASSUME IndexIInv, NEW c \in Callers, IndexRelied(c), IndexTyped',
           call'[c].op = call[c].op, call'[c].pc \in {call[c].pc, "raised"}, call'[c].id = call[c].id,
           call'[c].told = call[c].told, call'[c].hit = call[c].hit,
           call[c].pc \notin {"idle", "returned"},
           \A i \in IndexIds : c \in deletedBy'[i] \ deletedBy[i] => call[c].id = i /\ Indexes!At(c, "delete")
    PROVE  IndexCallInv(c)'
<1>1. IndexPlaced(c)'
  BY DEF IndexIInv, IndexCallInv, IndexPlaced, Indexes!At
<1>2. IndexAdds(c)'
  BY DEF IndexIInv, IndexCallInv, IndexAdds, Indexes!At, IndexRelied
<1>3. IndexDeletes(c)'
  BY DEF IndexIInv, IndexCallInv, IndexDeletes, Indexes!At, IndexRelied
<1>4. IndexAsks(c)'
  <2>1. CASE call[c].op \notin Indexes!Checked \/ call'[c].pc # "ask"
    BY <2>1 DEF IndexIInv, IndexCallInv, IndexAsks, Indexes!At
  <2>2. CASE call[c].op \in Indexes!Checked /\ call'[c].pc = "ask"
    <3> DEFINE i == call[c].id
               n == call[c].told.ingestions
    <3>1. i \in IndexIds /\ Indexes!At(c, "ask")
      BY <2>2 DEF IndexIInv, IndexCallInv, IndexPlaced, Indexes!Questions, Indexes!At
    <3>2. n \in Nat
      BY DEF IndexIInv, IndexTyped, IndexRecords
    <3>3. accepted[i] \in Nat /\ accepted'[i] \in Nat
      BY <3>1 DEF IndexIInv, IndexTyped
    <3>4. ~call[c].hit /\ n <= accepted[i] /\ (Indexes!Busy(i) => n < accepted[i])
      BY <2>2, <3>1 DEF IndexIInv, IndexCallInv, IndexAsks
    <3>5. accepted[i] <= accepted'[i] /\ (Indexes!Busy(i)' => Indexes!Busy(i) \/ accepted[i] < accepted'[i])
      BY <3>1 DEF IndexRelied
    <3>6. n <= accepted'[i] /\ (Indexes!Busy(i)' => n < accepted'[i])
      BY <3>2, <3>3, <3>4, <3>5
    <3> QED BY <3>4, <3>6 DEF IndexAsks, Indexes!At, Indexes!Busy
  <2> QED BY <2>1, <2>2
<1> QED BY <1>1, <1>2, <1>3, <1>4 DEF IndexCallInv

\* Nothing of the server changes.
LEMMA IndexUnchanged ==
    ASSUME IndexIInv, UNCHANGED <<Indexes!server, Indexes!history>>, NEW x, call' \in [Callers -> IndexRecords]
    PROVE  IndexRelied(x) /\ IndexTyped' /\ IndexServed'
                             /\ \A i \in IndexIds : Indexes!Busy(i)' = Indexes!Busy(i)
<1>1. /\ index' = index /\ accepted' = accepted /\ bucket' = bucket /\ ingested' = ingested
      /\ deletedBy' = deletedBy /\ refused' = refused
  BY DEF Indexes!server, Indexes!history
<1>2. IndexTyped' /\ IndexServed'
  BY <1>1 DEF IndexIInv, IndexTyped, IndexServed
<1>3. \A i \in IndexIds : Indexes!Busy(i)' = Indexes!Busy(i)
  BY <1>1 DEF Indexes!Busy
<1>4. \A i \in IndexIds : accepted[i] <= accepted[i]
  BY DEF IndexIInv, IndexTyped
<1> QED BY <1>1, <1>2, <1>3, <1>4 DEF IndexRelied

LEMMA IndexTogether ==
    ASSUME IndexIInv, NEW c \in Callers, IndexRelied(c), IndexTyped', IndexServed', IndexCallInv(c)',
           \A d \in Callers \ {c} : call'[d] = call[d]
    PROVE  IndexIInv'
  BY IndexOthersInv DEF IndexIInv

-------------------------------------------------------------------------------
\* The service and other programs.
LEMMA IndexServiceInv ==
    ASSUME Indexes!IndexAssumption, IndexIInv, NEW i \in IndexIds,
           Indexes!IngestionBegins(i) \/ Indexes!IngestionEnds(i) \/ Indexes!Others(i)
    PROVE  IndexIInv'
<1>0. /\ index \in [IndexIds -> IndexStates] /\ accepted \in [IndexIds -> Nat] /\ bucket \subseteq Callers
      /\ ingested \in [IndexIds -> SUBSET Callers]
      /\ deletedBy \in [IndexIds -> SUBSET (Callers \cup {"others"})] /\ refused \subseteq Callers
  BY DEF IndexIInv, IndexTyped
<1>n. \A j \in IndexIds : accepted[j] \in Nat /\ accepted[j] <= accepted[j] /\ accepted[j] < accepted[j] + 1
                    /\ accepted[j] <= accepted[j] + 1 /\ accepted[j] + 1 \in Nat
  BY <1>0
<1>1. call' = call /\ bucket' = bucket /\ refused' = refused
  BY DEF Indexes!IngestionBegins, Indexes!IngestionEnds, Indexes!Others, Indexes!history
<1>2. IndexRelied("others") /\ IndexTyped' /\ IndexServed'
  <2>1. CASE Indexes!IngestionBegins(i)
    <3>1. /\ index[i] = "Queued" /\ index' = [index EXCEPT ![i] = "InProgress"]
          /\ ingested' = [ingested EXCEPT ![i] = bucket] /\ accepted' = accepted /\ deletedBy' = deletedBy
      BY <2>1 DEF Indexes!IngestionBegins, Indexes!history
    <3>2. IndexTyped'
      BY <1>0, <1>1, <3>1 DEF IndexIInv, IndexTyped, IndexStates
    <3>3. IndexServed'
      BY <1>0, <1>1, <3>1 DEF IndexIInv, IndexServed
    <3>4. IndexRelied("others")
      BY <1>0, <1>1, <1>n, <3>1 DEF IndexIInv, IndexServed, IndexRelied, Indexes!Busy
    <3> QED BY <3>2, <3>3, <3>4
  <2>2. CASE Indexes!IngestionEnds(i)
    <3>1. /\ index[i] = "InProgress" /\ index' \in {[index EXCEPT ![i] = s] : s \in {"Successful", "Failed"}}
          /\ ingested' = ingested /\ accepted' = accepted /\ deletedBy' = deletedBy
      BY <2>2 DEF Indexes!IngestionEnds, Indexes!history
    <3>2. IndexTyped'
      BY <1>0, <1>1, <3>1 DEF IndexIInv, IndexTyped, IndexStates
    <3>3. IndexServed'
      BY <1>0, <1>1, <3>1 DEF IndexIInv, IndexServed
    <3>4. IndexRelied("others")
      BY <1>0, <1>1, <1>n, <3>1 DEF IndexRelied, Indexes!Busy
    <3> QED BY <3>2, <3>3, <3>4
  <2>3. CASE i \in Indexes!Live /\ ~Indexes!Busy(i) /\ Indexes!Ingested(i) /\ UNCHANGED deletedBy
          /\ ingested' = ingested
    <3>1. /\ index[i] \notin {"none", "gone", "Queued", "InProgress"} /\ index' = [index EXCEPT ![i] = "Queued"]
          /\ accepted' = [accepted EXCEPT ![i] = @ + 1] /\ ingested' = ingested /\ deletedBy' = deletedBy
      BY <2>3 DEF Indexes!Live, Indexes!Busy, Indexes!Ingested
    <3>2. IndexTyped'
      BY <1>0, <1>1, <1>n, <3>1 DEF IndexIInv, IndexTyped, IndexStates
    <3>3. IndexServed'
      BY <1>0, <1>1, <3>1 DEF IndexIInv, IndexServed
    <3>4. IndexRelied("others")
      BY <1>0, <1>1, <1>n, <3>1 DEF IndexRelied, Indexes!Busy
    <3> QED BY <3>2, <3>3, <3>4
  <2>4. CASE /\ i \in Indexes!Live /\ index' = [index EXCEPT ![i] = "gone"] /\ accepted' = accepted
             /\ deletedBy' = [deletedBy EXCEPT ![i] = @ \cup {"others"}] /\ ingested' = ingested
    <3>1. index[i] \notin {"none", "gone"}
      BY <2>4 DEF Indexes!Live
    <3>2. IndexTyped'
      BY <1>0, <1>1, <2>4 DEF IndexIInv, IndexTyped, IndexStates
    <3>3. deletedBy[i] = {}
      BY <3>1 DEF IndexIInv, IndexServed
    <3>4. IndexServed'
      BY <1>0, <1>1, <2>4, <3>3 DEF IndexIInv, IndexServed
    <3>5. IndexRelied("others")
      BY <1>0, <1>1, <1>n, <2>4, <3>1 DEF IndexRelied, Indexes!Busy
    <3> QED BY <3>2, <3>4, <3>5
  <2>5. CASE /\ index[i] = "none" /\ index' = [index EXCEPT ![i] = "new"] /\ accepted' = accepted
             /\ deletedBy' = deletedBy /\ ingested' = ingested
    <3>2. IndexTyped'
      BY <1>0, <1>1, <2>5 DEF IndexIInv, IndexTyped, IndexStates
    <3>4. IndexServed'
      BY <1>0, <1>1, <2>5 DEF IndexIInv, IndexServed
    <3>5. IndexRelied("others")
      BY <1>0, <1>1, <1>n, <2>5 DEF IndexRelied, Indexes!Busy
    <3> QED BY <3>2, <3>4, <3>5
  <2> QED BY <2>1, <2>2, <2>3, <2>4, <2>5 DEF Indexes!Others
<1>3. ASSUME NEW d \in Callers PROVE IndexCallInv(d)'
  <2>1. d # "others"
    BY DEF Indexes!IndexAssumption
  <2> QED BY <1>1, <1>2, <2>1, IndexOthersInv
<1> QED BY <1>2, <1>3 DEF IndexIInv

LEMMA IndexBeginInv ==
    ASSUME Indexes!IndexAssumption, IndexIInv, NEW c \in Callers, Indexes!Begin(c)
    PROVE  IndexIInv'
<1>1. Indexes!At(c, "idle") /\ UNCHANGED <<Indexes!server, Indexes!history>>
                               /\ call \in [Callers -> IndexRecords] /\ call[c] \in IndexRecords /\ ~call[c].hit
  BY DEF Indexes!Begin, IndexIInv, IndexTyped, IndexCallInv, IndexPlaced
<1>2. /\ call' \in [Callers -> IndexRecords] /\ \A d \in Callers \ {c} : call'[d] = call[d]
      /\ ~call'[c].hit
      /\ \/ call'[c].op \in Indexes!Ops \ {"create"} /\ call'[c].pc = "retrieve"
         \/ call'[c].op = "create" /\ call'[c].pc = "create"
         \/ call'[c].op = "byid" /\ call'[c].pc = "ask" /\ call'[c].id \in IndexIds
  <2>1. CASE \E op \in Indexes!Ops :
                 call' = [call EXCEPT ![c].op = op, ![c].pc = IF op = "create" THEN "create" ELSE "retrieve"]
    <3>1. PICK op \in Indexes!Ops :
                 call' = [call EXCEPT ![c].op = op, ![c].pc = IF op = "create" THEN "create" ELSE "retrieve"]
      BY <2>1
    <3> DEFINE q == [call[c] EXCEPT !.op = op, !.pc = IF op = "create" THEN "create" ELSE "retrieve"]
    <3>2. q \in IndexRecords /\ q.op = op /\ q.pc = (IF op = "create" THEN "create" ELSE "retrieve") /\ ~q.hit
      BY <1>1 DEF IndexRecords
    <3>3. call' = [call EXCEPT ![c] = q]
      BY <1>1, <3>1
    <3> HIDE DEF q
    <3> QED BY <1>1, <3>2, <3>3
  <2>2. CASE \E i \in Indexes!Live : call' = [call EXCEPT ![c].op = "byid", ![c].id = i, ![c].pc = "ask"]
    <3>1. PICK i \in Indexes!Live : call' = [call EXCEPT ![c].op = "byid", ![c].id = i, ![c].pc = "ask"]
      BY <2>2
    <3> DEFINE q == [call[c] EXCEPT !.op = "byid", !.id = i, !.pc = "ask"]
    <3>2. q \in IndexRecords /\ q.op = "byid" /\ q.pc = "ask" /\ q.id = i /\ i \in IndexIds /\ ~q.hit
      BY <1>1 DEF IndexRecords, Indexes!Live
    <3>3. call' = [call EXCEPT ![c] = q]
      BY <1>1, <3>1
    <3> HIDE DEF q
    <3> QED BY <1>1, <3>2, <3>3
  <2> QED BY <2>1, <2>2 DEF Indexes!Begin
<1>3. IndexRelied(c) /\ IndexTyped' /\ IndexServed' /\ deletedBy' = deletedBy
  BY <1>1, <1>2, IndexUnchanged DEF Indexes!history
<1>4. \A i \in IndexIds : c \notin deletedBy[i]
  BY <1>1 DEF IndexIInv, IndexCallInv, IndexDeletes, Indexes!At
<1>5. IndexCallInv(c)'
  BY <1>2, <1>3, <1>4 DEF IndexCallInv, IndexPlaced, IndexAdds, IndexDeletes, IndexAsks, Indexes!Ops,
     Indexes!Questions, Indexes!Checked, Indexes!At
<1> QED BY <1>2, <1>3, <1>5, IndexTogether

LEMMA IndexToldIs ==
    ASSUME IndexTyped, NEW c \in Callers, NEW i \in Indexes!Live
    PROVE  LET told == IF call[c].op \in Indexes!Questions THEN [ingestions |-> accepted[i], busy |-> Indexes!Busy(i)]
                       ELSE call[c].told
           IN  told \in [ingestions : Nat, busy : BOOLEAN] /\
                           (call[c].op \in Indexes!Questions => told.ingestions = accepted[i])
<1>1. accepted[i] \in Nat
  BY DEF IndexTyped, Indexes!Live
<1>2. Indexes!Busy(i) \in BOOLEAN
  BY DEF Indexes!Busy
<1>3. call[c].told \in [ingestions : Nat, busy : BOOLEAN]
  BY DEF IndexTyped, IndexRecords
<1> QED BY <1>1, <1>2, <1>3

LEMMA IndexRetrieveInv ==
    ASSUME Indexes!IndexAssumption, IndexIInv, NEW c \in Callers, Indexes!Retrieve(c)
    PROVE  IndexIInv'
<1>1. /\ Indexes!At(c, "retrieve") /\ UNCHANGED <<Indexes!server, Indexes!history>>
         /\ call \in [Callers -> IndexRecords] /\ call[c] \in IndexRecords
      /\ ~call[c].hit /\ call[c].op \in Indexes!Ops \ {"create"}
  BY DEF Indexes!Retrieve, IndexIInv, IndexTyped, IndexCallInv, IndexPlaced
<1>d. deletedBy' = deletedBy /\ \A i \in IndexIds : c \notin deletedBy[i]
  BY <1>1 DEF Indexes!history, IndexIInv, IndexCallInv, IndexDeletes, Indexes!At
<1>t. IndexTyped
  BY DEF IndexIInv
<1>a. \A j \in IndexIds : accepted[j] \in Nat /\ accepted[j] <= accepted[j]
  <2>1. accepted \in [IndexIds -> Nat]
    BY <1>t DEF IndexTyped
  <2> QED BY <2>1
<1>2. CASE \E a \in Indexes!Attempts : \E x : call' = Indexes!After(c, a, x) /\ a.seen # "answer"
  <2>1. /\ call' \in [Callers -> IndexRecords] /\ \A d \in Callers \ {c} : call'[d] = call[d]
        /\ call'[c].op = call[c].op /\ call'[c].pc \in {call[c].pc, "raised"} /\ call'[c].id = call[c].id
        /\ call'[c].told = call[c].told /\ call'[c].hit = call[c].hit
    BY <1>2, <1>t, IndexNotAnswered
  <2>2. IndexRelied(c) /\ IndexTyped' /\ IndexServed'
    BY <1>1, <2>1, IndexUnchanged
  <2>3. IndexCallInv(c)'
    BY <1>1, <1>d, <2>1, <2>2, IndexStaysInv DEF Indexes!At
  <2> QED BY <2>1, <2>2, <2>3, IndexTogether
<1>3. CASE call' = Indexes!Raise(c, "not found")
  <2>1. /\ call' \in [Callers -> IndexRecords] /\ \A d \in Callers \ {c} : call'[d] = call[d]
        /\ call'[c].op = call[c].op /\ call'[c].pc = "raised" /\ call'[c].id = call[c].id
        /\ call'[c].told = call[c].told /\ call'[c].hit = call[c].hit
    BY <1>3, <1>t, IndexRaisedIs
  <2>2. IndexRelied(c) /\ IndexTyped' /\ IndexServed'
    BY <1>1, <2>1, IndexUnchanged
  <2>3. IndexCallInv(c)'
    BY <1>1, <1>d, <2>1, <2>2, IndexStaysInv DEF Indexes!At
  <2> QED BY <2>1, <2>2, <2>3, IndexTogether
<1>4. ASSUME NEW i \in Indexes!Live, NEW pc, pc = Indexes!First(c, i),
             NEW err \in {"none", "ingestion", "data source"},
             NEW told \in [ingestions : Nat, busy : BOOLEAN],
             call[c].op \in Indexes!Questions => told.ingestions = accepted[i],
             NEW p, p = [call[c] EXCEPT !.pc = pc, !.tries = 1, !.id = i, !.told = told],
             NEW q, q = IF err = "none" THEN p ELSE [p EXCEPT !.err = err],
             call' = [call EXCEPT ![c] = q]
      PROVE  IndexIInv'
  <2>i. i \in IndexIds
    BY DEF Indexes!Live
  <2>a. accepted[i] \in Nat /\ accepted[i] <= accepted[i]
    BY <1>a, <2>i
  <2>1. /\ pc \in {"bucket", "ingest", "delete", "ask", "raised"}
        /\ pc = "bucket" => call[c].op \in {"add", "put"}
        /\ pc = "ingest" => call[c].op = "ingest"
        /\ pc = "delete" => call[c].op = "delete"
        /\ pc = "ask" => call[c].op \in Indexes!Questions
           /\ (call[c].op \in Indexes!Checked => ~Indexes!Busy(i))
    <3>1. CASE call[c].op \in {"add", "put"}
      BY <1>4, <3>1 DEF Indexes!First
    <3>2. CASE call[c].op = "ingest"
      BY <1>4, <3>2 DEF Indexes!First
    <3>3. CASE call[c].op = "delete"
      BY <1>4, <3>3 DEF Indexes!First
    <3>4. CASE call[c].op \in Indexes!Questions
      BY <1>4, <3>4
         DEF Indexes!First, Indexes!Questions, Indexes!Checked, Indexes!Busy, Indexes!in_progress_ingestion
    <3> QED BY <1>1, <3>1, <3>2, <3>3, <3>4 DEF Indexes!Ops
  <2>3. p \in IndexRecords /\ p.op = call[c].op /\ p.pc = pc /\ p.id = i /\ p.told = told /\ p.hit = call[c].hit
    BY <1>1, <1>4, <2>i, <2>1 DEF IndexRecords
  <2>5. q \in IndexRecords /\ q.op = call[c].op /\ q.pc = pc /\ q.id = i /\ q.told = told /\ ~q.hit
    <3>1. CASE err = "none"
      BY <1>1, <1>4, <2>3, <3>1
    <3>2. CASE err # "none"
      <4>1. [p EXCEPT !.err = err] \in IndexRecords
        BY <2>3, <3>2, IndexRecordsAre
      <4>2. /\ [p EXCEPT !.err = err].op = p.op /\ [p EXCEPT !.err = err].pc = p.pc
            /\ [p EXCEPT !.err = err].id = p.id /\ [p EXCEPT !.err = err].told = p.told
            /\ [p EXCEPT !.err = err].hit = p.hit
        BY <2>3 DEF IndexRecords
      <4> QED BY <1>1, <1>4, <2>3, <3>2, <4>1, <4>2
    <3> QED BY <3>1, <3>2
  <2>6. call' \in [Callers -> IndexRecords] /\ call'[c] = q /\ \A d \in Callers \ {c} : call'[d] = call[d]
    BY <1>1, <1>4, <2>5
  <2>7. IndexRelied(c) /\ IndexTyped' /\ IndexServed' /\ accepted' = accepted
                          /\ (Indexes!Busy(i)' <=> Indexes!Busy(i))
    BY <1>1, <2>i, <2>6, IndexUnchanged DEF Indexes!server
  <2>8. IndexPlaced(c)' /\ IndexAdds(c)' /\ IndexDeletes(c)'
    BY <1>1, <1>d, <2>i, <2>1, <2>5, <2>6 DEF IndexPlaced, IndexAdds, IndexDeletes, Indexes!At
  <2>9. IndexAsks(c)'
    <3>1. CASE call[c].op \in Indexes!Checked /\ pc = "ask"
      <4>1. told.ingestions = accepted[i] /\ ~Indexes!Busy(i)
        BY <1>4, <2>1, <3>1 DEF Indexes!Questions
      <4>2. call'[c].told.ingestions = accepted[i] /\ call'[c].id = i /\ ~call'[c].hit /\ ~(Indexes!Busy(i)')
        BY <2>5, <2>6, <2>7, <4>1
      <4> QED BY <2>a, <2>7, <4>2 DEF IndexAsks, Indexes!At, Indexes!Busy
    <3>2. CASE ~(call[c].op \in Indexes!Checked /\ pc = "ask")
      BY <2>5, <2>6, <3>2 DEF IndexAsks, Indexes!At
    <3> QED BY <3>1, <3>2
  <2> QED BY <2>6, <2>7, <2>8, <2>9, IndexTogether DEF IndexCallInv
<1>5. PICK a \in Indexes!Attempts :
          IF Indexes!Live = {} THEN call' = Indexes!After(c, a, Indexes!Raise(c, "not found"))
          ELSE \E i \in Indexes!Live :
                  LET found == [Indexes!Go(c, Indexes!First(c, i)) EXCEPT ![c].id = i, ![c].told =
                                   IF call[c].op \in Indexes!Questions
                                   THEN [ingestions |-> accepted[i], busy |-> Indexes!Busy(i)] ELSE @]
                  IN call' = Indexes!After(c, a, IF Indexes!First(c, i) # "raised" THEN found
                                         ELSE [found EXCEPT ![c].err =
                                              IF call[c].op \in Indexes!Checked THEN "ingestion" ELSE "data source"])
  BY DEF Indexes!Retrieve
<1>6. CASE a.seen # "answer"
  BY <1>2, <1>5, <1>6
<1>7. CASE a.seen = "answer"
  <2>1. CASE Indexes!Live = {}
    BY <1>3, <1>5, <1>7, <2>1 DEF Indexes!After
  <2>2. CASE Indexes!Live # {}
    <3>1. PICK i \in Indexes!Live :
                  LET found == [Indexes!Go(c, Indexes!First(c, i)) EXCEPT ![c].id = i, ![c].told =
                                   IF call[c].op \in Indexes!Questions
                                   THEN [ingestions |-> accepted[i], busy |-> Indexes!Busy(i)] ELSE @]
                  IN call' = Indexes!After(c, a, IF Indexes!First(c, i) # "raised" THEN found
                                         ELSE [found EXCEPT ![c].err =
                                              IF call[c].op \in Indexes!Checked THEN "ingestion" ELSE "data source"])
      BY <1>5, <2>2
    <3> DEFINE pc == Indexes!First(c, i)
               err == IF pc # "raised" THEN "none"
                     ELSE IF call[c].op \in Indexes!Checked THEN "ingestion" ELSE "data source"
               told == IF call[c].op \in Indexes!Questions THEN [ingestions |-> accepted[i], busy |-> Indexes!Busy(i)]
                       ELSE call[c].told
               p == [call[c] EXCEPT !.pc = pc, !.tries = 1, !.id = i, !.told = told]
               q == IF err = "none" THEN p ELSE [p EXCEPT !.err = err]
    <3>2. LET found == [Indexes!Go(c, pc) EXCEPT ![c].id = i, ![c].told =
                           IF call[c].op \in Indexes!Questions
                           THEN [ingestions |-> accepted[i], busy |-> Indexes!Busy(i)] ELSE @]
          IN call' = IF pc # "raised" THEN found
                     ELSE [found EXCEPT ![c].err =
                          IF call[c].op \in Indexes!Checked THEN "ingestion" ELSE "data source"]
      BY <1>7, <3>1 DEF Indexes!After
    <3>3. pc = Indexes!First(c, i)
      OBVIOUS
    <3>4. told \in [ingestions : Nat, busy : BOOLEAN] /\
              (call[c].op \in Indexes!Questions => told.ingestions = accepted[i])
      BY <1>1, <1>t, IndexToldIs
    <3>5. [Indexes!Go(c, pc) EXCEPT ![c].id = i, ![c].told =
              IF call[c].op \in Indexes!Questions THEN [ingestions |-> accepted[i], busy |-> Indexes!Busy(i)] ELSE @]
          = [call EXCEPT ![c] = p]
      <4>1. Indexes!Go(c, pc) = [call EXCEPT ![c] = [call[c] EXCEPT !.pc = pc, !.tries = 1]]
        BY <1>1 DEF Indexes!Go
      <4> DEFINE g == [call[c] EXCEPT !.pc = pc, !.tries = 1]
      <4>2. g.told = call[c].told
        BY <1>1 DEF IndexRecords
      <4> HIDE DEF g
      <4>3. [[call EXCEPT ![c] = g] EXCEPT ![c].id = i, ![c].told =
               IF call[c].op \in Indexes!Questions THEN [ingestions |-> accepted[i], busy |-> Indexes!Busy(i)] ELSE @]
            = [call EXCEPT ![c] = [g EXCEPT !.id = i, !.told = told]]
        BY <1>1, <4>2
      <4>4. [g EXCEPT !.id = i, !.told = told] = p
        BY DEF g
      <4> QED BY <4>1, <4>3, <4>4 DEF g
    <3> HIDE DEF pc, told, p
    <3>6. call' = [call EXCEPT ![c] = q]
      BY <1>1, <3>2, <3>5
    <3>7. err \in {"none", "ingestion", "data source"}
      OBVIOUS
    <3> QED BY <1>4, <3>3, <3>4, <3>6, <3>7 DEF p
  <2> QED BY <2>1, <2>2
<1> QED BY <1>6, <1>7

\* What is known of a call that is under way.
LEMMA IndexKnown ==
    ASSUME IndexIInv, NEW c \in Callers
    PROVE  /\ IndexTyped /\ IndexServed /\ IndexPlaced(c) /\ IndexAdds(c) /\ IndexDeletes(c) /\ IndexAsks(c)
           /\ call \in [Callers -> IndexRecords] /\ call[c] \in IndexRecords
           /\ index \in [IndexIds -> IndexStates] /\ accepted \in [IndexIds -> Nat] /\ bucket \subseteq Callers
           /\ ingested \in [IndexIds -> SUBSET Callers] /\ refused \subseteq Callers
           /\ deletedBy \in [IndexIds -> SUBSET (Callers \cup {"others"})]
           /\ \A j \in IndexIds : accepted[j] \in Nat /\ accepted[j] <= accepted[j]
              /\ accepted[j] < accepted[j] + 1
                             /\ accepted[j] <= accepted[j] + 1 /\ accepted[j] + 1 \in Nat
<1>1. /\ IndexTyped /\ IndexServed /\ IndexPlaced(c) /\ IndexAdds(c) /\ IndexDeletes(c) /\ IndexAsks(c)
      /\ call \in [Callers -> IndexRecords] /\ call[c] \in IndexRecords
      /\ index \in [IndexIds -> IndexStates] /\ accepted \in [IndexIds -> Nat] /\ bucket \subseteq Callers
      /\ ingested \in [IndexIds -> SUBSET Callers] /\ refused \subseteq Callers
      /\ deletedBy \in [IndexIds -> SUBSET (Callers \cup {"others"})]
  BY DEF IndexIInv, IndexTyped, IndexCallInv
<1>2. accepted \in [IndexIds -> Nat]
  BY <1>1
<1>3. \A j \in IndexIds : accepted[j] \in Nat /\ accepted[j] <= accepted[j] /\ accepted[j] < accepted[j] + 1
                      /\ accepted[j] <= accepted[j] + 1 /\ accepted[j] + 1 \in Nat
  BY <1>2
<1> QED BY <1>1, <1>3

\* A request that is not answered, whatever the service did.
LEMMA IndexNotAnsweredInv ==
    ASSUME IndexIInv, NEW c \in Callers, NEW a \in Indexes!Attempts, NEW x, call' = Indexes!After(c, a, x),
           a.seen # "answer",
           IndexRelied(c), call' \in [Callers -> IndexRecords] => IndexTyped', IndexServed',
           call[c].pc \notin {"idle", "returned"},
           \A i \in IndexIds : c \in deletedBy'[i] \ deletedBy[i] => call[c].id = i /\ Indexes!At(c, "delete")
    PROVE  IndexIInv'
<1>1. /\ call' \in [Callers -> IndexRecords] /\ \A d \in Callers \ {c} : call'[d] = call[d]
      /\ call'[c].op = call[c].op /\ call'[c].pc \in {call[c].pc, "raised"} /\ call'[c].id = call[c].id
      /\ call'[c].told = call[c].told /\ call'[c].hit = call[c].hit
  BY IndexKnown, IndexNotAnswered
<1>2. IndexTyped'
  BY <1>1
<1>3. IndexCallInv(c)'
  BY <1>1, <1>2, IndexStaysInv
<1> QED BY <1>1, <1>2, <1>3, IndexTogether

\* A request that raises, whatever the service did.
LEMMA IndexRaisedInv ==
    ASSUME IndexIInv, NEW c \in Callers, NEW err \in {"request", "not found", "ingestion", "data source"},
           call' = Indexes!Raise(c, err),
           IndexRelied(c), call' \in [Callers -> IndexRecords] => IndexTyped', IndexServed',
           call[c].pc \notin {"idle", "returned"},
           \A i \in IndexIds : c \in deletedBy'[i] \ deletedBy[i] => call[c].id = i /\ Indexes!At(c, "delete")
    PROVE  IndexIInv'
<1>1. /\ call' \in [Callers -> IndexRecords] /\ \A d \in Callers \ {c} : call'[d] = call[d]
      /\ call'[c].op = call[c].op /\ call'[c].pc = "raised" /\ call'[c].id = call[c].id
      /\ call'[c].told = call[c].told /\ call'[c].hit = call[c].hit
  <2>1. IndexTyped
    BY IndexKnown
  <2>2. LET r == Indexes!Raise(c, err) IN
        /\ r \in [Callers -> IndexRecords] /\ \A d \in Callers \ {c} : r[d] = call[d]
        /\ r[c].op = call[c].op /\ r[c].pc = "raised" /\ r[c].id = call[c].id
        /\ r[c].told = call[c].told /\ r[c].hit = call[c].hit
    BY <2>1, IndexRaisedIs
  <2> QED BY <2>2
<1>2. IndexTyped'
  BY <1>1
<1>3. IndexCallInv(c)'
  BY <1>1, <1>2, IndexStaysInv
<1> QED BY <1>1, <1>2, <1>3, IndexTogether

LEMMA IndexLocateInv ==
    ASSUME Indexes!IndexAssumption, IndexIInv, NEW c \in Callers, Indexes!Locate(c)
    PROVE  IndexIInv'
<1>1. UNCHANGED <<Indexes!server, Indexes!history>> /\ deletedBy' = deletedBy
  BY DEF Indexes!Locate, Indexes!history
<1>2. call[c].pc \in {"bucket", "uri"} /\ call[c].op \in {"add", "put"} /\ call[c].id \in IndexIds
  BY IndexKnown DEF Indexes!Locate, Indexes!At, IndexPlaced
<1>3. PICK a \in Indexes!Attempts, pc \in {"uri", "putBehind", "putStraight"} :
         call' = Indexes!After(c, a, Indexes!Go(c, pc))
  BY DEF Indexes!Locate
<1>4. CASE a.seen # "answer"
  <2>1. IndexRelied(c) /\ IndexServed' /\ (call' \in [Callers -> IndexRecords] => IndexTyped')
    <3>1. call' \in [Callers -> IndexRecords]
      BY <1>3, <1>4, IndexKnown, IndexNotAnswered
    <3> QED BY <1>1, <3>1, IndexUnchanged
  <2> QED BY <1>1, <1>2, <1>3, <1>4, <2>1, IndexNotAnsweredInv
<1>5. CASE a.seen = "answer"
  <2>1. call' = Indexes!Go(c, pc)
    BY <1>3, <1>5 DEF Indexes!After
  <2>2. /\ call' \in [Callers -> IndexRecords] /\ \A d \in Callers \ {c} : call'[d] = call[d]
        /\ call'[c].op = call[c].op /\ call'[c].pc = pc /\ call'[c].id = call[c].id
        /\ call'[c].told = call[c].told /\ call'[c].hit = call[c].hit
    BY <2>1, IndexKnown, IndexGoneOnIs
  <2>3. IndexRelied(c) /\ IndexTyped' /\ IndexServed'
    BY <1>1, <2>2, IndexUnchanged
  <2>4. \A i \in IndexIds : c \in deletedBy[i] => call[c].id = i
    BY IndexKnown DEF IndexDeletes
  <2>5. IndexCallInv(c)'
    BY <1>1, <1>2, <2>2, <2>4
       DEF IndexCallInv, IndexPlaced, IndexAdds, IndexDeletes, IndexAsks, Indexes!Checked, Indexes!At
  <2> QED BY <2>2, <2>3, <2>5, IndexTogether
<1> QED BY <1>4, <1>5

\* What putting a file does, and that the call has put it when it goes on.
LEMMA IndexPutIs ==
    ASSUME IndexIInv, NEW c \in Callers, call[c].op \in {"add", "put"},
           UNCHANGED <<index, accepted, ingested, deletedBy>>, bucket' \in {bucket, bucket \cup {c}},
           refused' \in {refused, refused \cup {c}}
    PROVE  /\ IndexRelied(c) /\ IndexServed' /\ (call' \in [Callers -> IndexRecords] => IndexTyped')
           /\ \A i \in IndexIds : Indexes!Busy(i)' <=> Indexes!Busy(i)
<1>1. IndexServed'
  BY IndexKnown DEF IndexServed
<1>2. call' \in [Callers -> IndexRecords] => IndexTyped'
  BY IndexKnown DEF IndexTyped
<1>3. \A i \in IndexIds : Indexes!Busy(i)' <=> Indexes!Busy(i)
  BY DEF Indexes!Busy
<1>4. IndexRelied(c)
  BY <1>3, IndexKnown DEF IndexRelied, IndexServed
<1> QED BY <1>1, <1>2, <1>3, <1>4

LEMMA IndexHasPutInv ==
    ASSUME IndexIInv, NEW c \in Callers, call[c].op \in {"add", "put"}, call[c].pc \in {"putBehind", "putStraight"},
           UNCHANGED <<index, accepted, ingested, deletedBy>>, bucket' \in {bucket, bucket \cup {c}},
           refused' \in {refused, refused \cup {c}}, c \in bucket' \cup refused', call' = Indexes!AfterPut(c)
    PROVE  IndexIInv'
<1> DEFINE pc == IF call[c].op = "add" THEN "ingest" ELSE "returned"
<1>1. /\ call' \in [Callers -> IndexRecords] /\ \A d \in Callers \ {c} : call'[d] = call[d]
      /\ call'[c].op = call[c].op /\ call'[c].pc = pc /\ call'[c].id = call[c].id
      /\ call'[c].told = call[c].told /\ call'[c].hit = call[c].hit
  BY IndexKnown, IndexGoneOnIs DEF Indexes!AfterPut
<1>2. IndexRelied(c) /\ IndexServed' /\ IndexTyped'
  BY <1>1, IndexPutIs
<1>3. call[c].id \in IndexIds /\ \A i \in IndexIds : c \in deletedBy[i] => call[c].id = i
  BY IndexKnown DEF IndexPlaced, IndexDeletes
<1>4. IndexCallInv(c)'
  BY <1>1, <1>3 DEF IndexCallInv, IndexPlaced, IndexAdds, IndexDeletes, IndexAsks, Indexes!Checked, Indexes!At
<1> QED BY <1>1, <1>2, <1>4, IndexTogether

LEMMA IndexPutBehindInv ==
    ASSUME Indexes!IndexAssumption, IndexIInv, NEW c \in Callers, Indexes!PutBehind(c)
    PROVE  IndexIInv'
<1>1. /\ Indexes!At(c, "putBehind") /\ call[c].op \in {"add", "put"}
      /\ UNCHANGED <<index, accepted, ingested, deletedBy, refused>>
  BY IndexKnown DEF Indexes!PutBehind, IndexPlaced, Indexes!At, Indexes!history
<1>2. PICK a \in Indexes!Attempts :
          /\ bucket' = IF a.applied THEN bucket \cup {c} ELSE bucket
          /\ call' = Indexes!After(c, a, Indexes!AfterPut(c))
  BY DEF Indexes!PutBehind
<1>3. CASE a.seen # "answer"
  BY <1>1, <1>2, <1>3, IndexPutIs, IndexNotAnsweredInv DEF Indexes!At
<1>4. CASE a.seen = "answer"
  BY <1>1, <1>2, <1>4, IndexHasPutInv, IndexAttemptsAre DEF Indexes!At, Indexes!After
<1> QED BY <1>3, <1>4

LEMMA IndexPutStraightInv ==
    ASSUME Indexes!IndexAssumption, IndexIInv, NEW c \in Callers, Indexes!PutStraight(c)
    PROVE  IndexIInv'
<1>1. /\ Indexes!At(c, "putStraight") /\ call[c].op \in {"add", "put"}
      /\ UNCHANGED <<index, accepted, ingested, deletedBy>>
  BY IndexKnown DEF Indexes!PutStraight, IndexPlaced, Indexes!At
<1>2. CASE bucket' = bucket \cup {c} /\ call' = Indexes!AfterPut(c) /\ UNCHANGED refused
  BY <1>1, <1>2, IndexHasPutInv DEF Indexes!At
<1>3. CASE refused' = refused \cup {c} /\ call' = Indexes!AfterPut(c) /\ UNCHANGED bucket
  BY <1>1, <1>3, IndexHasPutInv DEF Indexes!At
<1>4. CASE bucket' \in {bucket, bucket \cup {c}} /\ call' = Indexes!Raise(c, "request") /\ UNCHANGED refused
  BY <1>1, <1>4, IndexPutIs, IndexRaisedInv DEF Indexes!At
<1> QED BY <1>2, <1>3, <1>4 DEF Indexes!PutStraight

LEMMA IndexIngestInv ==
    ASSUME Indexes!IndexAssumption, IndexIInv, NEW c \in Callers, Indexes!Ingest(c)
    PROVE  IndexIInv'
<1> DEFINE i == call[c].id
<1>1. Indexes!At(c, "ingest") /\ UNCHANGED <<bucket, ingested, Indexes!history>> /\ deletedBy' = deletedBy
        /\ refused' = refused
  BY DEF Indexes!Ingest, Indexes!history
<1>2. i \in IndexIds /\ call[c].op \in {"add", "ingest"} /\ (call[c].op = "add" => c \in bucket \cup refused)
  BY <1>1, IndexKnown DEF IndexPlaced, IndexAdds, Indexes!At
<1>3. PICK a \in Indexes!Attempts :
          /\ IF a.applied /\ i \in Indexes!Live /\ ~Indexes!Busy(i)
             THEN accepted[i] < MaxIngestions /\ Indexes!Ingested(i)
             ELSE UNCHANGED <<index, accepted>>
          /\ call' = Indexes!After(c, a, CASE i \notin Indexes!Live -> Indexes!Raise(c, "not found")
                                   [] i \in Indexes!Live /\ Indexes!Busy(i) ->
                                        [Indexes!Conflict(c) EXCEPT ![c].hit = TRUE]
                                   [] OTHER -> Indexes!Go(c, "returned"))
  BY DEF Indexes!Ingest
<1> HIDE DEF i
<1>4. /\ IndexRelied(c) /\ IndexServed' /\ (call' \in [Callers -> IndexRecords] => IndexTyped')
      /\ a.applied /\ i \in Indexes!Live /\ ~Indexes!Busy(i) => index'[i] = "Queued"
  <2>1. CASE a.applied /\ i \in Indexes!Live /\ ~Indexes!Busy(i)
    <3>1. /\ index[i] \notin {"none", "gone", "Queued", "InProgress"} /\ index' = [index EXCEPT ![i] = "Queued"]
          /\ accepted' = [accepted EXCEPT ![i] = @ + 1] /\ ingested' = ingested
      BY <1>1, <1>3, <2>1 DEF Indexes!Live, Indexes!Busy, Indexes!Ingested
    <3>2. call' \in [Callers -> IndexRecords] => IndexTyped'
      BY <1>1, <3>1, IndexKnown DEF IndexTyped, IndexStates
    <3>3. IndexServed'
      BY <1>1, <3>1, IndexKnown DEF IndexServed
    <3>4. IndexRelied(c)
      BY <1>1, <3>1, IndexKnown DEF IndexRelied, Indexes!Busy
    <3>5. index'[i] = "Queued"
      BY <1>2, <3>1, IndexKnown
    <3> QED BY <3>2, <3>3, <3>4, <3>5
  <2>2. CASE ~(a.applied /\ i \in Indexes!Live /\ ~Indexes!Busy(i))
    <3>1. UNCHANGED <<Indexes!server, Indexes!history>>
      BY <1>1, <1>3, <2>2 DEF Indexes!server, Indexes!history
    <3>2. call' \in [Callers -> IndexRecords] => IndexTyped'
      BY <3>1, IndexUnchanged
    <3>3. IndexServed'
      BY <1>1, <3>1, IndexKnown DEF IndexServed, Indexes!server
    <3>4. IndexRelied(c)
      BY <1>1, <3>1, IndexKnown DEF IndexRelied, Indexes!Busy, Indexes!server
    <3> QED BY <2>2, <3>2, <3>3, <3>4
  <2> QED BY <2>1, <2>2
<1>5. CASE a.seen # "answer"
  BY <1>1, <1>3, <1>4, <1>5, IndexNotAnsweredInv DEF Indexes!At
<1>6. CASE a.seen = "answer" /\ i \notin Indexes!Live
  <2>1. call' = Indexes!Raise(c, "not found")
    BY <1>3, <1>6 DEF Indexes!After
  <2> QED BY <1>1, <1>4, <2>1, IndexRaisedInv DEF Indexes!At
<1>7. CASE a.seen = "answer" /\ i \in Indexes!Live /\ Indexes!Busy(i)
  <2> DEFINE g == Indexes!Raise(c, "request")
  <2>1. call' = [g EXCEPT ![c].hit = TRUE]
    BY <1>3, <1>7 DEF Indexes!After, Indexes!Conflict
  <2>2. /\ g \in [Callers -> IndexRecords] /\ \A d \in Callers \ {c} : g[d] = call[d]
        /\ g[c].op = call[c].op /\ g[c].pc = "raised" /\ g[c].id = call[c].id
    BY IndexKnown, IndexRaisedIs
  <2> HIDE DEF g
  <2>3. g[c] \in IndexRecords
    BY <2>2
  <2> DEFINE q == [g[c] EXCEPT !.hit = TRUE]
  <2>4. q \in IndexRecords /\ q.op = g[c].op /\ q.pc = g[c].pc /\ q.id = g[c].id
    BY <2>3 DEF IndexRecords
  <2>5. call' = [g EXCEPT ![c] = q]
    BY <2>1, <2>2
  <2> HIDE DEF q
  <2>6. /\ call' \in [Callers -> IndexRecords] /\ \A d \in Callers \ {c} : call'[d] = call[d]
        /\ call'[c].op = call[c].op /\ call'[c].pc = "raised" /\ call'[c].id = i
    BY <2>2, <2>4, <2>5 DEF i
  <2>7. \A j \in IndexIds : c \in deletedBy[j] => i = j
    BY IndexKnown DEF IndexDeletes, i
  <2>8. IndexCallInv(c)'
    BY <1>1, <1>2, <2>6, <2>7
       DEF IndexCallInv, IndexPlaced, IndexAdds, IndexDeletes, IndexAsks, Indexes!Checked, Indexes!At
  <2> QED BY <1>4, <2>6, <2>8, IndexTogether
<1>8. CASE a.seen = "answer" /\ i \in Indexes!Live /\ ~Indexes!Busy(i)
  <2>1. call' = Indexes!Go(c, "returned")
    BY <1>3, <1>8 DEF Indexes!After
  <2>2. /\ call' \in [Callers -> IndexRecords] /\ \A d \in Callers \ {c} : call'[d] = call[d]
        /\ call'[c].op = call[c].op /\ call'[c].pc = "returned" /\ call'[c].id = i
    BY <2>1, IndexKnown, IndexGoneOnIs DEF i
  <2>3. index'[i] = "Queued"
    BY <1>4, <1>8, IndexAttemptsAre
  <2>7. \A j \in IndexIds : c \in deletedBy[j] => i = j
    BY IndexKnown DEF IndexDeletes, i
  <2>8. IndexCallInv(c)'
    BY <1>1, <1>2, <2>2, <2>3, <2>7
       DEF IndexCallInv, IndexPlaced, IndexAdds, IndexDeletes, IndexAsks, Indexes!Checked, Indexes!At
  <2> QED BY <1>4, <2>2, <2>8, IndexTogether
<1> QED BY <1>5, <1>6, <1>7, <1>8

LEMMA IndexDeleteInv ==
    ASSUME Indexes!IndexAssumption, IndexIInv, NEW c \in Callers, Indexes!Delete(c)
    PROVE  IndexIInv'
<1> DEFINE i == call[c].id
<1>1. Indexes!At(c, "delete") /\ UNCHANGED <<accepted, bucket, ingested, refused>>
  BY DEF Indexes!Delete
<1>2. i \in IndexIds /\ call[c].op = "delete" /\ \A j \in IndexIds : c \in deletedBy[j] => i = j
  BY <1>1, IndexKnown DEF IndexPlaced, IndexDeletes, Indexes!At
<1>3. PICK a \in Indexes!Attempts :
          /\ IF a.applied
             THEN /\ index' = [j \in IndexIds |-> IF j \in Indexes!Condemned(c) THEN "gone" ELSE index[j]]
                  /\ deletedBy' = [j \in IndexIds |->
                                     IF j \in Indexes!Condemned(c) THEN deletedBy[j] \cup {c} ELSE deletedBy[j]]
             ELSE UNCHANGED <<index, deletedBy>>
          /\ call' = Indexes!After(c, a, IF Indexes!Condemned(c) = {} THEN Indexes!Raise(c, "not found")
                                         ELSE Indexes!Go(c, "returned"))
  BY DEF Indexes!Delete
<1>c. Indexes!Condemned(c) = IF i \in Indexes!Live THEN {i} ELSE {}
  BY DEF Indexes!Condemned
<1> HIDE DEF i
<1>4. /\ IndexRelied(c) /\ IndexServed' /\ (call' \in [Callers -> IndexRecords] => IndexTyped')
      /\ a.applied /\ i \in Indexes!Live => index'[i] = "gone"
      /\ \A j \in IndexIds : c \in deletedBy'[j] => j = i
  <2>1. CASE a.applied /\ i \in Indexes!Live
    <3>1. /\ index[i] \notin {"none", "gone"} /\ index' = [index EXCEPT ![i] = "gone"]
          /\ deletedBy' = [deletedBy EXCEPT ![i] = @ \cup {c}]
      BY <1>c, <1>3, <2>1, IndexKnown DEF Indexes!Live
    <3>2. call' \in [Callers -> IndexRecords] => IndexTyped'
      BY <1>1, <3>1, IndexKnown DEF IndexTyped, IndexStates
    <3>3. IndexServed'
      BY <1>1, <3>1, IndexKnown DEF IndexServed
    <3>4. IndexRelied(c)
      BY <1>1, <3>1, IndexKnown DEF IndexRelied, Indexes!Busy
    <3>5. index'[i] = "gone" /\ \A j \in IndexIds : c \in deletedBy'[j] => j = i
      BY <1>2, <3>1, IndexKnown
    <3> QED BY <3>2, <3>3, <3>4, <3>5
  <2>2. CASE ~(a.applied /\ i \in Indexes!Live)
    <3>1. index' = index /\ deletedBy' = deletedBy
      BY <1>c, <1>3, <2>2, IndexKnown
    <3>2. call' \in [Callers -> IndexRecords] => IndexTyped'
      BY <1>1, <3>1, IndexKnown DEF IndexTyped
    <3>3. IndexServed'
      BY <1>1, <3>1, IndexKnown DEF IndexServed
    <3>4. IndexRelied(c)
      BY <1>1, <3>1, IndexKnown DEF IndexRelied, Indexes!Busy
    <3> QED BY <1>2, <2>2, <3>1, <3>2, <3>3, <3>4
  <2> QED BY <2>1, <2>2
<1>5. CASE a.seen # "answer"
  BY <1>1, <1>2, <1>3, <1>4, <1>5, IndexNotAnsweredInv DEF Indexes!At, i
<1>6. CASE a.seen = "answer" /\ i \notin Indexes!Live
  <2>1. call' = Indexes!Raise(c, "not found")
    BY <1>c, <1>3, <1>6 DEF Indexes!After
  <2> QED BY <1>1, <1>2, <1>4, <2>1, IndexRaisedInv DEF Indexes!At, i
<1>7. CASE a.seen = "answer" /\ i \in Indexes!Live
  <2>1. call' = Indexes!Go(c, "returned")
    BY <1>c, <1>3, <1>7 DEF Indexes!After
  <2>2. /\ call' \in [Callers -> IndexRecords] /\ \A d \in Callers \ {c} : call'[d] = call[d]
        /\ call'[c].op = call[c].op /\ call'[c].pc = "returned" /\ call'[c].id = i
    BY <2>1, IndexKnown, IndexGoneOnIs DEF i
  <2>3. index'[i] = "gone"
    BY <1>4, <1>7, IndexAttemptsAre
  <2>8. IndexCallInv(c)'
    BY <1>1, <1>2, <1>4, <2>2, <2>3
       DEF IndexCallInv, IndexPlaced, IndexAdds, IndexDeletes, IndexAsks, Indexes!Checked, Indexes!At
  <2> QED BY <1>4, <2>2, <2>8, IndexTogether
<1> QED BY <1>5, <1>6, <1>7

LEMMA IndexAskInv ==
    ASSUME Indexes!IndexAssumption, IndexIInv, NEW c \in Callers, Indexes!Ask(c)
    PROVE  IndexIInv'
<1> DEFINE i == call[c].id
           targets == IF call[c].op = "search" THEN Indexes!Live ELSE {i} \cap Indexes!Live
           hit == \E j \in targets : j = i /\ Indexes!Busy(j) /\ accepted[j] = call[c].told.ingestions
<1>1. Indexes!At(c, "ask") /\ UNCHANGED <<Indexes!server, Indexes!history>> /\ deletedBy' = deletedBy
  BY DEF Indexes!Ask, Indexes!history
<1>2. i \in IndexIds /\ call[c].op \in Indexes!Questions \cup {"byid"}
                        /\ \A j \in IndexIds : c \in deletedBy[j] => i = j
  BY <1>1, IndexKnown DEF IndexPlaced, IndexDeletes, Indexes!At
<1>3. PICK a \in Indexes!Attempts :
          call' = Indexes!After(c, a, IF targets = {} THEN Indexes!Raise(c, "not found")
                                      ELSE [Indexes!Go(c, "returned") EXCEPT ![c].hit = hit])
  BY DEF Indexes!Ask
<1>h. call[c].op \in Indexes!Checked => ~hit
  <2>1. CASE call[c].op \in Indexes!Checked /\ Indexes!Busy(i)
    <3>1. call[c].told.ingestions < accepted[i]
      BY <1>1, <2>1, IndexKnown DEF IndexAsks
    <3>2. call[c].told.ingestions \in Nat
      BY IndexKnown DEF IndexRecords
    <3>3. accepted[i] \in Nat
      BY <1>2, IndexKnown
    <3>4. accepted[i] # call[c].told.ingestions
      BY <3>1, <3>2, <3>3
    <3> QED BY <3>4
  <2>2. CASE ~Indexes!Busy(i)
    BY <2>2
  <2> QED BY <2>1, <2>2
<1>b. hit \in BOOLEAN
  OBVIOUS
<1> HIDE DEF targets, hit
<1>4. call' \in [Callers -> IndexRecords] => IndexRelied(c) /\ IndexServed' /\ IndexTyped'
  BY <1>1, IndexUnchanged
<1>5. CASE a.seen # "answer"
  <2>1. call' \in [Callers -> IndexRecords]
    BY <1>3, <1>5, IndexKnown, IndexNotAnswered
  <2> QED BY <1>1, <1>3, <1>4, <1>5, <2>1, IndexNotAnsweredInv DEF Indexes!At
<1>6. CASE a.seen = "answer" /\ targets = {}
  <2>1. call' = Indexes!Raise(c, "not found")
    BY <1>3, <1>6 DEF Indexes!After
  <2>2. call' \in [Callers -> IndexRecords]
    BY <2>1, IndexKnown, IndexRaisedIs
  <2> QED BY <1>1, <1>4, <2>1, <2>2, IndexRaisedInv DEF Indexes!At
<1>7. CASE a.seen = "answer" /\ targets # {}
  <2> DEFINE g == Indexes!Go(c, "returned")
  <2>1. call' = [g EXCEPT ![c].hit = hit]
    BY <1>3, <1>7 DEF Indexes!After
  <2>2. /\ g \in [Callers -> IndexRecords] /\ \A d \in Callers \ {c} : g[d] = call[d]
        /\ g[c].op = call[c].op /\ g[c].pc = "returned" /\ g[c].id = i
    BY IndexKnown, IndexGoneOnIs
  <2> HIDE DEF g
  <2>3. g[c] \in IndexRecords
    BY <2>2
  <2> DEFINE q == [g[c] EXCEPT !.hit = hit]
  <2>4. q \in IndexRecords /\ q.op = g[c].op /\ q.pc = g[c].pc /\ q.id = g[c].id /\ q.hit = hit
    BY <1>b, <2>3 DEF IndexRecords
  <2>5. call' = [g EXCEPT ![c] = q]
    BY <2>1, <2>2
  <2> HIDE DEF q
  <2>6. /\ call' \in [Callers -> IndexRecords] /\ \A d \in Callers \ {c} : call'[d] = call[d]
        /\ call'[c].op = call[c].op /\ call'[c].pc = "returned" /\ call'[c].id = i /\ call'[c].hit = hit
    BY <2>2, <2>4, <2>5
  <2>8. IndexCallInv(c)'
    BY <1>1, <1>2, <1>h, <2>6 DEF IndexCallInv, IndexPlaced, IndexAdds, IndexDeletes, IndexAsks,
       Indexes!Questions, Indexes!Checked, Indexes!At
  <2> QED BY <1>4, <2>6, <2>8, IndexTogether
<1> QED BY <1>5, <1>6, <1>7

LEMMA IndexCreateInv ==
    ASSUME Indexes!IndexAssumption, IndexIInv, NEW c \in Callers, Indexes!Create(c)
    PROVE  IndexIInv'
<1>1. Indexes!At(c, "create") /\ UNCHANGED <<accepted, bucket, ingested, Indexes!history>>
        /\ deletedBy' = deletedBy /\ refused' = refused
  BY DEF Indexes!Create, Indexes!history
<1>2. call[c].op = "create" /\ \A j \in IndexIds : c \notin deletedBy[j]
  BY <1>1, IndexKnown DEF IndexPlaced, IndexDeletes, Indexes!At
<1> DEFINE fresh == {i \in IndexIds : index[i] = "none" /\ Indexes!Live = {}}
<1>3. PICK a \in Indexes!Attempts :
          IF fresh = {} THEN UNCHANGED index /\ call' = Indexes!After(c, a, Indexes!Raise(c, "request"))
          ELSE \E i \in fresh :
                  /\ index' = IF a.applied THEN [index EXCEPT ![i] = "new"] ELSE index
                  /\ call' = Indexes!After(c, a, [Indexes!Go(c, "returned") EXCEPT ![c].id = i])
  BY DEF Indexes!Create
<1>4. \/ index' = index
      \/ \E i \in IndexIds : index[i] = "none" /\ index' = [index EXCEPT ![i] = "new"]
  BY <1>3
<1>5. IndexRelied(c) /\ IndexServed' /\ (call' \in [Callers -> IndexRecords] => IndexTyped')
  <2>1. call' \in [Callers -> IndexRecords] => IndexTyped'
    BY <1>1, <1>4, IndexKnown DEF IndexTyped, IndexStates
  <2>2. IndexServed'
    BY <1>1, <1>4, IndexKnown DEF IndexServed
  <2>3. IndexRelied(c)
    BY <1>1, <1>4, IndexKnown DEF IndexRelied, Indexes!Busy
  <2> QED BY <2>1, <2>2, <2>3
<1>6. CASE a.seen # "answer"
  <2>1. \E x : call' = Indexes!After(c, a, x)
    BY <1>3
  <2> QED BY <1>1, <1>5, <1>6, <2>1, IndexNotAnsweredInv DEF Indexes!At
<1>7. CASE a.seen = "answer" /\ fresh = {}
  <2>1. call' = Indexes!Raise(c, "request")
    BY <1>3, <1>7 DEF Indexes!After
  <2> QED BY <1>1, <1>5, <2>1, IndexRaisedInv DEF Indexes!At
<1>8. CASE a.seen = "answer" /\ fresh # {}
  <2>0. PICK i \in fresh : call' = Indexes!After(c, a, [Indexes!Go(c, "returned") EXCEPT ![c].id = i])
    BY <1>3, <1>8
  <2> DEFINE g == Indexes!Go(c, "returned")
  <2>1. call' = [g EXCEPT ![c].id = i] /\ i \in IndexIds
    BY <1>8, <2>0 DEF Indexes!After
  <2>2. /\ g \in [Callers -> IndexRecords] /\ \A d \in Callers \ {c} : g[d] = call[d]
        /\ g[c].op = call[c].op /\ g[c].pc = "returned"
    BY IndexKnown, IndexGoneOnIs
  <2> HIDE DEF g
  <2>3. g[c] \in IndexRecords
    BY <2>2
  <2> DEFINE q == [g[c] EXCEPT !.id = i]
  <2>4. q \in IndexRecords /\ q.op = g[c].op /\ q.pc = g[c].pc
    BY <2>1, <2>3 DEF IndexRecords
  <2>5. call' = [g EXCEPT ![c] = q]
    BY <2>1, <2>2
  <2> HIDE DEF q
  <2>6. /\ call' \in [Callers -> IndexRecords] /\ \A d \in Callers \ {c} : call'[d] = call[d]
        /\ call'[c].op = "create" /\ call'[c].pc = "returned"
    BY <1>2, <2>2, <2>4, <2>5
  <2>8. IndexCallInv(c)'
    BY <1>1, <1>2, <2>6 DEF IndexCallInv, IndexPlaced, IndexAdds, IndexDeletes, IndexAsks, Indexes!Questions,
       Indexes!Checked, Indexes!At
  <2> QED BY <1>5, <2>6, <2>8, IndexTogether
<1> QED BY <1>6, <1>7, <1>8

LEMMA IndexStarts ==
    ASSUME Indexes!IndexAssumption, Indexes!Init
    PROVE  IndexIInv
<1>1. Indexes!NoCall \in IndexRecords
  BY DEF Indexes!NoCall, IndexRecords
<1>2. IndexTyped
  BY <1>1 DEF Indexes!Init, IndexTyped, IndexStates
<1>3. IndexServed
  BY DEF Indexes!Init, IndexServed
<1>4. ASSUME NEW c \in Callers PROVE IndexCallInv(c)
  BY DEF Indexes!Init, Indexes!NoCall, IndexCallInv, IndexPlaced, IndexAdds, IndexDeletes, IndexAsks,
     Indexes!At, Indexes!Checked
<1> QED BY <1>2, <1>3, <1>4 DEF IndexIInv

LEMMA IndexSteps ==
    ASSUME Indexes!IndexAssumption, IndexIInv, [Indexes!Next]_(Indexes!vars)
    PROVE  IndexIInv'
<1>1. CASE \E i \in IndexIds : Indexes!IngestionBegins(i) \/ Indexes!IngestionEnds(i) \/ Indexes!Others(i)
  BY <1>1, IndexServiceInv
<1>2. CASE \E c \in Callers : Indexes!Begin(c) \/ Indexes!Step(c)
  BY <1>2, IndexBeginInv, IndexRetrieveInv, IndexLocateInv, IndexPutBehindInv, IndexPutStraightInv,
     IndexIngestInv, IndexDeleteInv, IndexAskInv, IndexCreateInv DEF Indexes!Step
<1>3. CASE UNCHANGED Indexes!vars
  BY <1>3 DEF Indexes!vars, Indexes!server, Indexes!history, IndexIInv, IndexTyped, IndexServed, IndexCallInv,
     IndexPlaced, IndexAdds, IndexDeletes, IndexAsks, Indexes!At, Indexes!Busy
<1> QED BY <1>1, <1>2, <1>3 DEF Indexes!Next

LEMMA IndexKept ==
    ASSUME Indexes!IndexAssumption, IndexIInv
    PROVE  Indexes!AddedIsIngested /\ Indexes!OwnIndexDeleted /\ Indexes!OnlyLaterIngestions
<1>1. Indexes!AddedIsIngested
  BY DEF IndexIInv, IndexCallInv, IndexAdds, Indexes!AddedIsIngested
<1>2. Indexes!OnlyLaterIngestions
  BY DEF IndexIInv, IndexCallInv, IndexAsks, Indexes!OnlyLaterIngestions
<1>3. \A i \in IndexIds : Cardinality(deletedBy[i]) <= 1
  <2> SUFFICES ASSUME NEW i \in IndexIds PROVE Cardinality(deletedBy[i]) <= 1
    OBVIOUS
  <2>1. CASE deletedBy[i] = {}
    BY <2>1, FS_EmptySet
  <2>2. CASE \E x : deletedBy[i] = {x}
    <3>1. PICK x : deletedBy[i] = {x}
      BY <2>2
    <3>2. Cardinality({x}) = 1
      BY FS_Singleton
    <3> QED BY <3>1, <3>2
  <2> QED BY <2>1, <2>2 DEF IndexIInv, IndexServed
<1> QED BY <1>1, <1>2, <1>3, IndexCardinality DEF IndexIInv, IndexCallInv, IndexDeletes, Indexes!OwnIndexDeleted

\* A call leaves at most one record unless an answer was lost, what hangs on a
\* job has its content, a deletion took what it says it took; a file added to
\* an index is in an ingestion, a deletion takes the index that was looked up,
\* and a question is never put to one that was seen being ingested, for any
\* calls, keys, indexes and attempts (_attachments_service.py upload, delete;
\* _context_grounding_service.py add_to_index, delete_by_name, search).
THEOREM StoresAlwaysKept == Spec => []StoresKept
<1> DEFINE Inv == (service = "attachments" => StoreIInv) /\ (service = "indexes" => IndexIInv)
<1>1. Attachments!StoreAssumption /\ Indexes!IndexAssumption
  BY ServicesAssumption
<1>2. Init => Inv
  BY <1>1, StoreStarts, IndexStarts DEF Init
<1>3. Inv /\ [Next]_vars => Inv'
  BY <1>1, OneService, StoreSteps, IndexSteps
<1>4. Inv => StoresKept
  BY <1>1, StoreKept, IndexKept DEF StoresKept
<1> HIDE DEF Inv
<1> QED BY <1>2, <1>3, <1>4, PTL DEF Spec
-------------------------------------------------------------------------------
(***************************************************************************)
(* OrchestratorWork, for any calls and ids, and any number of triggers.    *)
(*                                                                         *)
(* The argument: what a call had done it finds done ever after (Stands),   *)
(* and nothing is done twice, for a job or a transaction is made where     *)
(* none was, a transaction is completed and a job killed for good, and a   *)
(* trigger is paid once (the job waits only on one that was not).  So what *)
(* two calls had done differs, but for asking a job to stop, which both    *)
(* may (Apart); and a call that is answered knows of what its last attempt *)
(* did.  A step of another call or of Orchestrator respects what that      *)
(* rests on (Relied); and each attempt does what one request asks for at   *)
(* most, so that a call which learnt nothing of its attempts has done less *)
(* than it tried (Counted).                                                *)
(***************************************************************************)
LEMMA WorkCardinality ==
    /\ \A S : Works!Cardinality(S) = Cardinality(S)
    /\ \A S : Works!IsFiniteSet(S) <=> IsFiniteSet(S)
<1>1. \A S : Works!IsFiniteSet(S) <=> IsFiniteSet(S)
  BY DEF Works!IsFiniteSet, IsFiniteSet
<1>2. \A S : Works!Cardinality(S) = Cardinality(S)
  BY DEF Works!Cardinality, Cardinality, Works!IsFiniteSet, IsFiniteSet
<1> QED BY <1>1, <1>2

\* What a call may have had Orchestrator do, and with what.
WorkEffects == {"made", "taken", "completed", "stopped", "asked", "paid"}
WorkRecords ==
    [op : {"none", "invoke", "stop", "restart", "resume", "add", "bulk", "transact", "progress", "complete"},
     pc : {"idle", "upload", "make", "resolve", "stop", "find", "deliver", "transact", "progress", "complete",
           "returned", "raised"},
     on : SUBSET (WorkIds \cup {NoId}), key : SUBSET WorkIds, inbox : Nat, input : {"inline", "file", "refused"},
     strategy : {"SoftStop", "Kill"}, items : Nat \ {0}, whole : BOOLEAN, tries : Nat, blind : BOOLEAN]
WorkStates ==
    {"none", "running", "suspended", "stopping", "ended", "stopped", "new", "in progress", "complete"}
WorkServerTyped ==
    /\ work \in [WorkIds -> WorkStates]
    /\ input \in [WorkIds -> {"inline", "file", "refused"}] /\ trigger \in Nat
    /\ paid \in [DOMAIN paid -> Callers \cup {"others"}] /\ DOMAIN paid \subseteq 1 .. trigger
WorkTyped ==
    WorkServerTyped /\ call \in [Callers -> WorkRecords]
                       /\ did \in [Callers -> SUBSET (WorkEffects \X SUBSET (WorkIds \cup Nat))]

\* The given job; while it waits, nobody has paid its trigger.
WorkJobInv ==
    /\ work[GivenJob] \in {"running", "suspended", "stopping", "ended", "stopped"}
    /\ work[GivenJob] = "suspended" => trigger \in Nat \ {0} /\ trigger \notin DOMAIN paid

\* What c had done stays done.
WorkStands(c, what, x) ==
    /\ what \in {"made", "taken", "completed"} => \A i \in x : i \in WorkIds /\ work[i] # "none"
    /\ what = "taken" => \A i \in x : work[i] \in {"in progress", "complete"}
    /\ what = "completed" => \A i \in x : work[i] = "complete"
    /\ what = "stopped" => x = {GivenJob} /\ work[GivenJob] = "stopped"
    /\ what = "paid" => \A n \in x : n \in DOMAIN paid /\ paid[n] = c

\* Two things done are of different calls only if they are not the same.
WorkApart(s, e) == e[1] = s[1] /\ s[1] # "asked" => e[2] \cap s[2] = {}

\* Where call c may be, by what it is.
WorkPlaced(c) ==
    /\ Works!At(c, "make") => call[c].op \in {"invoke", "restart", "add", "bulk"}
    /\ Works!At(c, "resolve") => call[c].op \in {"stop", "restart"}
    /\ Works!At(c, "stop") => call[c].op = "stop"
    /\ call[c].pc \in {"find", "deliver"} => call[c].op = "resume"
    /\ call[c].pc \in {"upload", "transact", "progress", "complete"} =>
          call[c].op = IF Works!At(c, "upload") THEN "invoke" ELSE call[c].pc
    /\ call[c].pc \notin {"returned"} => call[c].key = {}
    /\ call[c].op = "complete" => \E t \in WorkIds : call[c].on = {t}
    /\ call[c].op \in {"stop", "restart"} /\ NoId \in call[c].on => call[c].pc \in {"resolve", "raised"}
       /\ did[c] = {}

\* A call has done no more than it tried to.
WorkCounted(c) ==
    /\ IsFiniteSet(did[c])
    /\ call[c].pc \in {"idle", "upload", "resolve", "find", "progress"} => did[c] = {}
    /\ call[c].pc \in {"make", "stop", "deliver", "transact", "complete"} =>
          Cardinality(did[c]) < call[c].tries /\ call[c].tries <= MaxRetryAttempts
    /\ ~call[c].blind /\ ~Works!At(c, "returned") => did[c] = {}
    /\ Cardinality(did[c]) <= IF call[c].blind THEN MaxRetryAttempts ELSE 1
    /\ \A s \in did[c] : Cardinality(s[2]) <= call[c].items

\* A call that returns has what it returns.
WorkReturns(c) ==
    Works!At(c, "returned") =>
       /\ call[c].key # {} => \E what \in {"made", "taken"} : <<what, call[c].key>> \in did[c]
       /\ call[c].op = "resume" => call[c].inbox \in DOMAIN paid /\ paid[call[c].inbox] = c
       /\ call[c].op = "stop" =>
             \/ work[GivenJob] \in {"stopped", "ended"}
             \/ call[c].strategy = "SoftStop" /\ <<"asked", {GivenJob}>> \in did[c]
       /\ call[c].op = "complete" => \A t \in call[c].on : work[t] = "complete" /\ <<"completed", {t}>> \in did[c]

\* What c paid, it paid on the inbox it had.
WorkPays(c) ==
    \A n \in DOMAIN paid : paid[n] = c => call[c].pc \in {"deliver", "returned", "raised"} /\ n = call[c].inbox

WorkCallInv(c) ==
    /\ \A s \in did[c] : WorkStands(c, s[1], s[2])
    /\ \A d \in Callers \ {c} : \A s \in did[c], e \in did[d] : WorkApart(s, e)
    /\ WorkPlaced(c) /\ WorkCounted(c) /\ WorkReturns(c) /\ WorkPays(c)
WorkIInv == WorkTyped /\ WorkJobInv /\ \A c \in Callers : WorkCallInv(c)

WorkEffective == {"make", "stop", "deliver", "transact", "complete"}

\* What a call relies on while another takes a step.
WorkRelied ==
    /\ \A i \in WorkIds :
          /\ work[i] # "none" => work'[i] # "none"
          /\ work[i] \in {"in progress", "complete"} => work'[i] \in {"in progress", "complete"}
          /\ work[i] = "complete" => work'[i] = "complete"
    /\ work[GivenJob] \in {"stopped", "ended"} => work'[GivenJob] = work[GivenJob]
    /\ \A n \in DOMAIN paid : n \in DOMAIN paid' /\ paid'[n] = paid[n]

-------------------------------------------------------------------------------
LEMMA WorkStanding ==
    ASSUME WorkRelied, NEW c, NEW what, NEW x, WorkStands(c, what, x)
    PROVE  WorkStands(c, what, x)'
  BY DEF WorkRelied, WorkStands

LEMMA WorkOthersInv ==
    ASSUME Works!WorkAssumption, WorkRelied, NEW c \in Callers, WorkCallInv(c), call'[c] = call[c],
           did'[c] = did[c], WorkTyped,
           \A n \in DOMAIN paid' : paid'[n] = c => n \in DOMAIN paid,
           \A d \in Callers \ {c} : \A s \in did'[c], e \in did'[d] : WorkApart(s, e)
    PROVE  WorkCallInv(c)'
<1>1. \A s \in did'[c] : WorkStands(c, s[1], s[2])'
  <2> SUFFICES ASSUME NEW s \in did[c] PROVE WorkStands(c, s[1], s[2])'
    OBVIOUS
  <2>1. WorkStands(c, s[1], s[2])
    BY DEF WorkCallInv
  <2> QED BY <2>1, WorkStanding
<1>2. WorkPlaced(c)' /\ WorkCounted(c)'
  BY DEF WorkCallInv, WorkPlaced, WorkCounted, Works!At
<1>3. WorkReturns(c)'
  <2> SUFFICES ASSUME Works!At(c, "returned") PROVE WorkReturns(c)'
    BY DEF WorkReturns, Works!At
  <2>1. call[c].op = "resume" => call[c].inbox \in DOMAIN paid' /\ paid'[call[c].inbox] = c
    BY DEF WorkCallInv, WorkReturns, WorkRelied
  <2>2. call[c].op = "stop" =>
           \/ work'[GivenJob] \in {"stopped", "ended"}
           \/ call[c].strategy = "SoftStop" /\ <<"asked", {GivenJob}>> \in did'[c]
    BY DEF WorkCallInv, WorkReturns, WorkRelied
  <2>3. call[c].op = "complete" => \A t \in call[c].on : work'[t] = "complete" /\ <<"completed", {t}>> \in did'[c]
    BY DEF WorkCallInv, WorkReturns, WorkPlaced, WorkRelied
  <2>4. call[c].key # {} => \E what \in {"made", "taken"} : <<what, call[c].key>> \in did'[c]
    BY DEF WorkCallInv, WorkReturns
  <2> QED BY <2>1, <2>2, <2>3, <2>4 DEF WorkReturns
<1>4. WorkPays(c)'
  BY DEF WorkCallInv, WorkPays, WorkRelied
<1>5. \A d \in Callers \ {c} : \A s \in did'[c], e \in did'[d] : WorkApart(s, e)'
  BY DEF WorkApart
<1> QED BY <1>1, <1>2, <1>3, <1>4, <1>5 DEF WorkCallInv

\* What others do to the job.
LEMMA WorkOutside ==
    ASSUME Works!WorkAssumption, WorkIInv, WorkRelied, call' = call, did' = did, WorkTyped', WorkJobInv',
           \A n \in DOMAIN paid' : n \in DOMAIN paid \/ paid'[n] = "others"
    PROVE  WorkIInv'
<1>1. ASSUME NEW c \in Callers PROVE WorkCallInv(c)'
  <2>1. WorkCallInv(c) /\ WorkTyped
    BY DEF WorkIInv
  <2>2. \A n \in DOMAIN paid' : paid'[n] = c => n \in DOMAIN paid
    BY DEF Works!WorkAssumption
  <2>3. \A d \in Callers \ {c} : \A s \in did'[c], e \in did'[d] : WorkApart(s, e)
    BY <2>1 DEF WorkCallInv
  <2> QED BY <2>1, <2>2, <2>3, WorkOthersInv
<1> QED BY <1>1 DEF WorkIInv

\* A step of c leaves the others what they rely on.
LEMMA WorkTogether ==
    ASSUME Works!WorkAssumption, WorkIInv, WorkRelied, WorkTyped', WorkJobInv', NEW c \in Callers,
           \A d \in Callers \ {c} : call'[d] = call[d] /\ did'[d] = did[d],
           \A n \in DOMAIN paid' : n \in DOMAIN paid \/ paid'[n] = c,
           \A s \in did'[c] :
              s \in did[c] \/ (WorkStands(c, s[1], s[2])' /\ \A d \in Callers : \A e \in did[d] : WorkApart(s, e)),
           WorkPlaced(c)', WorkCounted(c)', WorkReturns(c)', WorkPays(c)'
    PROVE  WorkIInv'
<1>1. \A d \in Callers : WorkCallInv(d)
  BY DEF WorkIInv
<1>2. \A d \in Callers \ {c} : \A s \in did'[c], e \in did[d] : WorkApart(s, e)
  BY <1>1 DEF WorkCallInv
<1>3. \A s \in did'[c] : WorkStands(c, s[1], s[2])'
  <2> SUFFICES ASSUME NEW s \in did'[c], s \in did[c] PROVE WorkStands(c, s[1], s[2])'
    OBVIOUS
  <2>1. WorkStands(c, s[1], s[2])
    BY <1>1 DEF WorkCallInv
  <2> QED BY <2>1, WorkStanding
<1>4. WorkCallInv(c)'
  <2>1. \A d \in Callers \ {c} : \A s \in did'[c], e \in did'[d] : WorkApart(s, e)'
    BY <1>2 DEF WorkApart
  <2> QED BY <1>3, <2>1 DEF WorkCallInv
<1>5. ASSUME NEW d \in Callers \ {c} PROVE WorkCallInv(d)'
  <2>1. call'[d] = call[d] /\ did'[d] = did[d] /\ WorkCallInv(d) /\ WorkTyped
    BY <1>1 DEF WorkIInv
  <2>2. \A n \in DOMAIN paid' : paid'[n] = d => n \in DOMAIN paid
    OBVIOUS
  <2>3. \A e \in Callers \ {d} : \A s \in did'[d], o \in did'[e] : WorkApart(s, o)
    <3> SUFFICES ASSUME NEW e \in Callers \ {d}, NEW s \in did[d], NEW o \in did'[e] PROVE WorkApart(s, o)
      BY <2>1
    <3>1. CASE e = c
      BY <1>2, <3>1 DEF WorkApart
    <3>2. CASE e # c
      BY <1>1, <3>2 DEF WorkCallInv
    <3> QED BY <3>1, <3>2
  <2> QED BY <2>1, <2>2, <2>3, WorkOthersInv
<1> QED BY <1>4, <1>5 DEF WorkIInv

\* A step of c that only it takes note of.
LEMMA WorkQuiet ==
    ASSUME Works!WorkAssumption, WorkIInv, NEW c \in Callers, UNCHANGED <<Works!server, did>>,
           NEW z \in WorkRecords,
           Works!Becomes(c, z), call[c].pc \notin {"deliver", "returned", "raised"},
           did[c] = {}, WorkPlaced(c)', WorkReturns(c)', z.pc \in WorkEffective => z.tries = 1
    PROVE  WorkIInv'
<1>1. /\ work' = work /\ input' = input /\ trigger' = trigger /\ paid' = paid /\ did' = did
      /\ call'[c] = z /\ (\A d \in Callers \ {c} : call'[d] = call[d]) /\ WorkTyped /\ WorkJobInv
         /\ WorkCallInv(c)
  BY DEF Works!server, WorkIInv, WorkTyped, Works!Becomes
<1>2. WorkTyped'
  BY <1>1 DEF WorkTyped, WorkServerTyped, Works!Becomes
<1>3. WorkJobInv' /\ WorkRelied
  BY <1>1 DEF WorkJobInv, WorkRelied
<1>4. WorkCounted(c)'
  <2>1. IsFiniteSet({}) /\ Cardinality({}) = 0 /\ MaxRetryAttempts \in Nat \ {0}
    BY FS_EmptySet, RequestAssumption
  <2> QED BY <1>1, <2>1 DEF WorkCounted, Works!At, WorkEffective
<1>5. WorkPays(c)'
  BY <1>1 DEF WorkCallInv, WorkPays
<1> QED BY <1>1, <1>2, <1>3, <1>4, <1>5, WorkTogether

\* What an attempt makes of a call.
LEMMA WorkAttempted ==
    ASSUME NEW q \in WorkRecords, NEW a \in Works!Attempts, NEW r \in WorkRecords, NEW z, z = Works!Tried(q, a, r)
    PROVE  /\ z \in WorkRecords
           /\ \/ a.seen = "answer" /\ a.applied /\ z = r
              \/ /\ a.seen # "answer" /\ z.op = q.op /\ z.on = q.on /\ z.key = q.key /\ z.inbox = q.inbox
                 /\ z.strategy = q.strategy /\ z.items = q.items /\ (z.blind <=> q.blind \/ a.applied)
                 /\ \/ z.pc = q.pc /\ q.tries < MaxRetryAttempts /\ z.tries = q.tries + 1
                    \/ z.pc = "raised"
<1>1. a.applied \in BOOLEAN /\ (a.seen = "answer" => a.applied)
  BY DEF Works!Attempts
<1>2. CASE a.seen = "answer"
  BY <1>1, <1>2 DEF Works!Tried
<1>3. CASE a.seen # "answer"
  <2> DEFINE b == q.blind \/ Works!Unanswered(a)
             n == IF Works!Retries(a, q.tries) THEN q.tries + 1 ELSE q.tries
             p == IF Works!Retries(a, q.tries) THEN q.pc ELSE "raised"
  <2>1. z = [q EXCEPT !.pc = p, !.tries = n, !.blind = b]
    BY <1>3 DEF Works!Tried
  <2>2. (b <=> q.blind \/ a.applied) /\ b \in BOOLEAN
    BY <1>3 DEF Works!Unanswered
  <2>3. q.tries \in Nat
    BY DEF WorkRecords
  <2>4. n \in Nat
    BY <2>3
  <2>5. (p = q.pc /\ q.tries < MaxRetryAttempts /\ n = q.tries + 1) \/ p = "raised"
    BY DEF Works!Retries
  <2>6. p \in {"idle", "upload", "make", "resolve", "stop", "find", "deliver", "transact", "progress", "complete",
               "returned", "raised"}
    BY DEF WorkRecords
  <2> HIDE DEF b, n, p
  <2>7. z \in WorkRecords
    BY <2>1, <2>2, <2>4, <2>6 DEF WorkRecords
  <2>8. /\ z.op = q.op /\ z.on = q.on /\ z.key = q.key /\ z.inbox = q.inbox /\ z.strategy = q.strategy
        /\ z.items = q.items
        /\ z.pc = p /\ z.tries = n /\ z.blind = b
    BY <2>1 DEF WorkRecords
  <2> QED BY <1>3, <2>2, <2>5, <2>7, <2>8
<1> QED BY <1>2, <1>3

\* One more thing done at most, for one more attempt.
LEMMA OnceMore ==
    ASSUME NEW A, IsFiniteSet(A), NEW s, NEW B, B = A \/ B = A \cup {s}
    PROVE  /\ IsFiniteSet(B) /\ Cardinality(A) \in Nat
           /\ Cardinality(B) \in Nat /\ Cardinality(B) <= Cardinality(A) + 1
<1>1. Cardinality(A) \in Nat
  BY FS_CardinalityType
<1>2. IsFiniteSet(A \cup {s}) /\ Cardinality(A \cup {s}) = IF s \in A THEN Cardinality(A) ELSE Cardinality(A) + 1
  BY FS_AddElement
<1>3. CASE B = A
  BY <1>1, <1>3
<1>4. CASE B = A \cup {s}
  <2>1. IsFiniteSet(B)
    BY <1>2, <1>4
  <2>2. Cardinality(B) = IF s \in A THEN Cardinality(A) ELSE Cardinality(A) + 1
    BY <1>2, <1>4
  <2> QED BY <1>1, <2>1, <2>2
<1> QED BY <1>3, <1>4

\* A call is answered, and then it knows of what was done; or it is tried again
\* or gives up, and if something was done it does not know.
LEMMA WorkEffect ==
    ASSUME Works!WorkAssumption, WorkIInv, NEW c \in Callers, call[c].pc \in WorkEffective,
           NEW a \in Works!Attempts, NEW r \in WorkRecords, r.pc = "returned", r.op = call[c].op, r.on = call[c].on,
           r.inbox = call[c].inbox, r.blind = call[c].blind, r.items = call[c].items,
           Works!Becomes(c, Works!Tried(call[c], a, r)),
           NEW what \in WorkEffects, NEW x \in SUBSET (WorkIds \cup Nat),
           \/ /\ a.applied /\ Works!Does(c, what, x) /\ Cardinality(x) <= call[c].items
              /\ WorkStands(c, what, x)' /\ \A d \in Callers : \A e \in did[d] : WorkApart(<<what, x>>, e)
           \/ did' = did,
           WorkServerTyped',
           \A n \in DOMAIN paid' :
              n \in DOMAIN paid \/ (paid'[n] = c /\ n = call[c].inbox /\ call[c].pc = "deliver"),
           WorkRelied, WorkJobInv', a.applied /\ call'[c] = r => WorkReturns(c)'
    PROVE  WorkIInv'
<1> DEFINE q == call[c]
           z == call'[c]
<1>1. q \in WorkRecords /\ z = Works!Tried(q, a, r) /\ WorkCallInv(c) /\ WorkTyped
  BY DEF WorkIInv, WorkTyped, Works!Becomes
<1>2. /\ z \in WorkRecords
      /\ \/ a.seen = "answer" /\ a.applied /\ z = r
         \/ /\ a.seen # "answer" /\ z.op = q.op /\ z.on = q.on /\ z.key = q.key /\ z.inbox = q.inbox
            /\ z.items = q.items /\ (z.blind <=> q.blind \/ a.applied)
            /\ \/ z.pc = q.pc /\ q.tries < MaxRetryAttempts /\ z.tries = q.tries + 1
               \/ z.pc = "raised"
  BY <1>1, WorkAttempted
<1>3. /\ \A d \in Callers \ {c} : call'[d] = call[d] /\ did'[d] = did[d]
      /\ did'[c] = did[c] \/ (a.applied /\ did'[c] = did[c] \cup {<<what, x>>})
      /\ did' \in [Callers -> SUBSET (WorkEffects \X SUBSET (WorkIds \cup Nat))]
  <2>1. \A d \in Callers \ {c} : call'[d] = call[d]
    BY <1>1 DEF WorkTyped, Works!Becomes
  <2>2. CASE did' = did
    BY <1>1, <2>1, <2>2 DEF WorkTyped
  <2>3. CASE Works!Does(c, what, x) /\ a.applied
    BY <1>1, <2>1, <2>3 DEF WorkTyped, Works!Does
  <2> QED BY <2>2, <2>3
<1>10. \A s \in did'[c] :
          s \in did[c] \/ (WorkStands(c, s[1], s[2])' /\ \A d \in Callers : \A e \in did[d] : WorkApart(s, e))
  <2> SUFFICES ASSUME NEW s \in did'[c], s \notin did[c]
               PROVE  WorkStands(c, s[1], s[2])' /\ \A d \in Callers : \A e \in did[d] : WorkApart(s, e)
    OBVIOUS
  <2>1. WorkStands(c, what, x)' /\ (\A d \in Callers : \A e \in did[d] : WorkApart(<<what, x>>, e)) /\ s = <<what, x>>
    BY <1>3, <1>1 DEF Works!Does, WorkTyped
  <2>2. s[1] = what /\ s[2] = x
    BY <2>1
  <2> QED BY <2>1, <2>2
<1>4. WorkTyped'
  <2>2. call' \in [Callers -> WorkRecords]
    <3> HIDE DEF z
    <3> QED BY <1>1, <1>2 DEF WorkTyped, Works!Becomes, z
  <2> QED BY <1>3, <2>2 DEF WorkTyped
<1>5. z.pc \in {q.pc, "raised", "returned"} /\ z.op = q.op /\ z.on = q.on /\ z.inbox = q.inbox
        /\ z.items = q.items
  BY <1>2
<1>6. WorkPlaced(c)'
  <2>1. WorkPlaced(c) /\ q.pc # "returned"
    BY <1>1 DEF WorkCallInv, WorkEffective
  <2>2. q.op \in {"stop", "restart"} => NoId \notin q.on
    BY <2>1 DEF WorkPlaced, WorkEffective
  <2>3. z.pc # "returned" => z.key = q.key
    BY <1>2, <2>1
  <2>4. z.pc = "returned" => z = r
    BY <1>2, <2>1
  <2> HIDE DEF z, q
  <2> QED BY <1>5, <2>1, <2>2, <2>3, <2>4 DEF WorkPlaced, Works!At, WorkEffective, z, q
<1>7. WorkCounted(c)'
  <2>1. /\ WorkCounted(c) /\ IsFiniteSet(did[c]) /\ Cardinality(did[c]) < q.tries /\ q.tries <= MaxRetryAttempts
        /\ (~q.blind => did[c] = {}) /\ q.tries \in Nat /\ MaxRetryAttempts \in Nat \ {0}
    BY <1>1, RequestAssumption DEF WorkCallInv, WorkCounted, WorkEffective, Works!At, WorkRecords
  <2>2. /\ IsFiniteSet(did'[c]) /\ Cardinality(did[c]) \in Nat
        /\ Cardinality(did'[c]) \in Nat /\ Cardinality(did'[c]) <= Cardinality(did[c]) + 1
    BY <1>3, <2>1, OnceMore
  <2>3. did[c] = {} => Cardinality(did[c]) = 0
    BY FS_EmptySet
  <2>4. z.pc \in WorkEffective => Cardinality(did'[c]) < z.tries /\ z.tries <= MaxRetryAttempts
    <3>1. z.pc \in WorkEffective => q.tries < MaxRetryAttempts /\ z.tries = q.tries + 1
      BY <1>2 DEF WorkEffective
    <3> DEFINE n == Cardinality(did[c])
               m == Cardinality(did'[c])
               k == q.tries
    <3>2. n \in Nat /\ m \in Nat /\ m <= n + 1 /\ n < k /\ k <= MaxRetryAttempts /\ k \in Nat
      BY <2>1, <2>2
    <3> HIDE DEF z, n, m, k
    <3>3. k < MaxRetryAttempts => m < k + 1 /\ k + 1 <= MaxRetryAttempts
      BY <2>1, <3>2
    <3> QED BY <3>1, <3>3 DEF m, k
  <2>5. ~z.blind /\ z.pc # "returned" => did'[c] = {}
    BY <1>2, <1>3, <2>1
  <2>6. Cardinality(did'[c]) <= IF z.blind THEN MaxRetryAttempts ELSE 1
    <3>1. z.blind \/ ~q.blind
      BY <1>2
    <3> DEFINE n == Cardinality(did[c])
               m == Cardinality(did'[c])
               k == q.tries
    <3>2. n \in Nat /\ m \in Nat /\ m <= n + 1 /\ n < k /\ k <= MaxRetryAttempts /\ k \in Nat
                       /\ (~q.blind => n = 0)
      BY <2>1, <2>2, <2>3
    <3> HIDE DEF z, n, m, k, q
    <3>3. m <= MaxRetryAttempts /\ (~q.blind => m <= 1)
      BY <2>1, <3>2
    <3> QED BY <3>1, <3>3 DEF m
  <2>7. z.pc \in WorkEffective \cup {"raised", "returned"}
    BY <1>5
  <2>8. \A s \in did'[c] : Cardinality(s[2]) <= z.items
    <3>1. \A s \in did[c] : Cardinality(s[2]) <= q.items
      BY <2>1 DEF WorkCounted
    <3> SUFFICES ASSUME NEW s \in did'[c], s \notin did[c] PROVE Cardinality(s[2]) <= z.items
      BY <1>5, <3>1
    <3>2. Cardinality(x) <= q.items /\ s = <<what, x>>
      BY <1>1, <1>3 DEF Works!Does, WorkTyped
    <3>3. s[2] = x
      BY <3>2
    <3> QED BY <1>5, <3>2, <3>3
  <2> HIDE DEF z, q
  <2> QED BY <2>2, <2>4, <2>5, <2>6, <2>7, <2>8 DEF WorkCounted, Works!At, WorkEffective, z
<1>8. WorkReturns(c)'
  BY <1>2 DEF WorkReturns, Works!At, WorkEffective
<1>9. WorkPays(c)'
  <2>1. WorkPays(c)
    BY <1>1 DEF WorkCallInv
  <2> SUFFICES ASSUME NEW n \in DOMAIN paid', paid'[n] = c
               PROVE  z.pc \in {"deliver", "returned", "raised"} /\ n = z.inbox
    BY DEF WorkPays
  <2>2. q.pc = "deliver" /\ n = q.inbox
    BY <2>1 DEF WorkPays, WorkRelied, WorkEffective
  <2> QED BY <1>5, <2>2
<1> QED BY <1>3, <1>4, <1>6, <1>7, <1>8, <1>9, <1>10, WorkTogether

-------------------------------------------------------------------------------
\* The steps of Orchestrator and of the calls.
LEMMA WorkSuspendInv ==
    ASSUME Works!WorkAssumption, WorkIInv, Works!Suspend
    PROVE  WorkIInv'
<1>1. /\ WorkTyped /\ WorkJobInv /\ call' = call /\ did' = did /\ paid' = paid /\ input' = input
      /\ work[GivenJob] \in {"running", "stopping"}
      /\ work' = [work EXCEPT ![GivenJob] = "suspended"] /\ trigger' = trigger + 1
  BY DEF Works!Suspend, WorkIInv
<1>2. DOMAIN paid \subseteq 1 .. trigger' /\ trigger' \in Nat \ {0} /\ trigger' \notin 1 .. trigger
  <2>1. trigger \in Nat /\ DOMAIN paid \subseteq 1 .. trigger /\ trigger' = trigger + 1
    BY <1>1 DEF WorkTyped, WorkServerTyped, WorkStates
  <2>2. 1 .. trigger \subseteq 1 .. (trigger + 1) /\ trigger + 1 \in Nat \ {0}
          /\ trigger + 1 \notin 1 .. trigger
    BY <2>1
  <2> QED BY <2>1, <2>2
<1>3. WorkTyped'
  BY <1>1, <1>2 DEF WorkTyped, WorkServerTyped, WorkStates
<1>4. WorkJobInv' /\ WorkRelied
  BY <1>1, <1>2 DEF WorkTyped, WorkServerTyped, WorkStates, WorkJobInv, WorkRelied, Works!WorkAssumption
<1> QED BY <1>1, <1>3, <1>4, WorkOutside

LEMMA WorkPaidInv ==
    ASSUME Works!WorkAssumption, WorkIInv, Works!PaidByOthers
    PROVE  WorkIInv'
<1>1. /\ WorkTyped /\ WorkJobInv /\ call' = call /\ did' = did
         /\ paid' = Works!With(paid, trigger, "others") /\ input' = input
      /\ work[GivenJob] = "suspended" /\ work' = [work EXCEPT ![GivenJob] = "running"] /\ trigger' = trigger
  BY DEF Works!PaidByOthers, WorkIInv
<1>2. /\ DOMAIN paid' = DOMAIN paid \cup {trigger} /\ paid'[trigger] = "others"
      /\ \A n \in DOMAIN paid : paid'[n] = paid[n]
      /\ paid' \in [DOMAIN paid' -> Callers \cup {"others"}]
  BY <1>1 DEF Works!With, WorkJobInv, WorkTyped, WorkServerTyped
<1>3. trigger \in 1 .. trigger
  BY <1>1 DEF WorkJobInv
<1>4. WorkTyped'
  BY <1>1, <1>2, <1>3 DEF WorkTyped, WorkServerTyped, WorkStates
<1>5. WorkJobInv' /\ WorkRelied
  BY <1>1, <1>2 DEF WorkTyped, WorkServerTyped, WorkStates, WorkJobInv, WorkRelied, Works!WorkAssumption
<1> QED BY <1>1, <1>2, <1>4, <1>5, WorkOutside

LEMMA WorkFinishInv ==
    ASSUME Works!WorkAssumption, WorkIInv, Works!Finish
    PROVE  WorkIInv'
<1>1. /\ WorkTyped /\ WorkJobInv /\ call' = call /\ did' = did /\ paid' = paid /\ input' = input
         /\ trigger' = trigger
      /\ work[GivenJob] \in {"running", "stopping"} /\ work' = [work EXCEPT ![GivenJob] = "ended"]
  BY DEF Works!Finish, WorkIInv
<1>2. WorkTyped'
  BY <1>1 DEF WorkTyped, WorkServerTyped, WorkStates
<1>3. WorkJobInv' /\ WorkRelied
  BY <1>1 DEF WorkTyped, WorkServerTyped, WorkStates, WorkJobInv, WorkRelied, Works!WorkAssumption
<1> QED BY <1>1, <1>2, <1>3, WorkOutside

\* How a call begins.
LEMMA WorkBeginsAs ==
    ASSUME Works!WorkAssumption, WorkIInv, NEW c \in Callers, Works!Begin(c)
    PROVE  \E z \in WorkRecords :
              /\ Works!Becomes(c, z) /\ z.tries = 1 /\ z.key = {}
              /\ \/ z.op = "invoke" /\ z.pc \in {"make", "upload"}
                 \/ z.op \in {"stop", "restart"} /\ z.pc = "resolve"
                 \/ z.op = "resume" /\ z.pc \in {"find", "deliver"}
                 \/ z.op \in {"add", "bulk"} /\ z.pc = "make"
                 \/ z.op = "transact" /\ z.pc = "transact"
                 \/ z.op \in {"progress", "complete"} /\ z.pc = z.op /\ \E t \in WorkIds : z.on = {t}
<1> DEFINE Goal(z) ==
              /\ Works!Becomes(c, z) /\ z.tries = 1 /\ z.key = {}
              /\ \/ z.op = "invoke" /\ z.pc \in {"make", "upload"}
                 \/ z.op \in {"stop", "restart"} /\ z.pc = "resolve"
                 \/ z.op = "resume" /\ z.pc \in {"find", "deliver"}
                 \/ z.op \in {"add", "bulk"} /\ z.pc = "make"
                 \/ z.op = "transact" /\ z.pc = "transact"
                 \/ z.op \in {"progress", "complete"} /\ z.pc = z.op /\ \E t \in WorkIds : z.on = {t}
<1>1. Works!NoCall \in WorkRecords /\ Works!NoCall.tries = 1 /\ Works!NoCall.key = {}
  BY DEF Works!NoCall, WorkRecords
<1>2. ASSUME Works!BeginInvoke(c) PROVE \E z \in WorkRecords : Goal(z)
  <2>1. PICK pc \in {"make", "upload"} : Works!Becomes(c, [Works!NoCall EXCEPT !.op = "invoke", !.pc = pc])
    BY <1>2 DEF Works!BeginInvoke
  <2> DEFINE z == [Works!NoCall EXCEPT !.op = "invoke", !.pc = pc]
  <2>2. z \in WorkRecords /\ z.tries = 1 /\ z.key = {} /\ z.op = "invoke" /\ z.pc = pc
    BY <1>1 DEF WorkRecords
  <2> HIDE DEF z
  <2> QED BY <2>1, <2>2 DEF z
<1>3. ASSUME Works!BeginStop(c) PROVE \E z \in WorkRecords : Goal(z)
  <2>1. PICK on \in SUBSET {GivenJob, NoId} :
           \/ \E strategy \in {"SoftStop", "Kill"} :
                 Works!Becomes(c, [Works!NoCall EXCEPT !.op = "stop", !.pc = "resolve", !.on = on,
                                                       !.strategy = strategy])
           \/ Works!Becomes(c, [Works!NoCall EXCEPT !.op = "restart", !.pc = "resolve", !.on = on])
    BY <1>3 DEF Works!BeginStop
  <2>2. on \in SUBSET (WorkIds \cup {NoId})
    BY DEF Works!WorkAssumption
  <2>3. ASSUME NEW strategy \in {"SoftStop", "Kill"},
               Works!Becomes(c, [Works!NoCall EXCEPT !.op = "stop", !.pc = "resolve", !.on = on,
                                                     !.strategy = strategy])
        PROVE  \E z \in WorkRecords : Goal(z)
    <3> DEFINE z == [Works!NoCall EXCEPT !.op = "stop", !.pc = "resolve", !.on = on, !.strategy = strategy]
    <3>1. z \in WorkRecords /\ z.tries = 1 /\ z.key = {} /\ z.op = "stop" /\ z.pc = "resolve"
      BY <1>1, <2>2 DEF WorkRecords
    <3> HIDE DEF z
    <3> QED BY <2>3, <3>1 DEF z
  <2>4. CASE Works!Becomes(c, [Works!NoCall EXCEPT !.op = "restart", !.pc = "resolve", !.on = on])
    <3> DEFINE z == [Works!NoCall EXCEPT !.op = "restart", !.pc = "resolve", !.on = on]
    <3>1. z \in WorkRecords /\ z.tries = 1 /\ z.key = {} /\ z.op = "restart" /\ z.pc = "resolve"
      BY <1>1, <2>2 DEF WorkRecords
    <3> HIDE DEF z
    <3> QED BY <2>4, <3>1 DEF z
  <2> QED BY <2>1, <2>3, <2>4
<1>4. ASSUME Works!BeginResume(c) PROVE \E z \in WorkRecords : Goal(z)
  <2>1. CASE Works!Becomes(c, [Works!NoCall EXCEPT !.op = "resume", !.pc = "find"])
    <3> DEFINE z == [Works!NoCall EXCEPT !.op = "resume", !.pc = "find"]
    <3>1. z \in WorkRecords /\ z.tries = 1 /\ z.key = {} /\ z.op = "resume" /\ z.pc = "find"
      BY <1>1 DEF WorkRecords
    <3> HIDE DEF z
    <3> QED BY <2>1, <3>1 DEF z
  <2>2. ASSUME NEW n \in 1 .. trigger,
               Works!Becomes(c, [Works!NoCall EXCEPT !.op = "resume", !.pc = "deliver", !.inbox = n])
        PROVE  \E z \in WorkRecords : Goal(z)
    <3> DEFINE z == [Works!NoCall EXCEPT !.op = "resume", !.pc = "deliver", !.inbox = n]
    <3>1. n \in Nat
      <4>1. trigger \in Nat
        BY DEF WorkIInv, WorkTyped, WorkServerTyped
      <4> QED BY <4>1
    <3>2. z \in WorkRecords /\ z.tries = 1 /\ z.key = {} /\ z.op = "resume" /\ z.pc = "deliver"
      BY <1>1, <3>1 DEF WorkRecords
    <3> HIDE DEF z
    <3> QED BY <2>2, <3>2 DEF z
  <2> QED BY <1>4, <2>1, <2>2 DEF Works!BeginResume
<1>5. ASSUME Works!BeginQueue(c) PROVE \E z \in WorkRecords : Goal(z)
  <2>1. CASE \E op \in {"add", "transact"} :
           Works!Becomes(c, [Works!NoCall EXCEPT !.op = op, !.pc = IF op = "add" THEN "make" ELSE "transact"])
    <3>1. PICK op \in {"add", "transact"} :
             Works!Becomes(c, [Works!NoCall EXCEPT !.op = op, !.pc = IF op = "add" THEN "make" ELSE "transact"])
      BY <2>1
    <3> DEFINE z == [Works!NoCall EXCEPT !.op = op, !.pc = IF op = "add" THEN "make" ELSE "transact"]
    <3>2. z \in WorkRecords /\ z.tries = 1 /\ z.key = {} /\ z.op = op
                               /\ z.pc = IF op = "add" THEN "make" ELSE "transact"
      BY <1>1 DEF WorkRecords
    <3> HIDE DEF z
    <3> QED BY <3>1, <3>2 DEF z
  <2>2. ASSUME NEW n \in 1 .. MaxItems, NEW whole \in BOOLEAN,
               Works!Becomes(c, [Works!NoCall EXCEPT !.op = "bulk", !.pc = "make", !.items = n, !.whole = whole])
        PROVE  \E z \in WorkRecords : Goal(z)
    <3> DEFINE z == [Works!NoCall EXCEPT !.op = "bulk", !.pc = "make", !.items = n, !.whole = whole]
    <3>1. n \in Nat \ {0}
      BY DEF Works!WorkAssumption
    <3>2. z \in WorkRecords /\ z.tries = 1 /\ z.key = {} /\ z.op = "bulk" /\ z.pc = "make"
      BY <1>1, <3>1 DEF WorkRecords
    <3> HIDE DEF z
    <3> QED BY <2>2, <3>2 DEF z
  <2> QED BY <1>5, <2>1, <2>2 DEF Works!BeginQueue
<1>6. ASSUME Works!BeginTransaction(c) PROVE \E z \in WorkRecords : Goal(z)
  <2>1. PICK t \in Works!Transactions, op \in {"progress", "complete"} :
           Works!Becomes(c, [Works!NoCall EXCEPT !.op = op, !.pc = op, !.on = {t}])
    BY <1>6 DEF Works!BeginTransaction
  <2>2. t \in WorkIds
    BY DEF Works!Transactions, WorkIInv, WorkTyped, WorkRecords
  <2> DEFINE z == [Works!NoCall EXCEPT !.op = op, !.pc = op, !.on = {t}]
  <2>3. z \in WorkRecords /\ z.tries = 1 /\ z.key = {} /\ z.op = op /\ z.pc = op /\ z.on = {t}
    BY <1>1, <2>2 DEF WorkRecords
  <2> HIDE DEF z
  <2> QED BY <2>1, <2>2, <2>3 DEF z
<1> QED BY <1>2, <1>3, <1>4, <1>5, <1>6 DEF Works!Begin

LEMMA WorkBeginInv ==
    ASSUME Works!WorkAssumption, WorkIInv, NEW c \in Callers, Works!Begin(c)
    PROVE  WorkIInv'
<1>1. PICK z \in WorkRecords :
              /\ Works!Becomes(c, z) /\ z.tries = 1 /\ z.key = {}
              /\ \/ z.op = "invoke" /\ z.pc \in {"make", "upload"}
                 \/ z.op \in {"stop", "restart"} /\ z.pc = "resolve"
                 \/ z.op = "resume" /\ z.pc \in {"find", "deliver"}
                 \/ z.op \in {"add", "bulk"} /\ z.pc = "make"
                 \/ z.op = "transact" /\ z.pc = "transact"
                 \/ z.op \in {"progress", "complete"} /\ z.pc = z.op /\ \E t \in WorkIds : z.on = {t}
  BY WorkBeginsAs
<1>2. UNCHANGED <<Works!server, did>> /\ Works!At(c, "idle") /\ WorkCallInv(c) /\ WorkTyped
  BY DEF Works!Begin, WorkIInv
<1>3. call'[c] = z /\ did[c] = {} /\ did'[c] = {}
  BY <1>1, <1>2 DEF Works!Becomes, WorkTyped, WorkCallInv, WorkCounted, Works!At
<1>4. WorkPlaced(c)'
  BY <1>1, <1>3 DEF WorkPlaced, Works!At
<1>5. WorkReturns(c)'
  BY <1>1, <1>3 DEF WorkReturns, Works!At
<1> QED BY <1>1, <1>2, <1>3, <1>4, <1>5, WorkQuiet DEF Works!At

LEMMA WorkUploadInv ==
    ASSUME Works!WorkAssumption, WorkIInv, NEW c \in Callers, Works!Upload(c)
    PROVE  WorkIInv'
<1> DEFINE q == call[c]
<1>1. q \in WorkRecords /\ WorkCallInv(c) /\ WorkTyped /\ UNCHANGED <<Works!server, did>> /\ q.pc = "upload"
                           /\ q.op = "invoke" /\ did[c] = {}
      /\ q.key = {}
  BY DEF Works!Upload, WorkIInv, WorkTyped, WorkCallInv, WorkCounted, WorkPlaced, Works!At
<1>2. \E z \in WorkRecords : Works!Becomes(c, z) /\ z.tries = 1 /\ z.op = q.op /\ z.key = q.key
        /\ z.pc \in {"raised", "make"}
  <2>1. CASE Works!Becomes(c, Works!Go(c, "raised"))
    <3> DEFINE z == Works!Go(c, "raised")
    <3>1. z \in WorkRecords /\ z.tries = 1 /\ z.op = q.op /\ z.key = q.key /\ z.pc = "raised"
      BY <1>1 DEF WorkRecords, Works!Go
    <3> HIDE DEF z
    <3> QED BY <2>1, <3>1 DEF z
  <2>2. ASSUME NEW at \in {"file", "refused"}, Works!Becomes(c, [Works!Go(c, "make") EXCEPT !.input = at])
        PROVE  \E z \in WorkRecords : Works!Becomes(c, z) /\ z.tries = 1 /\ z.op = q.op /\ z.key = q.key
                /\ z.pc \in {"raised", "make"}
    <3> DEFINE z == [Works!Go(c, "make") EXCEPT !.input = at]
    <3>1. z \in WorkRecords /\ z.tries = 1 /\ z.op = q.op /\ z.key = q.key /\ z.pc = "make"
      BY <1>1 DEF WorkRecords, Works!Go
    <3> HIDE DEF z
    <3> QED BY <2>2, <3>1 DEF z
  <2> QED BY <2>1, <2>2 DEF Works!Upload
<1>3. PICK z \in WorkRecords : Works!Becomes(c, z) /\ z.tries = 1 /\ z.op = q.op /\ z.key = q.key
        /\ z.pc \in {"raised", "make"}
  BY <1>2
<1>4. call'[c] = z /\ did'[c] = {}
  BY <1>1, <1>3 DEF Works!Becomes, WorkTyped
<1>5. WorkPlaced(c)' /\ WorkReturns(c)'
  BY <1>1, <1>3, <1>4 DEF WorkPlaced, WorkReturns, Works!At
<1> QED BY <1>1, <1>3, <1>4, <1>5, WorkQuiet

\* A question that is answered goes on, with as many attempts again.
LEMMA WorkAsked ==
    ASSUME Works!WorkAssumption, WorkIInv, NEW c \in Callers, call[c].pc \in {"resolve", "find", "progress"},
           UNCHANGED <<Works!server, did>>, NEW a \in Works!Attempts, NEW r \in WorkRecords,
           Works!Becomes(c, Works!Tried(call[c], a, r)),
           r.op = call[c].op, r.on = call[c].on, r.key = call[c].key, r.tries = 1,
           \/ r.pc = "raised"
           \/ call[c].pc = "resolve" /\ NoId \notin r.on /\ r.pc = IF r.op = "stop" THEN "stop" ELSE "make"
           \/ call[c].pc = "find" /\ r.pc = "deliver"
           \/ call[c].pc = "progress" /\ r.pc = "returned"
    PROVE  WorkIInv'
<1> DEFINE q == call[c]
           z == Works!Tried(q, a, r)
<1>1. q \in WorkRecords /\ WorkCallInv(c) /\ WorkTyped /\ did[c] = {} /\ did'[c] = {} /\ WorkPlaced(c)
  BY DEF WorkIInv, WorkTyped, WorkCallInv, WorkCounted
<1>2. /\ z \in WorkRecords
      /\ \/ a.seen = "answer" /\ a.applied /\ z = r
         \/ /\ a.seen # "answer" /\ z.op = q.op /\ z.on = q.on /\ z.key = q.key /\ z.inbox = q.inbox
            /\ z.items = q.items /\ (z.blind <=> q.blind \/ a.applied)
            /\ \/ z.pc = q.pc /\ q.tries < MaxRetryAttempts /\ z.tries = q.tries + 1
               \/ z.pc = "raised"
  BY <1>1, WorkAttempted
<1>3. call'[c] = z
  BY <1>1 DEF Works!Becomes, WorkTyped
<1> HIDE DEF z
<1>4. z.op = q.op /\ z.on = q.on /\ z.key = q.key /\ (z = r \/ z.pc = q.pc \/ z.pc = "raised")
  BY <1>2
<1>5. WorkPlaced(c)'
  BY <1>1, <1>3, <1>4 DEF WorkPlaced, Works!At
<1>6. WorkReturns(c)'
  BY <1>1, <1>3, <1>4 DEF WorkReturns, WorkPlaced, Works!At
<1>7. z.pc \in WorkEffective => z.tries = 1
  BY <1>2 DEF WorkEffective
<1>8. Works!Becomes(c, z)
  BY DEF z
<1> QED BY <1>1, <1>2, <1>5, <1>6, <1>7, <1>8, WorkQuiet

LEMMA WorkResolveInv ==
    ASSUME Works!WorkAssumption, WorkIInv, NEW c \in Callers, Works!Resolve(c)
    PROVE  WorkIInv'
<1> DEFINE q == call[c]
<1>1. q \in WorkRecords /\ q.pc = "resolve" /\ UNCHANGED <<Works!server, did>> /\ q.op \in {"stop", "restart"}
  BY DEF Works!Resolve, Works!At, WorkIInv, WorkTyped, WorkCallInv, WorkPlaced
<1> DEFINE r == IF ~Works!AllFound(q.on) THEN Works!Go(c, "raised")
                ELSE Works!Go(c, IF q.op = "stop" THEN "stop" ELSE "make")
<1>2. PICK a \in Works!Attempts : Works!Becomes(c, Works!Tried(q, a, r))
  BY DEF Works!Resolve
<1>3. r \in WorkRecords
  BY <1>1 DEF WorkRecords, Works!Go
<1>4. /\ r.op = q.op /\ r.on = q.on /\ r.key = q.key /\ r.tries = 1
      /\ r.pc = "raised" \/ (NoId \notin q.on /\ r.pc = IF q.op = "stop" THEN "stop" ELSE "make")
  BY <1>1 DEF WorkRecords, Works!Go, Works!AllFound
<1> HIDE DEF r
<1> QED BY <1>1, <1>2, <1>3, <1>4, WorkAsked

LEMMA WorkFindInv ==
    ASSUME Works!WorkAssumption, WorkIInv, NEW c \in Callers, Works!Find(c)
    PROVE  WorkIInv'
<1> DEFINE q == call[c]
<1>1. q \in WorkRecords /\ q.pc = "find" /\ UNCHANGED <<Works!server, did>> /\ trigger \in Nat
  BY DEF Works!Find, Works!At, WorkIInv, WorkTyped, WorkServerTyped
<1>2. PICK a \in Works!Attempts :
          \/ trigger = 0 /\ Works!Becomes(c, Works!Tried(q, a, Works!Go(c, "raised")))
          \/ \E n \in 1 .. trigger : Works!Becomes(c, Works!Tried(q, a, [Works!Go(c, "deliver") EXCEPT !.inbox = n]))
  BY DEF Works!Find
<1>3. CASE Works!Becomes(c, Works!Tried(q, a, Works!Go(c, "raised")))
  <2> DEFINE r == Works!Go(c, "raised")
  <2>1. r \in WorkRecords /\ r.op = q.op /\ r.on = q.on /\ r.key = q.key /\ r.tries = 1 /\ r.pc = "raised"
    BY <1>1 DEF WorkRecords, Works!Go
  <2>2. Works!Becomes(c, Works!Tried(q, a, r))
    BY <1>3
  <2> HIDE DEF r
  <2> QED BY <1>1, <2>1, <2>2, WorkAsked
<1>4. ASSUME NEW n \in 1 .. trigger,
             Works!Becomes(c, Works!Tried(q, a, [Works!Go(c, "deliver") EXCEPT !.inbox = n]))
      PROVE  WorkIInv'
  <2> DEFINE r == [Works!Go(c, "deliver") EXCEPT !.inbox = n]
  <2>1. n \in Nat
    BY <1>1
  <2>2. r \in WorkRecords /\ r.op = q.op /\ r.on = q.on /\ r.key = q.key /\ r.tries = 1 /\ r.pc = "deliver"
    BY <1>1, <2>1 DEF WorkRecords, Works!Go
  <2>3. Works!Becomes(c, Works!Tried(q, a, r))
    BY <1>4
  <2> HIDE DEF r
  <2> QED BY <1>1, <2>2, <2>3, WorkAsked
<1> QED BY <1>2, <1>3, <1>4

LEMMA WorkProgressInv ==
    ASSUME Works!WorkAssumption, WorkIInv, NEW c \in Callers, Works!Progress(c)
    PROVE  WorkIInv'
<1> DEFINE q == call[c]
           r == Works!Go(c, "returned")
<1>1. q \in WorkRecords /\ q.pc = "progress" /\ UNCHANGED <<Works!server, did>>
  BY DEF Works!Progress, Works!At, WorkIInv, WorkTyped
<1>2. PICK a \in Works!Attempts : Works!Becomes(c, Works!Tried(q, a, r))
  BY DEF Works!Progress
<1>3. r \in WorkRecords /\ r.op = q.op /\ r.on = q.on /\ r.key = q.key /\ r.tries = 1 /\ r.pc = "returned"
  BY <1>1 DEF WorkRecords, Works!Go
<1> HIDE DEF r
<1> QED BY <1>1, <1>2, <1>3, WorkAsked

LEMMA WorkStopInv ==
    ASSUME Works!WorkAssumption, WorkIInv, NEW c \in Callers, Works!Stop(c)
    PROVE  WorkIInv'
<1> DEFINE q == call[c]
           r == Works!Go(c, "returned")
<1>1. /\ q \in WorkRecords /\ q.pc = "stop" /\ q.op = "stop" /\ WorkTyped /\ WorkJobInv
      /\ input' = input /\ trigger' = trigger /\ paid' = paid /\ q.key = {}
  BY DEF Works!Stop, Works!At, WorkIInv, WorkTyped, WorkCallInv, WorkPlaced
<1>2. PICK a \in Works!Attempts :
          /\ IF a.applied /\ work[GivenJob] \in Works!Active
             THEN IF q.strategy = "Kill"
                  THEN work' = [work EXCEPT ![GivenJob] = "stopped"] /\ Works!Does(c, "stopped", {GivenJob})
                  ELSE work' = [work EXCEPT ![GivenJob] = "stopping"] /\ Works!Does(c, "asked", {GivenJob})
             ELSE UNCHANGED <<work, did>>
          /\ Works!Becomes(c, Works!Tried(q, a, r))
  BY DEF Works!Stop
<1>3. r \in WorkRecords /\ r.op = q.op /\ r.on = q.on /\ r.key = q.key /\ r.inbox = q.inbox
      /\ r.blind = q.blind /\ r.pc = "returned" /\ r.items = q.items /\ r.strategy = q.strategy
  BY <1>1 DEF WorkRecords, Works!Go
<1> HIDE DEF r
<1>6. {GivenJob} \in SUBSET (WorkIds \cup Nat) /\ Cardinality({GivenJob}) <= q.items
  BY <1>1, FS_Singleton DEF Works!WorkAssumption, WorkRecords
<1>4. ASSUME a.applied, work[GivenJob] \in Works!Active, NEW what, NEW now, NEW x, x = {GivenJob},
             \/ what = "stopped" /\ now = "stopped"
             \/ what = "asked" /\ now = "stopping" /\ q.strategy = "SoftStop",
             work' = [work EXCEPT ![GivenJob] = now], Works!Does(c, what, x)
      PROVE  WorkIInv'
  <2>1. work' \in [WorkIds -> WorkStates]
    BY <1>1, <1>4 DEF WorkTyped, WorkServerTyped, WorkStates
  <2>2. WorkServerTyped'
    BY <1>1, <2>1 DEF WorkTyped, WorkServerTyped
  <2>3. WorkJobInv' /\ WorkRelied /\ work'[GivenJob] = now
    BY <1>1, <1>4, <2>1
       DEF WorkTyped, WorkServerTyped, WorkJobInv, WorkRelied, Works!WorkAssumption, Works!Active
  <2>4. WorkStands(c, what, x)'
    BY <1>4, <2>3 DEF WorkStands
  <2>5. \A d \in Callers : \A e \in did[d] : WorkApart(<<what, x>>, e)
    <3> SUFFICES ASSUME NEW d \in Callers, NEW e \in did[d], e[1] = "stopped" PROVE FALSE
      BY <1>4 DEF WorkApart
    <3>1. WorkStands(d, e[1], e[2])
      BY DEF WorkIInv, WorkCallInv
    <3> QED BY <1>4, <3>1 DEF WorkStands, Works!Active
  <2>6. call'[c] = r => WorkReturns(c)'
    <3>1. <<what, x>> \in did'[c]
      BY <1>1, <1>4 DEF Works!Does, WorkTyped
    <3> QED BY <1>1, <1>3, <1>4, <2>3, <3>1 DEF WorkReturns, Works!At
  <2>7. what \in WorkEffects /\ q.pc \in WorkEffective
    BY <1>1, <1>4 DEF WorkEffects, WorkEffective
  <2>8. /\ a.applied /\ Works!Does(c, what, x) /\ Cardinality(x) <= q.items
        /\ WorkStands(c, what, x)'
        /\ \A d \in Callers : \A e \in did[d] : WorkApart(<<what, x>>, e)
    BY <1>4, <1>6, <2>4, <2>5
  <2>9. Works!Becomes(c, Works!Tried(q, a, r)) /\ \A n \in DOMAIN paid' : n \in DOMAIN paid
    BY <1>1, <1>2
  <2>10. x \in SUBSET (WorkIds \cup Nat)
    BY <1>4, <1>6
  <2> QED BY <1>3, <2>2, <2>3, <2>6, <2>7, <2>8, <2>9, <2>10, WorkEffect
<1>5. CASE ~(a.applied /\ work[GivenJob] \in Works!Active)
  <2>1. work' = work /\ did' = did
    BY <1>2, <1>5
  <2>2. WorkServerTyped' /\ WorkJobInv' /\ WorkRelied
    BY <1>1, <2>1 DEF WorkTyped, WorkServerTyped, WorkJobInv, WorkRelied
  <2>3. a.applied /\ call'[c] = r => WorkReturns(c)'
    BY <1>1, <1>3, <1>5, <2>1 DEF WorkReturns, Works!At, WorkJobInv, Works!Active
  <2>4. "stopped" \in WorkEffects
    BY DEF WorkEffects
  <2> QED BY <1>1, <1>2, <1>3, <1>6, <2>1, <2>2, <2>3, <2>4, WorkEffect DEF WorkEffective
<1>7. CASE a.applied /\ work[GivenJob] \in Works!Active
  <2>1. q.strategy \in {"SoftStop", "Kill"}
    BY <1>1 DEF WorkRecords
  <2> QED BY <1>2, <1>4, <1>7, <2>1
<1> QED BY <1>5, <1>7

LEMMA WorkMakeInv ==
    ASSUME Works!WorkAssumption, WorkIInv, NEW c \in Callers, Works!Make(c)
    PROVE  WorkIInv'
<1> DEFINE q == call[c]
<1>0. PICK n \in Works!Sizes(c) : \E a \in Works!Attempts, new \in Works!NewIds(n) :
          /\ IF a.applied
             THEN /\ work' = [i \in WorkIds |-> IF i \notin new THEN work[i]
                                               ELSE IF q.op \in {"add", "bulk"} THEN "new" ELSE "running"]
                  /\ input' = [i \in WorkIds |-> IF i \in new THEN q.input ELSE input[i]]
                  /\ Works!Does(c, "made", new)
             ELSE UNCHANGED <<work, input, did>>
          /\ Works!Becomes(c, Works!Tried(q, a, [Works!Go(c, "returned") EXCEPT
                                                   !.key = IF q.op = "bulk" THEN {} ELSE new]))
  BY DEF Works!Make
<1>1. PICK a \in Works!Attempts, new \in Works!NewIds(n) :
          /\ IF a.applied
             THEN /\ work' = [i \in WorkIds |-> IF i \notin new THEN work[i]
                                               ELSE IF q.op \in {"add", "bulk"} THEN "new" ELSE "running"]
                  /\ input' = [i \in WorkIds |-> IF i \in new THEN q.input ELSE input[i]]
                  /\ Works!Does(c, "made", new)
             ELSE UNCHANGED <<work, input, did>>
          /\ Works!Becomes(c, Works!Tried(q, a, [Works!Go(c, "returned") EXCEPT
                                                   !.key = IF q.op = "bulk" THEN {} ELSE new]))
  BY <1>0
<1>2. /\ q \in WorkRecords /\ q.pc = "make" /\ q.op \in {"invoke", "restart", "add", "bulk"}
      /\ WorkTyped /\ WorkJobInv /\ trigger' = trigger /\ paid' = paid
  BY DEF Works!Make, Works!At, WorkIInv, WorkTyped, WorkCallInv, WorkPlaced
<1>3. /\ new \subseteq WorkIds /\ (\A i \in new : work[i] = "none") /\ GivenJob \notin new
      /\ Cardinality(new) <= q.items
  <2>1. new \in SUBSET {i \in WorkIds : work[i] = "none"} /\ Works!Cardinality(new) = n
    BY DEF Works!NewIds
  <2>2. n <= q.items
    BY <1>2 DEF Works!Sizes, WorkRecords
  <2> QED BY <1>2, <2>1, <2>2, WorkCardinality DEF WorkJobInv
<1> DEFINE r == [Works!Go(c, "returned") EXCEPT !.key = IF q.op = "bulk" THEN {} ELSE new]
<1>4. /\ r \in WorkRecords /\ r.op = q.op /\ r.on = q.on /\ r.key \in {{}, new} /\ r.inbox = q.inbox
      /\ r.blind = q.blind /\ r.items = q.items /\ r.pc = "returned"
      /\ Works!Becomes(c, Works!Tried(q, a, r))
  BY <1>1, <1>2, <1>3 DEF WorkRecords, Works!Go
<1> HIDE DEF r
<1>7. "made" \in WorkEffects /\ new \in SUBSET (WorkIds \cup Nat) /\ q.pc \in WorkEffective
  BY <1>2, <1>3 DEF WorkEffects, WorkEffective
<1>5. CASE a.applied
  <2>1. /\ work' = [i \in WorkIds |-> IF i \notin new THEN work[i]
                                     ELSE IF q.op \in {"add", "bulk"} THEN "new" ELSE "running"]
        /\ input' = [i \in WorkIds |-> IF i \in new THEN q.input ELSE input[i]]
        /\ Works!Does(c, "made", new)
    BY <1>1, <1>5
  <2>2. work' \in [WorkIds -> WorkStates]
    BY <1>2, <2>1 DEF WorkTyped, WorkServerTyped, WorkStates
  <2>3. input' \in [WorkIds -> {"inline", "file", "refused"}]
    BY <1>2, <2>1 DEF WorkTyped, WorkServerTyped, WorkRecords
  <2>4. WorkServerTyped'
    BY <1>2, <2>2, <2>3 DEF WorkTyped, WorkServerTyped
  <2>5. WorkJobInv' /\ WorkRelied /\ \A i \in new : work'[i] # "none"
    <3>1. work'[GivenJob] = work[GivenJob] /\ \A i \in WorkIds : work[i] # "none" => work'[i] = work[i]
      BY <1>3, <2>1 DEF Works!WorkAssumption
    <3> QED BY <1>2, <1>3, <2>1, <3>1 DEF WorkJobInv, WorkRelied
  <2>6. WorkStands(c, "made", new)'
    BY <1>3, <2>5 DEF WorkStands
  <2>7. \A d \in Callers : \A e \in did[d] : WorkApart(<<"made", new>>, e)
    <3> SUFFICES ASSUME NEW d \in Callers, NEW e \in did[d], e[1] = "made" PROVE e[2] \cap new = {}
      BY DEF WorkApart
    <3>1. WorkStands(d, e[1], e[2])
      BY DEF WorkIInv, WorkCallInv
    <3> QED BY <1>3, <3>1 DEF WorkStands
  <2>8. <<"made", new>> \in did'[c]
    BY <1>2, <2>1 DEF Works!Does, WorkTyped
  <2>9. call'[c] = r => WorkReturns(c)'
    BY <1>2, <1>4, <2>8 DEF WorkReturns, Works!At
  <2> QED BY <1>2, <1>3, <1>4, <1>5, <1>7, <2>1, <2>4, <2>5, <2>6, <2>7, <2>9, WorkEffect
<1>6. CASE ~a.applied
  <2>1. work' = work /\ input' = input /\ did' = did
    BY <1>1, <1>6
  <2>2. WorkServerTyped' /\ WorkJobInv' /\ WorkRelied
    BY <1>2, <2>1 DEF WorkTyped, WorkServerTyped, WorkJobInv, WorkRelied
  <2> QED BY <1>2, <1>4, <1>6, <1>7, <2>1, <2>2, WorkEffect
<1> QED BY <1>5, <1>6

LEMMA WorkTransactInv ==
    ASSUME Works!WorkAssumption, WorkIInv, NEW c \in Callers, Works!Transact(c)
    PROVE  WorkIInv'
<1> DEFINE q == call[c]
<1>1. PICK a \in Works!Attempts, t \in (UNION Works!NewIds(1)) \cup {i \in WorkIds : work[i] = "new"} :
          /\ IF a.applied
             THEN work' = [work EXCEPT ![t] = "in progress"] /\ Works!Does(c, "taken", {t})
             ELSE UNCHANGED <<work, did>>
          /\ Works!Becomes(c, Works!Tried(q, a, [Works!Go(c, "returned") EXCEPT !.key = {t}]))
  BY DEF Works!Transact
<1>2. /\ q \in WorkRecords /\ q.pc = "transact" /\ q.op = "transact" /\ WorkTyped /\ WorkJobInv
      /\ trigger' = trigger /\ paid' = paid /\ input' = input
  BY DEF Works!Transact, Works!At, WorkIInv, WorkTyped, WorkCallInv, WorkPlaced
<1>3. t \in WorkIds /\ work[t] \in {"none", "new"} /\ t # GivenJob
  <2>1. t \in WorkIds /\ work[t] \in {"none", "new"}
    <3>1. Works!NewIds(1) \subseteq SUBSET {i \in WorkIds : work[i] = "none"}
      BY DEF Works!NewIds
    <3>2. CASE t \in UNION Works!NewIds(1)
      BY <3>1, <3>2
    <3>3. CASE t \in {i \in WorkIds : work[i] = "new"}
      BY <3>3
    <3> QED BY <3>2, <3>3
  <2> QED BY <1>2, <2>1 DEF WorkJobInv
<1> DEFINE r == [Works!Go(c, "returned") EXCEPT !.key = {t}]
<1>4. /\ r \in WorkRecords /\ r.op = q.op /\ r.on = q.on /\ r.key = {t} /\ r.inbox = q.inbox /\ r.blind = q.blind
      /\ r.pc = "returned" /\ r.items = q.items /\ Works!Becomes(c, Works!Tried(q, a, r))
  BY <1>1, <1>2, <1>3 DEF WorkRecords, Works!Go
<1> HIDE DEF r
<1>7. Cardinality({t}) <= q.items /\ "taken" \in WorkEffects /\ {t} \in SUBSET (WorkIds \cup Nat)
  BY <1>2, <1>3, FS_Singleton DEF WorkRecords, WorkEffects
<1>5. CASE a.applied
  <2>1. work' = [work EXCEPT ![t] = "in progress"] /\ Works!Does(c, "taken", {t})
    BY <1>1, <1>5
  <2>2. WorkServerTyped'
    BY <1>2, <2>1 DEF WorkTyped, WorkServerTyped, WorkStates
  <2>5. WorkJobInv' /\ WorkRelied /\ work'[t] = "in progress"
    BY <1>2, <1>3, <2>1 DEF WorkTyped, WorkServerTyped, WorkStates, WorkJobInv, WorkRelied, Works!WorkAssumption
  <2>6. WorkStands(c, "taken", {t})'
    BY <1>3, <2>5 DEF WorkStands
  <2>7. \A d \in Callers : \A e \in did[d] : WorkApart(<<"taken", {t}>>, e)
    <3> SUFFICES ASSUME NEW d \in Callers, NEW e \in did[d], e[1] = "taken" PROVE t \notin e[2]
      BY DEF WorkApart
    <3>1. WorkStands(d, e[1], e[2])
      BY DEF WorkIInv, WorkCallInv
    <3> QED BY <1>3, <3>1 DEF WorkStands
  <2>8. <<"taken", {t}>> \in did'[c]
    BY <1>2, <2>1 DEF Works!Does, WorkTyped
  <2>9. call'[c] = r => WorkReturns(c)'
    BY <1>2, <1>4, <2>8 DEF WorkReturns, Works!At
  <2>10. q.pc \in WorkEffective /\ "taken" \in WorkEffects /\ {t} \in SUBSET (WorkIds \cup Nat) /\ (a.applied
          /\ call'[c] = r => WorkReturns(c)')
    BY <1>2, <1>3, <2>9 DEF WorkEffective, WorkEffects
  <2>11. a.applied /\ Cardinality({t}) <= q.items /\ Works!Does(c, "taken", {t}) /\ WorkStands(c, "taken", {t})'
                      /\ \A d \in Callers : \A e \in did[d] : WorkApart(<<"taken", {t}>>, e)
    BY <1>5, <1>7, <2>1, <2>6, <2>7
  <2> QED BY <1>2, <1>3, <1>4, <2>2, <2>5, <2>10, <2>11, WorkEffect
<1>6. CASE ~a.applied
  <2>1. work' = work /\ did' = did
    BY <1>1, <1>6
  <2>2. WorkServerTyped' /\ WorkJobInv' /\ WorkRelied
    BY <1>2, <2>1 DEF WorkTyped, WorkServerTyped, WorkStates, WorkJobInv, WorkRelied
  <2> QED BY <1>2, <1>3, <1>4, <1>6, <1>7, <2>1, <2>2, WorkEffect DEF WorkEffective
<1> QED BY <1>5, <1>6

LEMMA WorkCompleteInv ==
    ASSUME Works!WorkAssumption, WorkIInv, NEW c \in Callers, Works!Complete(c)
    PROVE  WorkIInv'
<1> DEFINE q == call[c]
           r == Works!Go(c, "returned")
<1>1. PICK a \in Works!Attempts, t \in q.on :
          /\ a.applied => work[t] = "in progress"
          /\ IF a.applied
             THEN work' = [work EXCEPT ![t] = "complete"] /\ Works!Does(c, "completed", {t})
             ELSE UNCHANGED <<work, did>>
          /\ Works!Becomes(c, Works!Tried(q, a, r))
  BY DEF Works!Complete
<1>2. /\ q \in WorkRecords /\ q.pc = "complete" /\ q.op = "complete" /\ WorkTyped /\ WorkJobInv /\ q.key = {}
      /\ trigger' = trigger /\ paid' = paid /\ input' = input
  BY DEF Works!Complete, Works!At, WorkIInv, WorkTyped, WorkCallInv, WorkPlaced
<1>3. t \in WorkIds /\ q.on = {t}
  BY <1>2 DEF WorkIInv, WorkCallInv, WorkPlaced
<1>4. /\ r \in WorkRecords /\ r.op = q.op /\ r.on = q.on /\ r.key = q.key /\ r.inbox = q.inbox
         /\ r.blind = q.blind
      /\ r.pc = "returned" /\ r.items = q.items
  BY <1>2 DEF WorkRecords, Works!Go
<1> HIDE DEF r
<1>7. Cardinality({t}) <= q.items /\ "completed" \in WorkEffects /\ {t} \in SUBSET (WorkIds \cup Nat)
  <2>1. Cardinality({t}) = 1 /\ q.items \in Nat \ {0}
    BY <1>2, FS_Singleton DEF WorkRecords
  <2>2. t \in WorkIds
    BY <1>3
  <2> QED BY <2>1, <2>2 DEF WorkEffects
<1>5. CASE a.applied
  <2>1. work' = [work EXCEPT ![t] = "complete"] /\ Works!Does(c, "completed", {t}) /\ work[t] = "in progress"
          /\ t # GivenJob
    BY <1>1, <1>2, <1>5 DEF WorkJobInv
  <2>2. WorkServerTyped'
    BY <1>2, <2>1 DEF WorkTyped, WorkServerTyped, WorkStates
  <2>5. WorkJobInv' /\ WorkRelied /\ work'[t] = "complete"
    BY <1>2, <1>3, <2>1 DEF WorkTyped, WorkServerTyped, WorkStates, WorkJobInv, WorkRelied, Works!WorkAssumption
  <2>6. WorkStands(c, "completed", {t})'
    BY <1>3, <2>5 DEF WorkStands
  <2>7. \A d \in Callers : \A e \in did[d] : WorkApart(<<"completed", {t}>>, e)
    <3> SUFFICES ASSUME NEW d \in Callers, NEW e \in did[d], e[1] = "completed" PROVE t \notin e[2]
      BY DEF WorkApart
    <3>1. WorkStands(d, e[1], e[2])
      BY DEF WorkIInv, WorkCallInv
    <3> QED BY <2>1, <3>1 DEF WorkStands
  <2>8. <<"completed", {t}>> \in did'[c]
    BY <1>2, <2>1 DEF Works!Does, WorkTyped
  <2>9. call'[c] = r => WorkReturns(c)'
    BY <1>2, <1>3, <1>4, <2>5, <2>8 DEF WorkReturns, Works!At
  <2>10. q.pc \in WorkEffective /\ "completed" \in WorkEffects /\ {t} \in SUBSET (WorkIds \cup Nat) /\ (a.applied
          /\ call'[c] = r => WorkReturns(c)')
    BY <1>2, <1>3, <2>9 DEF WorkEffective, WorkEffects
  <2>11. /\ a.applied /\ Cardinality({t}) <= q.items /\ Works!Does(c, "completed", {t})
         /\ WorkStands(c, "completed", {t})'
         /\ \A d \in Callers : \A e \in did[d] : WorkApart(<<"completed", {t}>>, e)
    BY <1>5, <1>7, <2>1, <2>6, <2>7
  <2>12. Works!Becomes(c, Works!Tried(q, a, r)) /\ \A n \in DOMAIN paid' : n \in DOMAIN paid
    BY <1>1, <1>2
  <2> QED BY <1>2, <1>3, <1>4, <2>2, <2>5, <2>10, <2>11, <2>12, WorkEffect
<1>6. CASE ~a.applied
  <2>1. work' = work /\ did' = did
    BY <1>1, <1>6
  <2>2. WorkServerTyped' /\ WorkJobInv' /\ WorkRelied
    BY <1>2, <2>1 DEF WorkTyped, WorkServerTyped, WorkStates, WorkJobInv, WorkRelied
  <2> QED BY <1>1, <1>2, <1>3, <1>4, <1>6, <1>7, <2>1, <2>2, WorkEffect DEF WorkEffective
<1> QED BY <1>5, <1>6

LEMMA WorkDeliverInv ==
    ASSUME Works!WorkAssumption, WorkIInv, NEW c \in Callers, Works!Deliver(c)
    PROVE  WorkIInv'
<1> DEFINE q == call[c]
           r == Works!Go(c, "returned")
<1>0. PICK n : n = call[c].inbox
  OBVIOUS
<1>1. PICK a \in Works!Attempts :
          /\ a.applied => n \in Works!Pending
          /\ IF a.applied
             THEN work' = [work EXCEPT ![GivenJob] = "running"] /\ paid' = Works!With(paid, n, c)
                     /\ Works!Does(c, "paid", {n})
             ELSE UNCHANGED <<work, paid, did>>
          /\ Works!Becomes(c, Works!Tried(q, a, r))
  BY <1>0 DEF Works!Deliver, Works!Inbox
<1>2. /\ q \in WorkRecords /\ q.pc = "deliver" /\ q.op = "resume" /\ WorkTyped /\ WorkJobInv /\ q.key = {}
      /\ trigger' = trigger /\ input' = input /\ n \in Nat
  BY <1>0 DEF Works!Deliver, Works!At, WorkIInv, WorkTyped, WorkCallInv, WorkPlaced, WorkRecords
<1>3. /\ r \in WorkRecords /\ r.op = q.op /\ r.on = q.on /\ r.key = q.key /\ r.inbox = n /\ r.blind = q.blind
      /\ r.pc = "returned" /\ r.items = q.items
  BY <1>0, <1>2 DEF WorkRecords, Works!Go
<1> HIDE DEF r
<1>7. Cardinality({n}) <= q.items /\ "paid" \in WorkEffects /\ {n} \in SUBSET (WorkIds \cup Nat)
  BY <1>2, FS_Singleton DEF WorkRecords, WorkEffects
<1>4. CASE a.applied
  <2>1. /\ work' = [work EXCEPT ![GivenJob] = "running"] /\ paid' = Works!With(paid, n, c)
           /\ Works!Does(c, "paid", {n})
        /\ n = trigger /\ work[GivenJob] = "suspended" /\ n \notin DOMAIN paid /\ n \in 1 .. trigger
    <3>1. n = trigger /\ work[GivenJob] = "suspended"
      BY <1>1, <1>4 DEF Works!Pending
    <3>2. trigger \in Nat \ {0} /\ trigger \notin DOMAIN paid
      BY <1>2, <3>1 DEF WorkJobInv
    <3> QED BY <1>1, <1>4, <3>1, <3>2
  <2>2. /\ DOMAIN paid' = DOMAIN paid \cup {n} /\ paid'[n] = c
        /\ \A m \in DOMAIN paid : paid'[m] = paid[m]
        /\ paid' \in [DOMAIN paid' -> Callers \cup {"others"}]
    BY <1>2, <2>1 DEF Works!With, WorkTyped, WorkServerTyped
  <2>3. WorkServerTyped'
    BY <1>2, <2>1, <2>2 DEF WorkTyped, WorkServerTyped, WorkStates
  <2>5. WorkJobInv' /\ WorkRelied
    BY <1>2, <2>1, <2>2 DEF WorkTyped, WorkServerTyped, WorkStates, WorkJobInv, WorkRelied, Works!WorkAssumption
  <2>6. WorkStands(c, "paid", {n})'
    BY <2>2 DEF WorkStands
  <2>7. \A d \in Callers : \A e \in did[d] : WorkApart(<<"paid", {n}>>, e)
    <3> SUFFICES ASSUME NEW d \in Callers, NEW e \in did[d], e[1] = "paid" PROVE n \notin e[2]
      BY DEF WorkApart
    <3>1. WorkStands(d, e[1], e[2])
      BY DEF WorkIInv, WorkCallInv
    <3> QED BY <2>1, <3>1 DEF WorkStands
  <2>9. call'[c] = r => WorkReturns(c)'
    BY <1>2, <1>3, <2>2 DEF WorkReturns, Works!At
  <2>10. \A m \in DOMAIN paid' : m \in DOMAIN paid \/ (paid'[m] = c /\ m = call[c].inbox
          /\ call[c].pc = "deliver")
    BY <1>0, <1>2, <2>2
  <2>11. q.pc \in WorkEffective /\ "paid" \in WorkEffects /\ {n} \in SUBSET (WorkIds \cup Nat) /\ (a.applied
          /\ call'[c] = r => WorkReturns(c)')
    BY <1>2, <2>9 DEF WorkEffective, WorkEffects
  <2>12. a.applied /\ Cardinality({n}) <= q.items /\ Works!Does(c, "paid", {n}) /\ WorkStands(c, "paid", {n})'
                      /\ \A d \in Callers : \A e \in did[d] : WorkApart(<<"paid", {n}>>, e)
    BY <1>4, <1>7, <2>1, <2>6, <2>7
  <2> QED BY <1>0, <1>1, <1>2, <1>3, <2>3, <2>5, <2>10, <2>11, <2>12, WorkEffect
<1>5. CASE ~a.applied
  <2>1. work' = work /\ did' = did /\ paid' = paid
    BY <1>1, <1>5
  <2>2. WorkServerTyped' /\ WorkJobInv' /\ WorkRelied
    BY <1>2, <2>1 DEF WorkTyped, WorkServerTyped, WorkStates, WorkJobInv, WorkRelied
  <2> QED BY <1>0, <1>1, <1>2, <1>3, <1>5, <1>7, <2>1, <2>2, WorkEffect DEF WorkEffective
<1> QED BY <1>4, <1>5

LEMMA WorkStarts ==
    ASSUME Works!WorkAssumption, Works!Init
    PROVE  WorkIInv
<1>1. Works!NoCall \in WorkRecords
  BY DEF Works!NoCall, WorkRecords
<1>2. WorkTyped /\ WorkJobInv
  BY <1>1 DEF Works!Init, WorkTyped, WorkServerTyped, WorkStates, WorkJobInv, Works!WorkAssumption
<1>3. IsFiniteSet({}) /\ Cardinality({}) = 0 /\ MaxRetryAttempts \in Nat \ {0}
  BY FS_EmptySet, RequestAssumption
<1>4. ASSUME NEW c \in Callers PROVE WorkCallInv(c)
  <2>1. call[c] = Works!NoCall /\ did[c] = {} /\ DOMAIN paid = {}
    BY DEF Works!Init
  <2>2. WorkPlaced(c) /\ WorkReturns(c) /\ WorkPays(c)
    BY <2>1 DEF WorkPlaced, WorkReturns, WorkPays, Works!At, Works!NoCall
  <2>3. WorkCounted(c)
    BY <1>3, <2>1 DEF WorkCounted, Works!At, Works!NoCall
  <2> QED BY <2>1, <2>2, <2>3 DEF WorkCallInv
<1> QED BY <1>2, <1>4 DEF WorkIInv

LEMMA WorkSteps ==
    ASSUME Works!WorkAssumption, WorkIInv, [Works!Next]_(Works!vars)
    PROVE  WorkIInv'
<1>1. CASE UNCHANGED Works!vars
  <2>1. /\ work' = work /\ input' = input /\ trigger' = trigger /\ paid' = paid /\ call' = call /\ did' = did
        /\ WorkTyped /\ WorkJobInv
    BY <1>1 DEF Works!vars, Works!server, WorkIInv
  <2>2. WorkTyped' /\ WorkJobInv' /\ WorkRelied
    BY <2>1 DEF WorkTyped, WorkServerTyped, WorkStates, WorkJobInv, WorkRelied
  <2> QED BY <2>1, <2>2, WorkOutside
<1>2. CASE Works!Next
  BY <1>2, WorkSuspendInv, WorkPaidInv, WorkFinishInv, WorkBeginInv, WorkUploadInv, WorkMakeInv,
     WorkResolveInv, WorkStopInv, WorkFindInv, WorkDeliverInv,
     WorkTransactInv, WorkProgressInv, WorkCompleteInv DEF Works!Next
<1> QED BY <1>1, <1>2

LEMMA WorkKept ==
    ASSUME Works!WorkAssumption, WorkIInv
    PROVE  Works!EffectsAreOwned /\ Works!InputIsThere /\ Works!PaidAsFound /\ Works!OverForGood
<1>1. Works!EffectsAreOwned
  <2> SUFFICES ASSUME NEW c \in Callers
               PROVE  /\ Cardinality(did[c]) <= IF call[c].blind THEN MaxRetryAttempts ELSE 1
                      /\ \A s \in did[c] : Cardinality(s[2]) <= call[c].items
                      /\ Works!At(c, "returned")
                         /\ call[c].key # {} => \E what \in {"made", "taken"} : <<what, call[c].key>> \in did[c]
                      /\ Works!At(c, "raised") /\ ~call[c].blind => did[c] = {}
                      /\ \A d \in Callers \ {c}, s \in did[c] : s[1] # "asked" =>
                            \A e \in did[d] : e[1] = s[1] => e[2] \cap s[2] = {}
    BY WorkCardinality DEF Works!EffectsAreOwned
  <2>1. WorkCallInv(c)
    BY DEF WorkIInv
  <2> QED BY <2>1 DEF WorkCallInv, WorkCounted, WorkReturns, WorkApart, Works!At
<1>2. Works!InputIsThere
  BY DEF WorkIInv, WorkTyped, WorkServerTyped, Works!InputIsThere
<1>3. Works!PaidAsFound
  BY DEF WorkIInv, WorkCallInv, WorkPays, WorkReturns, Works!PaidAsFound
<1>4. Works!OverForGood
  BY DEF WorkIInv, WorkCallInv, WorkPlaced, WorkReturns, Works!OverForGood
<1> QED BY <1>1, <1>2, <1>3, <1>4
-------------------------------------------------------------------------------
(***************************************************************************)
(* EntityRecords, for any calls and rows, and batches of any size.         *)
(*                                                                         *)
(* The argument: a request is done up to the first record that is refused, *)
(* or but for those that are (DoneIs), so that its answer, as a success or *)
(* as a 400, tells of each record what became of it; a record on its own   *)
(* that is refused has nothing done.  Rows that were inserted are not free *)
(* (Inserts), so no other call inserts into them, and each attempt changes *)
(* a record once at most (Counted).                                        *)
(***************************************************************************)
LEMMA BatchCardinality ==
    /\ \A S : Entities!Cardinality(S) = Cardinality(S)
    /\ \A S : Entities!IsFiniteSet(S) <=> IsFiniteSet(S)
<1>1. \A S : Entities!IsFiniteSet(S) <=> IsFiniteSet(S)
  BY DEF Entities!IsFiniteSet, IsFiniteSet
<1>2. \A S : Entities!Cardinality(S) = Cardinality(S)
  BY DEF Entities!Cardinality, Cardinality, Entities!IsFiniteSet, IsFiniteSet
<1> QED BY <1>1, <1>2

BatchRecords ==
    [op : {"none", "insert", "update", "delete"}, pc : {"idle", "ask", "returned", "raised"}, batch : BOOLEAN,
     size : Nat, on : UNION {[1 .. n -> GivenRows] : n \in 0 .. BatchSize}, bad : SUBSET Nat, first : BOOLEAN,
     schema : BOOLEAN, misfit : BOOLEAN, success : SUBSET (Nat \X Rows), failure : SUBSET Nat,
     tries : Nat, blind : BOOLEAN]
BatchTyped ==
    /\ rows \in [Rows -> {"none", "there", "gone"}] /\ call \in [Callers -> BatchRecords]
    /\ did \in [Callers -> SUBSET (Nat \X Rows)]

\* What call c changed its i-th record in.
BatchOf(c, i) == {s \in did[c] : s[1] = i}

BatchSized(c) ==
    /\ Entities!At(c, "ask") => call[c].op # "none"
    /\ call[c].op \in {"update", "delete"} => call[c].on \in [1 .. call[c].size -> GivenRows]
    /\ ~call[c].batch => call[c].size <= 1

\* A record is changed as often as it was tried to be.
BatchCounted(c) ==
    /\ \A i \in Nat : IsFiniteSet(BatchOf(c, i))
    /\ Entities!At(c, "idle") => did[c] = {}
    /\ Entities!At(c, "ask") =>
          /\ call[c].tries <= MaxRetryAttempts /\ \A i \in Nat : Cardinality(BatchOf(c, i)) < call[c].tries
          /\ ~call[c].blind => did[c] = {}
    /\ \A i \in Nat : Cardinality(BatchOf(c, i)) <= IF call[c].blind THEN MaxRetryAttempts ELSE 1

BatchInserts(c) == call[c].op = "insert" => \A s \in did[c] : rows[s[2]] # "none"

BatchClean(c) == Entities!At(c, "raised") /\ ~call[c].blind /\ ~call[c].misfit => did[c] = {}

BatchReports(c) ==
    Entities!At(c, "returned") =>
       LET r == call[c]
           ok == {s[1] : s \in r.success}
       IN
             /\ r.success \subseteq did[c] /\ ok \cap r.failure = {}
             /\ IF r.first /\ r.failure # {}
                THEN \E i \in r.failure : r.failure = {i} /\ ok = 1 .. (i - 1)
                ELSE ok \cup r.failure = 1 .. r.size
             /\ ~r.blind => did[c] = r.success

BatchApart(c, d) ==
    call[c].op = "insert" /\ call[d].op = "insert" => {s[2] : s \in did[c]} \cap {s[2] : s \in did[d]} = {}

BatchCallInv(c) == BatchSized(c) /\ BatchCounted(c) /\ BatchInserts(c) /\ BatchClean(c) /\ BatchReports(c)
        /\ \A d \in Callers \ {c} : BatchApart(c, d)
BatchIInv == BatchTyped /\ \A c \in Callers : BatchCallInv(c)

-------------------------------------------------------------------------------
\* A request is done up to the first that is refused, or but for those that are.
LEMMA BatchDoneIs ==
    ASSUME NEW r \in BatchRecords
    PROVE  /\ Entities!Done(r) \subseteq 1 .. r.size /\ Entities!Failed(r) \subseteq 1 .. r.size
              /\ Entities!Done(r) \cap Entities!Failed(r) = {}
           /\ IF r.first /\ Entities!Failed(r) # {}
              THEN \E i \in Entities!Failed(r) : Entities!Failed(r) = {i} /\ Entities!Done(r) = 1 .. (i - 1)
              ELSE Entities!Done(r) \cup Entities!Failed(r) = 1 .. r.size
<1> DEFINE R == Entities!Refused(r)
<1>1. R \subseteq 1 .. r.size /\ r.size \in Nat
  BY DEF Entities!Refused, BatchRecords
<1>2. Entities!Reached(r) = {i \in 1 .. r.size : r.first => \A j \in R : i <= j}
  BY DEF Entities!Reached
<1>3. Entities!Done(r) = Entities!Reached(r) \ R /\ Entities!Failed(r) = Entities!Reached(r) \cap R
  BY DEF Entities!Done, Entities!Failed
<1> HIDE DEF R
<1>4. CASE r.first /\ Entities!Failed(r) # {}
  <2>1. PICK i \in Entities!Failed(r) : TRUE
    BY <1>4
  <2>2. i \in 1 .. r.size /\ i \in R /\ \A j \in R : i <= j
    BY <1>2, <1>3, <1>4
  <2>3. Entities!Failed(r) = {i}
    <3>1. ASSUME NEW j \in Entities!Failed(r) PROVE j = i
      <4>1. j \in R /\ j <= i /\ i <= j /\ j \in Nat /\ i \in Nat
        BY <1>1, <1>2, <1>3, <1>4, <2>2
      <4> QED BY <4>1
    <3> QED BY <2>1, <3>1
  <2>4. Entities!Done(r) = 1 .. (i - 1)
    <3>1. ASSUME NEW k \in Entities!Done(r) PROVE k \in 1 .. (i - 1)
      <4>1. k \in 1 .. r.size /\ k <= i /\ k # i
        BY <1>2, <1>3, <1>4, <2>2
      <4> QED BY <1>1, <2>2, <4>1
    <3>2. ASSUME NEW k \in 1 .. (i - 1) PROVE k \in Entities!Done(r)
      <4>1. k \in 1 .. r.size /\ k < i
        BY <1>1, <2>2
      <4>2. \A j \in R : k <= j /\ k # j
        BY <1>1, <2>2, <4>1
      <4> QED BY <1>2, <1>3, <4>1, <4>2
    <3> QED BY <3>1, <3>2
  <2> QED BY <1>1, <1>3, <1>4, <2>2, <2>3, <2>4
<1>5. CASE ~(r.first /\ Entities!Failed(r) # {})
  <2>1. Entities!Reached(r) = 1 .. r.size
    <3>1. CASE ~r.first
      BY <1>2, <3>1
    <3>2. CASE r.first
      <4>1. R = {}
        <5> SUFFICES ASSUME R # {} PROVE FALSE
          OBVIOUS
        <5>1. R \subseteq Nat
          BY <1>1
        <5>2. PICK m \in R : \A n \in R : m <= n
          BY <5>1, HasMin
        <5>3. m \in Entities!Failed(r)
          BY <1>1, <1>2, <1>3, <5>2
        <5> QED BY <1>5, <3>2, <5>3
      <4> QED BY <1>2, <4>1
    <3> QED BY <3>1, <3>2
  <2> QED BY <1>3, <1>5, <2>1
<1> QED BY <1>4, <1>5

LEMMA BatchTargetsFit ==
    ASSUME Entities!RecordsAssumption, BatchTyped, NEW c \in Callers, BatchSized(c), Entities!At(c, "ask"),
           NEW t \in Entities!Targets(call[c])
    PROVE  /\ t \in [Entities!Done(call[c]) -> Rows]
           /\ call[c].op = "insert" => \A i \in Entities!Done(call[c]) : rows[t[i]] = "none"
<1> DEFINE r == call[c]
           D == Entities!Done(r)
<1>1. r \in BatchRecords
  BY DEF BatchTyped
<1>2. D \subseteq 1 .. r.size
  BY <1>1, BatchDoneIs
<1>3. CASE r.op # "insert"
  <2>1. t = [i \in D |-> r.on[i]]
    BY <1>3 DEF Entities!Targets
  <2>2. r.on \in [1 .. r.size -> GivenRows]
    BY <1>1, <1>3 DEF BatchSized, BatchRecords
  <2> HIDE DEF D, r
  <2>3. t \in [D -> Rows]
    BY <1>2, <2>1, <2>2 DEF Entities!RecordsAssumption
  <2> QED BY <1>3, <2>3 DEF D, r
<1>4. CASE r.op = "insert"
  <2>1. t \in Entities!Undrawn(r)
    BY <1>4 DEF Entities!Targets
  <2> QED BY <2>1 DEF Entities!Undrawn
<1> QED BY <1>3, <1>4

LEMMA BatchTakesFor ==
    ASSUME Entities!RecordsAssumption, BatchTyped, NEW c \in Callers, BatchSized(c), Entities!At(c, "ask"),
           NEW t \in Entities!Targets(call[c]), Entities!Take(c, t)
    PROVE  LET S == {<<i, t[i]>> : i \in Entities!Done(call[c])} IN
           /\ did' = [did EXCEPT ![c] = @ \cup S] /\ S \subseteq Nat \X Rows
           /\ rows' \in [Rows -> {"none", "there", "gone"}]
           /\ \A x \in Rows : rows[x] # "none" => rows'[x] # "none"
           /\ \A s \in S : rows'[s[2]] # "none" /\ (call[c].op = "insert" => rows[s[2]] = "none")
<1> DEFINE r == call[c]
           D == Entities!Done(r)
           S == {<<i, t[i]>> : i \in D}
<1>1. r \in BatchRecords /\ r.size \in Nat
  BY DEF BatchTyped, BatchRecords
<1>2. D \subseteq 1 .. r.size
  BY <1>1, BatchDoneIs
<1>3. t \in [D -> Rows] /\ (r.op = "insert" => \A i \in D : rows[t[i]] = "none")
  BY BatchTargetsFit
<1>4. /\ rows' = [x \in Rows |-> IF \A i \in D : t[i] # x THEN rows[x]
                                ELSE IF r.op = "delete" THEN "gone" ELSE "there"]
      /\ did' = [did EXCEPT ![c] = @ \cup S]
  BY DEF Entities!Take
<1> HIDE DEF D, r
<1>5. S \subseteq Nat \X Rows
  <2>1. ASSUME NEW i \in D PROVE <<i, t[i]>> \in Nat \X Rows
    BY <1>1, <1>2, <1>3
  <2> QED BY <2>1
<1>6. rows' \in [Rows -> {"none", "there", "gone"}] /\ \A x \in Rows : rows[x] # "none" => rows'[x] # "none"
  BY <1>4 DEF BatchTyped
<1>7. ASSUME NEW s \in S PROVE rows'[s[2]] # "none" /\ (r.op = "insert" => rows[s[2]] = "none")
  <2>1. PICK i \in D : s = <<i, t[i]>>
    OBVIOUS
  <2>2. s[2] = t[i] /\ t[i] \in Rows
    BY <1>3, <2>1
  <2> QED BY <1>3, <1>4, <2>2
<1> QED BY <1>4, <1>5, <1>6, <1>7 DEF D, r

\* What the others rely on in a step of c.
LEMMA BatchOthersInv ==
    ASSUME BatchIInv, NEW c \in Callers, NEW d \in Callers, d # c, call'[d] = call[d], did'[d] = did[d],
           \A e \in Callers \ {c} : call'[e] = call[e] /\ did'[e] = did[e],
           \A x \in Rows : rows[x] # "none" => rows'[x] # "none", BatchApart(c, d)'
    PROVE  BatchCallInv(d)'
<1>1. BatchCallInv(d)
  BY DEF BatchIInv
<1>2. \A i : BatchOf(d, i)' = BatchOf(d, i)
  BY DEF BatchOf
<1>3. BatchSized(d)' /\ BatchClean(d)'
  BY <1>1 DEF BatchCallInv, BatchSized, BatchClean, Entities!At
<1>4. BatchCounted(d)'
  BY <1>1, <1>2 DEF BatchCallInv, BatchCounted, Entities!At
<1>5. BatchInserts(d)'
  BY <1>1 DEF BatchIInv, BatchTyped, BatchCallInv, BatchInserts
<1>6. BatchReports(d)'
  BY <1>1 DEF BatchCallInv, BatchReports, Entities!At
<1>7. ASSUME NEW e \in Callers \ {d} PROVE BatchApart(d, e)'
  <2>1. CASE e = c
    BY <2>1 DEF BatchApart
  <2>2. CASE e # c
    BY <1>1, <2>2 DEF BatchCallInv, BatchApart
  <2> QED BY <2>1, <2>2
<1> QED BY <1>3, <1>4, <1>5, <1>6, <1>7 DEF BatchCallInv

\* Every call begins with nothing done.
LEMMA BatchBeginsClean ==
    ASSUME Entities!RecordsAssumption, BatchIInv, NEW c \in Callers, Entities!Begin(c)
    PROVE  /\ call' = [call EXCEPT ![c] = call'[c]] /\ call'[c] \in BatchRecords /\ BatchSized(c)'
           /\ call'[c].pc \in {"ask", "raised"} /\ call'[c].tries = 1 /\ ~call'[c].blind
<1>1. Entities!NoCall \in BatchRecords
  <2>1. <<>> \in [1 .. 0 -> GivenRows] /\ 0 \in 0 .. BatchSize
    BY DEF Entities!RecordsAssumption
  <2>2. <<>> \in UNION {[1 .. n -> GivenRows] : n \in 0 .. BatchSize}
    BY <2>1
  <2> QED BY <2>2 DEF Entities!NoCall, BatchRecords
<1>2. \A n \in 1 .. BatchSize : 1 .. n \subseteq Nat /\ n \in Nat /\ n \in 0 .. BatchSize
  BY DEF Entities!RecordsAssumption
<1> DEFINE As(r) ==
      /\ call' = [call EXCEPT ![c] = r] /\ r \in BatchRecords /\ r.pc \in {"ask", "raised"} /\ r.tries = 1
         /\ ~r.blind
      /\ r.op # "none" /\ (r.op \in {"update", "delete"} => r.on \in [1 .. r.size -> GivenRows])
      /\ (~r.batch => r.size <= 1)
<1>3. ASSUME Entities!BeginInsert(c) PROVE \E r : As(r)
  <2>1. PICK n \in 1 .. BatchSize, batch \in BOOLEAN, first \in BOOLEAN, schema \in BOOLEAN :
              \E bad \in SUBSET (1 .. n) :
                 /\ ~batch => n = 1 /\ ~first /\ ~schema
                 /\ Entities!Becomes(c, [Entities!NoCall EXCEPT !.op = "insert", !.pc = "ask", !.batch = batch,
                                !.size = n, !.bad = bad, !.first = first, !.schema = schema])
    BY <1>3 DEF Entities!BeginInsert
  <2>2. PICK bad \in SUBSET (1 .. n) :
                 /\ ~batch => n = 1 /\ ~first /\ ~schema
                 /\ Entities!Becomes(c, [Entities!NoCall EXCEPT !.op = "insert", !.pc = "ask", !.batch = batch,
                                !.size = n, !.bad = bad, !.first = first, !.schema = schema])
    BY <2>1
  <2> DEFINE r == [Entities!NoCall EXCEPT !.op = "insert", !.pc = "ask", !.batch = batch, !.size = n,
                                 !.bad = bad, !.first = first, !.schema = schema]
  <2>3. r \in BatchRecords /\ r.tries = 1 /\ ~r.blind /\ r.pc = "ask" /\ r.op = "insert" /\ r.batch = batch
                              /\ r.size = n
    BY <1>1, <1>2 DEF BatchRecords, Entities!NoCall
  <2>4. call' = [call EXCEPT ![c] = r]
    BY <2>2 DEF Entities!Becomes
  <2> HIDE DEF r
  <2>5. As(r)
    BY <2>2, <2>3, <2>4
  <2> QED BY <2>5
<1>4. ASSUME Entities!BeginUpdate(c) PROVE \E r : As(r)
  <2>1. PICK n \in 1 .. BatchSize, batch \in BOOLEAN, first \in BOOLEAN, schema \in BOOLEAN :
              \E bad \in SUBSET (1 .. n), on \in [1 .. n -> GivenRows] :
                 /\ ~batch => n = 1 /\ ~first /\ ~schema
                 /\ \A i, j \in 1 .. n : on[i] = on[j] => i = j
                 /\ \E pc \in IF schema THEN {"ask", "raised"} ELSE {"ask"} :
                       Entities!Becomes(c, [Entities!NoCall EXCEPT !.op = "update", !.pc = pc, !.batch = batch,
                                !.size = n, !.on = on, !.bad = bad, !.first = first, !.schema = schema])
    BY <1>4 DEF Entities!BeginUpdate
  <2>2. PICK bad \in SUBSET (1 .. n), on \in [1 .. n -> GivenRows] :
                 /\ ~batch => n = 1 /\ ~first /\ ~schema
                 /\ \E pc \in IF schema THEN {"ask", "raised"} ELSE {"ask"} :
                       Entities!Becomes(c, [Entities!NoCall EXCEPT !.op = "update", !.pc = pc, !.batch = batch,
                                !.size = n, !.on = on, !.bad = bad, !.first = first, !.schema = schema])
    BY <2>1
  <2>3. PICK pc \in IF schema THEN {"ask", "raised"} ELSE {"ask"} :
                       Entities!Becomes(c, [Entities!NoCall EXCEPT !.op = "update", !.pc = pc, !.batch = batch,
                                !.size = n, !.on = on, !.bad = bad, !.first = first, !.schema = schema])
    BY <2>2
  <2> DEFINE r == [Entities!NoCall EXCEPT !.op = "update", !.pc = pc, !.batch = batch, !.size = n,
                                 !.on = on, !.bad = bad, !.first = first, !.schema = schema]
  <2>4. on \in UNION {[1 .. m -> GivenRows] : m \in 0 .. BatchSize} /\ pc \in {"ask", "raised"}
    BY <1>2
  <2>5. r \in BatchRecords /\ r.tries = 1 /\ ~r.blind /\ r.pc = pc /\ r.op = "update" /\ r.batch = batch
                              /\ r.size = n /\ r.on = on
    BY <1>1, <1>2, <2>4 DEF BatchRecords, Entities!NoCall
  <2>6. call' = [call EXCEPT ![c] = r]
    BY <2>3 DEF Entities!Becomes
  <2> HIDE DEF r
  <2>7. As(r)
    BY <2>2, <2>4, <2>5, <2>6
  <2> QED BY <2>7
<1>5. ASSUME Entities!BeginDelete(c) PROVE \E r : As(r)
  <2>1. PICK n \in 1 .. BatchSize, batch \in BOOLEAN, first \in BOOLEAN,
              on \in UNION {[1 .. m -> GivenRows] : m \in 1 .. BatchSize} :
                 /\ DOMAIN on = 1 .. n /\ (~batch => n = 1 /\ ~first)
                 /\ Entities!Becomes(c, [Entities!NoCall EXCEPT !.op = "delete", !.pc = "ask", !.batch = batch,
                                !.size = n, !.on = on, !.first = first])
    BY <1>5 DEF Entities!BeginDelete
  <2> DEFINE r == [Entities!NoCall EXCEPT !.op = "delete", !.pc = "ask", !.batch = batch, !.size = n,
                                 !.on = on, !.first = first]
  <2>2. on \in [1 .. n -> GivenRows] /\ on \in UNION {[1 .. m -> GivenRows] : m \in 0 .. BatchSize}
    <3>1. PICK m \in 1 .. BatchSize : on \in [1 .. m -> GivenRows]
      OBVIOUS
    <3> QED BY <1>2, <2>1, <3>1
  <2>3. r \in BatchRecords /\ r.tries = 1 /\ ~r.blind /\ r.pc = "ask" /\ r.op = "delete" /\ r.batch = batch
                              /\ r.size = n /\ r.on = on
    BY <1>1, <1>2, <2>2 DEF BatchRecords, Entities!NoCall
  <2>4. call' = [call EXCEPT ![c] = r]
    BY <2>1 DEF Entities!Becomes
  <2> HIDE DEF r
  <2>5. As(r)
    BY <2>1, <2>2, <2>3, <2>4
  <2> QED BY <2>5
<1>6. PICK r : As(r)
  BY <1>3, <1>4, <1>5 DEF Entities!Begin
<1>7. call'[c] = r
  BY <1>6 DEF BatchIInv, BatchTyped
<1>8. BatchSized(c)'
  BY <1>6, <1>7 DEF BatchSized, Entities!At
<1> QED BY <1>6, <1>7, <1>8

LEMMA BatchBeginInv ==
    ASSUME Entities!RecordsAssumption, BatchIInv, NEW c \in Callers, Entities!Begin(c)
    PROVE  BatchIInv'
<1>1. /\ call' = [call EXCEPT ![c] = call'[c]] /\ call'[c] \in BatchRecords /\ BatchSized(c)'
      /\ call'[c].pc \in {"ask", "raised"} /\ call'[c].tries = 1 /\ ~call'[c].blind
  BY BatchBeginsClean
<1>2. rows' = rows /\ did' = did /\ did[c] = {}
  BY DEF Entities!Begin, BatchIInv, BatchCallInv, BatchCounted
<1>3. BatchTyped'
  BY <1>1, <1>2 DEF BatchIInv, BatchTyped
<1>4. \A d \in Callers \ {c} : call'[d] = call[d]
  BY <1>1 DEF BatchIInv, BatchTyped
<1>5. \A i : BatchOf(c, i)' = {}
  BY <1>2 DEF BatchOf
<1>6. IsFiniteSet({}) /\ Cardinality({}) = 0 /\ MaxRetryAttempts \in Nat \ {0}
  BY FS_EmptySet, RequestAssumption
<1>7. BatchCounted(c)'
  <2>1. \A i \in Nat : IsFiniteSet(BatchOf(c, i)') /\ Cardinality(BatchOf(c, i)') = 0
    BY <1>5, <1>6
  <2> QED BY <1>1, <1>2, <1>6, <2>1 DEF BatchCounted, Entities!At
<1>8. BatchInserts(c)' /\ BatchClean(c)' /\ BatchReports(c)' /\ \A d \in Callers : BatchApart(c, d)'
  BY <1>1, <1>2 DEF BatchInserts, BatchClean, BatchReports, BatchApart, Entities!At
<1>9. ASSUME NEW d \in Callers PROVE BatchCallInv(d)'
  <2>1. CASE d = c
    BY <1>1, <1>7, <1>8, <2>1 DEF BatchCallInv
  <2>2. CASE d # c
    BY <1>2, <1>4, <1>8, <2>2, BatchOthersInv
  <2> QED BY <2>1, <2>2
<1> QED BY <1>3, <1>9 DEF BatchIInv

\* A call is answered for what was done; one that raises fits nothing, or had
\* nothing done.
LEMMA BatchAnswersAre ==
    ASSUME Entities!RecordsAssumption, BatchTyped, NEW c \in Callers, BatchSized(c), Entities!At(c, "ask"),
           NEW status \in Entities!Statuses(call[c]),
           NEW t \in Entities!Targets(call[c]), NEW r \in Entities!Answered(call[c], status, t)
    PROVE  /\ r \in BatchRecords /\ r.op = call[c].op /\ r.size = call[c].size /\ r.on = call[c].on
              /\ r.first = call[c].first
           /\ r.batch = call[c].batch /\ r.tries = call[c].tries /\ r.blind = call[c].blind
           /\ \/ /\ r.pc = "returned" /\ r.failure = Entities!Failed(call[c])
                 /\ r.success = {<<i, t[i]>> : i \in Entities!Done(call[c])}
              \/ r.pc = "raised" /\ (r.misfit \/ Entities!Done(call[c]) = {})
<1> DEFINE q == call[c]
           D == Entities!Done(q)
           F == Entities!Failed(q)
           S == {<<i, t[i]>> : i \in D}
<1>1. q \in BatchRecords /\ q.size \in Nat /\ (~q.batch => q.size <= 1)
  BY DEF BatchTyped, BatchRecords, BatchSized
<1>2. D \subseteq 1 .. q.size /\ F \subseteq 1 .. q.size /\ D \cap F = {}
  BY <1>1, BatchDoneIs
<1>3. t \in [D -> Rows]
  BY BatchTargetsFit
<1>4. F \in SUBSET Nat
  BY <1>1, <1>2
<1>5. S \subseteq Nat \X Rows
  <2>1. D \subseteq Nat
    BY <1>1, <1>2
  <2> HIDE DEF D, q
  <2>2. ASSUME NEW i \in D PROVE <<i, t[i]>> \in Nat \X Rows
    BY <1>3, <2>1
  <2> QED BY <2>2
<1>6. \/ r = [q EXCEPT !.pc = "returned", !.success = S, !.failure = F]
      \/ r = [q EXCEPT !.pc = "raised", !.misfit = TRUE]
      \/ r = [q EXCEPT !.pc = "raised"] /\ ~q.batch /\ F # {}
  <2>1. status = 200 \/ (status = 400 /\ F # {})
    BY DEF Entities!Statuses
  <2>2. CASE status = 200
    BY <2>2 DEF Entities!Answered, Entities!Response
  <2>3. CASE status = 400 /\ F # {}
    BY <2>3 DEF Entities!Answered, Entities!Response, Entities!Extracted
  <2> QED BY <2>1, <2>2, <2>3
<1>7. ~q.batch /\ F # {} => D = {}
  <2> SUFFICES ASSUME q.size <= 1, F # {}, NEW i \in D PROVE FALSE
    BY <1>1
  <2>1. PICK j \in F : TRUE
    OBVIOUS
  <2> HIDE DEF D, F, q
  <2>2. i \in 1 .. q.size /\ j \in 1 .. q.size
    BY <1>2, <2>1
  <2>3. i = 1 /\ j = 1
    BY <1>1, <2>2
  <2> QED BY <1>2, <2>1, <2>3
<1> HIDE DEF D, F, S, q
<1>8. CASE r = [q EXCEPT !.pc = "returned", !.success = S, !.failure = F]
  <2>1. r \in BatchRecords
    BY <1>1, <1>4, <1>5, <1>8 DEF BatchRecords
  <2>2. /\ r.op = q.op /\ r.size = q.size /\ r.on = q.on /\ r.batch = q.batch /\ r.tries = q.tries
           /\ r.blind = q.blind
        /\ r.pc = "returned" /\ r.success = S /\ r.failure = F /\ r.first = q.first
    BY <1>1, <1>8 DEF BatchRecords
  <2> QED BY <2>1, <2>2 DEF S, D, F, q
<1>9. CASE r = [q EXCEPT !.pc = "raised", !.misfit = TRUE]
  <2>1. /\ r \in BatchRecords /\ r.op = q.op /\ r.size = q.size /\ r.on = q.on /\ r.batch = q.batch
           /\ r.tries = q.tries
        /\ r.blind = q.blind /\ r.pc = "raised" /\ r.misfit /\ r.first = q.first
    BY <1>1, <1>9 DEF BatchRecords
  <2> QED BY <2>1 DEF q
<1>10. CASE r = [q EXCEPT !.pc = "raised"] /\ ~q.batch /\ F # {}
  <2>1. /\ r \in BatchRecords /\ r.op = q.op /\ r.size = q.size /\ r.on = q.on /\ r.batch = q.batch
           /\ r.tries = q.tries
        /\ r.blind = q.blind /\ r.pc = "raised" /\ r.first = q.first
    BY <1>1, <1>10 DEF BatchRecords
  <2> QED BY <1>7, <1>10, <2>1 DEF q, D
<1> QED BY <1>6, <1>8, <1>9, <1>10

LEMMA BatchAskInv ==
    ASSUME Entities!RecordsAssumption, BatchIInv, NEW c \in Callers, Entities!Ask(c)
    PROVE  BatchIInv'
<1> DEFINE q == call[c]
<1>1. PICK a \in Entities!Attempts, status \in Entities!Statuses(q), t \in Entities!Targets(q) :
            \E r \in Entities!Answered(q, status, t) :
               /\ IF a.applied THEN Entities!Take(c, t) ELSE UNCHANGED <<rows, did>>
               /\ Entities!Becomes(c, Entities!Tried(q, a, r))
  BY DEF Entities!Ask
<1>2. PICK r \in Entities!Answered(q, status, t) :
            /\ IF a.applied THEN Entities!Take(c, t) ELSE UNCHANGED <<rows, did>>
            /\ Entities!Becomes(c, Entities!Tried(q, a, r))
  BY <1>1
<1>3. /\ q \in BatchRecords /\ q.pc = "ask" /\ q.tries \in Nat /\ q.tries <= MaxRetryAttempts /\ BatchTyped
         /\ BatchSized(c)
      /\ BatchCounted(c) /\ BatchInserts(c) /\ (~q.blind => did[c] = {}) /\ MaxRetryAttempts \in Nat \ {0}
         /\ Entities!At(c, "ask")
  BY RequestAssumption
     DEF Entities!Ask, BatchIInv, BatchCallInv, BatchCounted, Entities!At, BatchTyped, BatchRecords
<1>4. /\ r \in BatchRecords /\ r.op = q.op /\ r.size = q.size /\ r.on = q.on /\ r.first = q.first
      /\ r.batch = q.batch /\ r.tries = q.tries /\ r.blind = q.blind
      /\ \/ /\ r.pc = "returned" /\ r.failure = Entities!Failed(q)
            /\ r.success = {<<i, t[i]>> : i \in Entities!Done(q)}
         \/ r.pc = "raised" /\ (r.misfit \/ Entities!Done(q) = {})
  BY <1>3, BatchAnswersAre
<1> DEFINE D == IF a.applied THEN Entities!Done(q) ELSE {}
           S == {<<i, t[i]>> : i \in D}
<1>5. t \in [Entities!Done(q) -> Rows]
  BY <1>3, BatchTargetsFit
<1>6. /\ did' = [did EXCEPT ![c] = @ \cup S] /\ S \subseteq Nat \X Rows
      /\ rows' \in [Rows -> {"none", "there", "gone"}]
      /\ \A x \in Rows : rows[x] # "none" => rows'[x] # "none"
      /\ \A s \in S : rows'[s[2]] # "none" /\ (q.op = "insert" => rows[s[2]] = "none")
  <2>1. CASE a.applied
    BY <1>2, <1>3, <2>1, BatchTakesFor
  <2>2. CASE ~a.applied
    BY <1>2, <1>3, <2>2 DEF BatchTyped
  <2> QED BY <2>1, <2>2
<1>7. /\ a.applied \in BOOLEAN /\ a.seen \in {"answer", "transient", "fatal"}
         /\ (a.seen = "answer" => a.applied)
  BY DEF Entities!Attempts
<1>8. call'[c] = Entities!Tried(q, a, r) /\ call' = [call EXCEPT ![c] = Entities!Tried(q, a, r)]
  BY <1>2, <1>3 DEF Entities!Becomes, BatchTyped
<1> DEFINE z == call'[c]
<1>9. /\ z \in BatchRecords /\ z.op = q.op /\ z.size = q.size /\ z.on = q.on /\ z.batch = q.batch
         /\ z.first = q.first
      /\ \/ a.seen = "answer" /\ z = r
         \/ /\ a.seen # "answer" /\ (z.blind <=> q.blind \/ a.applied)
            /\ \/ z.pc = "ask" /\ q.tries < MaxRetryAttempts /\ z.tries = q.tries + 1
               \/ z.pc = "raised"
  <2>1. CASE a.seen = "answer"
    BY <1>4, <1>8, <2>1 DEF Entities!Tried
  <2>2. CASE a.seen # "answer" /\ Entities!Retries(a, q.tries)
    <3>1. z = [q EXCEPT !.pc = "ask", !.tries = q.tries + 1, !.blind = q.blind \/ Entities!Unanswered(a)]
      BY <1>3, <1>8, <2>2 DEF Entities!Tried
    <3>2. Entities!Unanswered(a) <=> a.applied
      BY <2>2 DEF Entities!Unanswered
    <3>3. q.tries < MaxRetryAttempts
      BY <2>2 DEF Entities!Retries
    <3>4. (q.blind \/ Entities!Unanswered(a)) \in BOOLEAN
      OBVIOUS
    <3> HIDE DEF q, z
    <3>5. z \in BatchRecords /\ z.op = q.op /\ z.size = q.size /\ z.on = q.on /\ z.batch = q.batch
                                /\ z.first = q.first
      <4>1. q.tries + 1 \in Nat
        BY <1>3
      <4> DEFINE n == q.tries + 1
                 b == q.blind \/ Entities!Unanswered(a)
      <4>2. z = [q EXCEPT !.pc = "ask", !.tries = n, !.blind = b] /\ n \in Nat /\ b \in BOOLEAN
        BY <3>1, <3>4, <4>1
      <4> HIDE DEF n, b
      <4> QED BY <1>3, <4>2 DEF BatchRecords
    <3>6. z.pc = "ask" /\ z.tries = q.tries + 1 /\ z.blind = (q.blind \/ Entities!Unanswered(a))
      BY <1>3, <3>1 DEF BatchRecords
    <3> QED BY <2>2, <3>2, <3>3, <3>5, <3>6
  <2>3. CASE a.seen # "answer" /\ ~Entities!Retries(a, q.tries)
    <3>1. z = [q EXCEPT !.pc = "raised", !.tries = q.tries, !.blind = q.blind \/ Entities!Unanswered(a)]
      BY <1>3, <1>8, <2>3 DEF Entities!Tried
    <3>2. Entities!Unanswered(a) <=> a.applied
      BY <2>3 DEF Entities!Unanswered
    <3>4. (q.blind \/ Entities!Unanswered(a)) \in BOOLEAN
      OBVIOUS
    <3> HIDE DEF q, z
    <3>5. z \in BatchRecords /\ z.op = q.op /\ z.size = q.size /\ z.on = q.on /\ z.batch = q.batch
                                /\ z.first = q.first
      BY <1>3, <3>1, <3>4 DEF BatchRecords
    <3>6. z.pc = "raised" /\ z.blind = (q.blind \/ Entities!Unanswered(a))
      BY <1>3, <3>1 DEF BatchRecords
    <3> QED BY <2>3, <3>2, <3>5, <3>6
  <2> QED BY <2>1, <2>2, <2>3
<1>10. did'[c] = did[c] \cup S /\ (\A d \in Callers \ {c} : call'[d] = call[d] /\ did'[d] = did[d])
  BY <1>3, <1>6, <1>8 DEF BatchTyped
<1>11. BatchTyped'
  <2>1. z \in BatchRecords
    BY <1>9
  <2>2. did' \in [Callers -> SUBSET (Nat \X Rows)]
    BY <1>3, <1>6 DEF BatchTyped
  <2> HIDE DEF z
  <2>3. call' \in [Callers -> BatchRecords]
    BY <1>3, <1>8, <2>1 DEF BatchTyped, z
  <2> QED BY <1>6, <2>2, <2>3 DEF BatchTyped
<1>12. BatchSized(c)'
  BY <1>3, <1>4, <1>9, <1>7 DEF BatchSized, Entities!At
<1>13. \A i \in Nat :
      /\ IsFiniteSet(BatchOf(c, i)') /\ Cardinality(BatchOf(c, i)) \in Nat
         /\ Cardinality(BatchOf(c, i)') \in Nat
      /\ Cardinality(BatchOf(c, i)') <= Cardinality(BatchOf(c, i)) + 1
  <2> SUFFICES ASSUME NEW i \in Nat
               PROVE  /\ IsFiniteSet(BatchOf(c, i)') /\ Cardinality(BatchOf(c, i)) \in Nat
                         /\ Cardinality(BatchOf(c, i)') \in Nat
                      /\ Cardinality(BatchOf(c, i)') <= Cardinality(BatchOf(c, i)) + 1
    OBVIOUS
  <2>1. CASE i \in D
    <3>1. BatchOf(c, i)' = BatchOf(c, i) \cup {<<i, t[i]>>}
      BY <1>10, <2>1 DEF BatchOf
    <3> HIDE DEF D, S
    <3> QED BY <1>3, <3>1, OnceMore DEF BatchCounted
  <2>2. CASE i \notin D
    <3>1. BatchOf(c, i)' = BatchOf(c, i)
      BY <1>10, <2>2 DEF BatchOf
    <3> HIDE DEF D, S
    <3> QED BY <1>3, <3>1, OnceMore DEF BatchCounted
  <2> QED BY <2>1, <2>2
<1>14. \A i \in Nat : Cardinality(BatchOf(c, i)) < q.tries
  BY <1>3 DEF BatchCounted, BatchOf
<1>15. did[c] = {} => \A i \in Nat : Cardinality(BatchOf(c, i)) = 0
  <2>1. did[c] = {} => \A i \in Nat : BatchOf(c, i) = {}
    BY DEF BatchOf
  <2> QED BY <2>1, FS_EmptySet
<1>16. ~a.applied => did'[c] = did[c]
  BY <1>10
<1>17. BatchCounted(c)'
  <2> HIDE DEF D, S, z, q
  <2>1. z.pc # "idle"
    BY <1>4, <1>9
  <2>2. z.pc = "ask" =>
        /\ z.tries <= MaxRetryAttempts /\ \A i \in Nat : Cardinality(BatchOf(c, i)') < z.tries
        /\ ~z.blind => did'[c] = {}
    <3> SUFFICES ASSUME z.pc = "ask"
                 PROVE  /\ z.tries <= MaxRetryAttempts /\ \A i \in Nat : Cardinality(BatchOf(c, i)') < z.tries
                        /\ ~z.blind => did'[c] = {}
      OBVIOUS
    <3>1. z.tries = q.tries + 1 /\ q.tries < MaxRetryAttempts /\ (z.blind <=> q.blind \/ a.applied)
      BY <1>4, <1>9
    <3>2. \A i \in Nat : Cardinality(BatchOf(c, i)') < z.tries
      BY <1>3, <1>13, <1>14, <3>1
    <3> QED BY <1>3, <1>16, <3>1, <3>2
  <2>3. ASSUME NEW i \in Nat PROVE Cardinality(BatchOf(c, i)') <= IF z.blind THEN MaxRetryAttempts ELSE 1
    <3>1. Cardinality(BatchOf(c, i)') <= Cardinality(BatchOf(c, i)) + 1 /\ Cardinality(BatchOf(c, i)) < q.tries
          /\ Cardinality(BatchOf(c, i)') \in Nat /\ Cardinality(BatchOf(c, i)) \in Nat
      BY <1>13, <1>14
    <3>2. CASE z.blind
      BY <1>3, <3>1, <3>2
    <3>3. CASE ~z.blind
      <4>1. ~q.blind
        BY <1>4, <1>9, <3>3
      <4>2. Cardinality(BatchOf(c, i)) = 0
        BY <1>3, <1>15, <4>1
      <4> QED BY <3>1, <3>3, <4>2
    <3> QED BY <3>2, <3>3
  <2> QED BY <1>13, <2>1, <2>2, <2>3 DEF BatchCounted, Entities!At, z
<1>18. BatchInserts(c)'
  <2> HIDE DEF D, S, q
  <2> SUFFICES ASSUME z.op = "insert", NEW s \in did'[c] PROVE rows'[s[2]] # "none"
    BY DEF BatchInserts
  <2>1. CASE s \in S
    BY <1>6, <2>1
  <2>2. CASE s \in did[c]
    <3>1. rows[s[2]] # "none" /\ s[2] \in Rows
      BY <1>3, <1>9, <2>2 DEF BatchInserts, BatchTyped, q
    <3> QED BY <1>6, <3>1
  <2> QED BY <1>10, <2>1, <2>2
<1>19. BatchClean(c)'
  <2> HIDE DEF q
  <2> SUFFICES ASSUME z.pc = "raised", ~z.blind, ~z.misfit PROVE did'[c] = {}
    BY DEF BatchClean, Entities!At
  <2>1. CASE a.seen = "answer"
    <3>1. z = r /\ Entities!Done(q) = {} /\ ~q.blind
      BY <1>4, <1>9, <2>1
    <3> QED BY <1>3, <1>10, <3>1
  <2>2. CASE a.seen # "answer"
    <3>1. ~q.blind /\ ~a.applied
      BY <1>9, <2>2
    <3> QED BY <1>3, <1>16, <3>1
  <2> QED BY <2>1, <2>2
<1>20. BatchReports(c)'
  <2> SUFFICES ASSUME z.pc = "returned" PROVE BatchReports(c)'
    BY DEF BatchReports, Entities!At
  <2>1. z = r /\ a.applied /\ D = Entities!Done(q)
    BY <1>7, <1>9
  <2>2. z.failure = Entities!Failed(q) /\ z.success = S /\ z.blind = q.blind /\ z.first = q.first
          /\ z.size = q.size
    BY <1>4, <2>1
  <2>3. {s[1] : s \in S} = D
    <3>1. \A i \in D : <<i, t[i]>> \in S
      OBVIOUS
    <3>2. \A s \in S : \E i \in D : s = <<i, t[i]>>
      OBVIOUS
    <3> HIDE DEF S, D
    <3>3. D \subseteq {s[1] : s \in S}
      <4> SUFFICES ASSUME NEW i \in D PROVE \E s \in S : s[1] = i
        OBVIOUS
      <4>1. <<i, t[i]>> \in S
        BY <3>1
      <4> QED BY <4>1
    <3> QED BY <3>2, <3>3
  <2>4. /\ Entities!Done(q) \cap Entities!Failed(q) = {}
        /\ IF q.first /\ Entities!Failed(q) # {}
           THEN \E i \in Entities!Failed(q) : Entities!Failed(q) = {i} /\ Entities!Done(q) = 1 .. (i - 1)
           ELSE Entities!Done(q) \cup Entities!Failed(q) = 1 .. q.size
    BY <1>3, BatchDoneIs
  <2>5. S \subseteq did'[c] /\ (~z.blind => did'[c] = S)
    BY <1>3, <1>10, <2>2
  <2> HIDE DEF D, S, q
  <2>6. LET ok == {s[1] : s \in z.success} IN
        /\ z.success \subseteq did'[c] /\ ok \cap z.failure = {}
        /\ IF z.first /\ z.failure # {}
           THEN \E i \in z.failure : z.failure = {i} /\ ok = 1 .. (i - 1)
           ELSE ok \cup z.failure = 1 .. z.size
        /\ ~z.blind => did'[c] = z.success
    BY <2>1, <2>2, <2>3, <2>4, <2>5
  <2> QED BY <2>6 DEF BatchReports
<1>21. ASSUME NEW d \in Callers \ {c} PROVE BatchApart(c, d)'
  <2> HIDE DEF D, S, q, z
  <2> SUFFICES ASSUME z.op = "insert", call[d].op = "insert",
                      NEW s \in did'[c], NEW u \in did[d], s[2] = u[2]
               PROVE  FALSE
    BY <1>10 DEF BatchApart, z
  <2>1. BatchCallInv(d) /\ BatchApart(c, d)
    BY DEF BatchIInv, BatchCallInv
  <2>2. rows[u[2]] # "none"
    BY <2>1 DEF BatchCallInv, BatchInserts
  <2>3. CASE s \in S
    BY <1>6, <1>9, <2>2, <2>3
  <2>4. CASE s \in did[c]
    BY <1>9, <2>1, <2>4 DEF BatchApart, q
  <2> QED BY <1>10, <2>3, <2>4
<1>22. ASSUME NEW d \in Callers PROVE BatchCallInv(d)'
  <2>1. CASE d = c
    BY <1>12, <1>17, <1>18, <1>19, <1>20, <1>21, <2>1 DEF BatchCallInv
  <2>2. CASE d # c
    <3> HIDE DEF D, S, q, z
    <3> QED BY <1>6, <1>10, <1>21, <2>2, BatchOthersInv
  <2> QED BY <2>1, <2>2
<1> QED BY <1>11, <1>22 DEF BatchIInv

LEMMA BatchStarts ==
    ASSUME Entities!RecordsAssumption, Entities!Init
    PROVE  BatchIInv
<1>1. Entities!NoCall \in BatchRecords
  <2>1. <<>> \in [1 .. 0 -> GivenRows] /\ 0 \in 0 .. BatchSize
    BY DEF Entities!RecordsAssumption
  <2>2. <<>> \in UNION {[1 .. n -> GivenRows] : n \in 0 .. BatchSize}
    BY <2>1
  <2> QED BY <2>2 DEF Entities!NoCall, BatchRecords
<1>2. BatchTyped
  BY <1>1 DEF Entities!Init, BatchTyped
<1>3. \A c \in Callers : call[c] = Entities!NoCall /\ did[c] = {}
  BY DEF Entities!Init
<1>4. IsFiniteSet({}) /\ Cardinality({}) = 0 /\ MaxRetryAttempts \in Nat \ {0}
  BY FS_EmptySet, RequestAssumption
<1>5. ASSUME NEW c \in Callers PROVE BatchCallInv(c)
  <2>1. \A i \in Nat : BatchOf(c, i) = {}
    BY <1>3 DEF BatchOf
  <2>2. BatchCounted(c)
    <3>1. \A i \in Nat : IsFiniteSet(BatchOf(c, i)) /\ Cardinality(BatchOf(c, i)) = 0
      BY <1>4, <2>1
    <3> QED BY <1>3, <1>4, <3>1 DEF BatchCounted, Entities!At, Entities!NoCall
  <2>3. BatchSized(c) /\ BatchInserts(c) /\ BatchClean(c) /\ BatchReports(c)
    BY <1>3 DEF BatchSized, BatchInserts, BatchClean, BatchReports, Entities!At, Entities!NoCall
  <2>4. \A d \in Callers : BatchApart(c, d)
    BY <1>3 DEF BatchApart, Entities!NoCall
  <2> QED BY <2>2, <2>3, <2>4 DEF BatchCallInv
<1> QED BY <1>2, <1>5 DEF BatchIInv

LEMMA BatchSteps ==
    ASSUME Entities!RecordsAssumption, BatchIInv, [Entities!Next]_(Entities!vars)
    PROVE  BatchIInv'
<1>1. CASE UNCHANGED Entities!vars
  <2>1. \A c, i : BatchOf(c, i)' = BatchOf(c, i)
    BY <1>1 DEF Entities!vars, BatchOf
  <2>2. ASSUME NEW c \in Callers PROVE BatchCallInv(c)'
    <3>1. BatchCallInv(c)
      BY DEF BatchIInv
    <3>2. BatchCounted(c)'
      BY <1>1, <2>1, <3>1 DEF Entities!vars, BatchCallInv, BatchCounted, Entities!At
    <3>3. BatchSized(c)' /\ BatchInserts(c)' /\ BatchClean(c)'
      BY <1>1, <3>1 DEF Entities!vars, BatchCallInv, BatchSized, BatchInserts, BatchClean, Entities!At
    <3>4. BatchReports(c)'
      BY <1>1, <3>1 DEF Entities!vars, BatchCallInv, BatchReports, Entities!At
    <3>5. \A d \in Callers \ {c} : BatchApart(c, d)'
      BY <1>1, <3>1 DEF Entities!vars, BatchCallInv, BatchApart
    <3> QED BY <3>2, <3>3, <3>4, <3>5 DEF BatchCallInv
  <2> QED BY <1>1, <2>2 DEF BatchIInv, BatchTyped, Entities!vars
<1>2. CASE Entities!Next
  BY <1>2, BatchBeginInv, BatchAskInv DEF Entities!Next
<1> QED BY <1>1, <1>2

LEMMA BatchKept ==
    ASSUME Entities!RecordsAssumption, BatchIInv
    PROVE  Entities!RaisedIsClean /\ Entities!ReportIsTrue /\ Entities!ChangedOnce
<1>1. Entities!RaisedIsClean
  BY DEF BatchIInv, BatchCallInv, BatchClean, Entities!RaisedIsClean
<1>2. Entities!ReportIsTrue
  BY DEF BatchIInv, BatchCallInv, BatchReports, Entities!ReportIsTrue
<1>3. Entities!ChangedOnce
  <2> SUFFICES ASSUME NEW c \in Callers
               PROVE  /\ \A i \in 1 .. call[c].size :
                            Cardinality({s \in did[c] : s[1] = i}) <= IF call[c].blind THEN MaxRetryAttempts ELSE 1
                      /\ call[c].op = "insert" => \A d \in Callers \ {c} :
                            call[d].op = "insert" => {s[2] : s \in did[c]} \cap {s[2] : s \in did[d]} = {}
    BY BatchCardinality DEF Entities!ChangedOnce
  <2>1. call[c].size \in Nat /\ BatchCallInv(c)
    BY DEF BatchIInv, BatchTyped, BatchRecords
  <2>2. \A i \in Nat : Cardinality({s \in did[c] : s[1] = i}) <= IF call[c].blind THEN MaxRetryAttempts ELSE 1
    BY <2>1 DEF BatchCallInv, BatchCounted, BatchOf
  <2>3. \A i \in 1 .. call[c].size : i \in Nat
    BY <2>1
  <2>4. \A d \in Callers \ {c} : BatchApart(c, d)
    BY <2>1 DEF BatchCallInv
  <2> QED BY <2>2, <2>3, <2>4 DEF BatchApart
<1> QED BY <1>1, <1>2, <1>3

\* A call has only its own job, items or transaction made, stopped or asked to
\* stop, paid or completed, and only once unless an answer was lost; a call on
\* records that raises has changed nothing, a batch says of each of its records
\* what became of it, and each is changed once, but for the reasons the models
\* name, for any calls, ids, rows, batches and attempts (_processes_service.py
\* invoke, _jobs_service.py stop and resume, _queues_service.py create_items and
\* complete_transaction_item;
\* _entity_data_service.py insert_records, _request_or_extract_batch).
THEOREM ChangesAlwaysKept == Spec => []ChangesKept
<1> DEFINE Inv == (service = "works" => WorkIInv) /\ (service = "entities" => BatchIInv)
<1>1. Works!WorkAssumption /\ Entities!RecordsAssumption
  BY ServicesAssumption
<1>2. Init => Inv
  BY <1>1, WorkStarts, BatchStarts DEF Init
<1>3. Inv /\ [Next]_vars => Inv'
  BY <1>1, OneService, WorkSteps, BatchSteps
<1>4. Inv => ChangesKept
  BY <1>1, WorkKept, BatchKept DEF ChangesKept
<1> HIDE DEF Inv
<1> QED BY <1>2, <1>3, <1>4, PTL DEF Spec

-------------------------------------------------------------------------------
(***************************************************************************)
(* Guardrails, for any guardrails, functions, values and rules.            *)
(*                                                                         *)
(* The argument: what a guardrail makes of the arguments depends on them   *)
(* and on its action alone, so bad ones that reach the function were passed*)
(* on by every layer (RailPassed), and a bad value that is on its way out  *)
(* by every layer behind it (RailLeft).  Who has been asked is a matter of *)
(* how far the call is (RailInTurn): before the function the layers already*)
(* entered, after it those already left.  A rule sees the same fields of   *)
(* the input before the call as after it, and one more rule only has to be *)
(* violated too (RailOneMoreRule).                                         *)
(***************************************************************************)
\* A set has as many elements there as here.
LEMMA RailCardinalityIs ==
    /\ \A S : Rails!Cardinality(S) = Cardinality(S)
    /\ \A S : Rails!IsFiniteSet(S) <=> IsFiniteSet(S)
<1>1. \A S : Rails!IsFiniteSet(S) <=> IsFiniteSet(S)
  BY DEF Rails!IsFiniteSet, IsFiniteSet
<1>2. \A S : Rails!Cardinality(S) = Cardinality(S)
  BY DEF Rails!Cardinality, Cardinality, Rails!IsFiniteSet, IsFiniteSet
<1> QED BY <1>1, <1>2

RailContained == {"clean", "bad", "redacted"}
RailFunction ==
    /\ guarded.guards \in Seq(Guards) /\ guarded.params \in Signatures
    /\ guarded.given \in [guarded.params \cup Excluded -> RailContained]
RailArgumentSets == [guarded.params \cup Excluded -> RailContained]
RailValues ==
    [at : {"entering", "leaving", "checking", "blocked", "raised"}, layer : Nat,
     kind : Rails!Kinds \cup {"none"}, data : RailContained, by : SUBSET Nat]

RailN == Len(guarded.guards)
RailAtEntry == returned.at = "entering" \/ (returned.at = "blocked" /\ returned.kind = "none")

\* Where a call stands.
RailShaped ==
    /\ RailFunction /\ returned \in RailValues
    /\ bound \in Seq(RailArgumentSets) /\ asked \in Seq(Nat \X {"pre", "post"})
    /\ Len(bound) <= RailN /\ returned.layer <= RailN
    /\ RailAtEntry => returned.by = {}
    /\ returned.at = "entering" => returned.kind = "none"
    /\ ~RailAtEntry => Len(bound) = RailN
    /\ returned.at \in {"leaving", "checking"} => returned.kind # "none"
    /\ returned.at = "checking" \/ (returned.at = "blocked" /\ returned.kind # "none") => returned.layer # 0

\* What the arguments are at each layer.
RailPassed ==
    /\ \A l \in 0 .. Len(bound) :
          /\ guarded.resolved => \A p \in Excluded : Rails!Arguments(l)[p] = guarded.given[p]
          /\ Rails!Cardinality(Rails!Collected) > 1 =>
                \A p \in Rails!Collected : guarded.given[p] = "clean" => Rails!Arguments(l)[p] = "clean"
    /\ \A k, l \in 0 .. Len(bound) : k <= l /\ Rails!Bad(Rails!Arguments(l)) => Rails!Bad(Rails!Arguments(k))
    /\ \A i \in 1 .. Len(bound) : Rails!Of("pre", guarded.guards[i]) /\ Rails!Bad(bound[i]) =>
          \/ guarded.guards[i].check # "rule" \/ guarded.guards[i].action = "log"
          \/ guarded.guards[i].action = "text" /\ Rails!Cardinality(Rails!Collected) > 1

\* What is left of the value once a layer is behind it.
RailLeft ==
    returned.at \in {"leaving", "checking"} /\ returned.data = "bad" =>
       /\ returned.kind # "adapted"
       /\ \A i \in returned.layer + 1 .. RailN :
             Rails!Of("post", guarded.guards[i]) /\ guarded.guards[i].action # "log" =>
                /\ guarded.guards[i].check # "rule"
                /\ guarded.guards[i].check = "pair" => ~Rails!Bad(Rails!Arguments(i))

\* Who has been asked.
RailBefore(m) == {<<i, "pre">> : i \in {j \in 1 .. m : Rails!Of("pre", guarded.guards[j])}}
RailAfter(m) == {<<i, "post">> : i \in {j \in m + 1 .. RailN : Rails!Of("post", guarded.guards[j])}}
RailLastBefore == IF returned.at = "blocked" /\ returned.kind = "none" THEN Len(bound) + 1 ELSE Len(bound)
RailLastAfter ==
    CASE returned.at \in {"leaving", "checking"} -> returned.layer
      [] returned.at = "blocked" /\ returned.kind # "none" -> returned.layer - 1
      [] OTHER -> RailN
RailInTurn ==
    /\ RailLastBefore <= RailN
    /\ \A k, l \in DOMAIN asked : k < l => Rails!Earlier(asked[k], asked[l])
    /\ Rails!Asked \subseteq RailBefore(RailLastBefore) \cup RailAfter(RailLastAfter)
    /\ returned.by = {} => Rails!Asked = RailBefore(RailLastBefore) \cup RailAfter(RailLastAfter)
    /\ returned.at = "leaving" /\ returned.kind = "adapted" => returned.by = returned.layer + 1 .. RailN
    /\ returned.at = "checking" /\ returned.kind = "adapted" => returned.by = returned.layer .. RailN
    /\ returned.at \in {"leaving", "checking"}
       /\ returned.kind = "adapted" => \A a \in Rails!Asked : a[2] = "pre"

RailCallInv == RailShaped /\ RailPassed /\ RailLeft /\ RailInTurn

\* What a guardrail of rules has answered.
RailRuleInv ==
    /\ ruled.phase \in {"unasked", "pre", "post"}
    /\ ruled.phase \in {"pre", "post"} =>
          /\ ruled.rules \in Seq(Rails!Rules) /\ ruled.input \in Rails!DataOf(InFields)
    /\ ruled.phase = "pre" => ruled.failed = Rails!FailsPre(ruled.rules, ruled.input)
    /\ ruled.phase = "post" =>
          /\ ruled.output \in Rails!DataOf(OutFields) /\ ~Rails!FailsPre(ruled.rules, ruled.input)
          /\ ruled.failed = Rails!FailsPost(ruled.rules, ruled.input, ruled.output)

RailIInv ==
    \/ ruled = Rails!NoRules /\ RailCallInv
    \/ guarded = [guards |-> <<>>] /\ asked = <<>> /\ returned = [Rails!Entering EXCEPT !.at = "never"]
            /\ RailRuleInv

-------------------------------------------------------------------------------
LEMMA RailUpTo == ASSUME NEW S, NEW n \in Nat PROVE Rails!SeqsUpTo(S, n) \subseteq Seq(S)
  BY DEF Rails!SeqsUpTo

\* What a function is decorated with.
LEMMA RailCollectedIs ==
    ASSUME Rails!GuardrailsAssumption, RailFunction
    PROVE  /\ Rails!Collected \subseteq guarded.params \cup Excluded
           /\ guarded.resolved => Rails!Collected \cap Excluded = {}
           /\ Rails!Cardinality(Rails!Collected) # 1 => Rails!Cardinality(Rails!Collected) > 1
<1>1. IsFiniteSet(Rails!Collected) /\ Rails!Collected # {}
  <2>1. IsFiniteSet(guarded.params) /\ IsFiniteSet(Excluded)
    BY RailCardinalityIs DEF Rails!GuardrailsAssumption, RailFunction
  <2> QED BY <2>1, FS_Union DEF Rails!GuardrailsAssumption, RailFunction, Rails!Collected
<1>2. Cardinality(Rails!Collected) \in Nat /\ Cardinality(Rails!Collected) # 0
  BY <1>1, FS_CardinalityType, FS_EmptySet
<1> QED BY <1>2, RailCardinalityIs DEF Rails!GuardrailsAssumption, RailFunction, Rails!Collected

LEMMA RailGuardIs ==
    ASSUME Rails!GuardrailsAssumption, RailFunction, NEW i \in 1 .. RailN
    PROVE  /\ guarded.guards[i] \in Guards /\ guarded.guards[i].check \in Rails!Checks
           /\ guarded.guards[i].stage \in Rails!Stages /\ guarded.guards[i].action \in Rails!Actions
<1>1. guarded.guards[i] \in Guards
  BY DEF RailFunction, RailN
<1> QED BY <1>1 DEF Rails!GuardrailsAssumption

\* What an action makes of arguments.
LEMMA RailModifiedIs ==
    ASSUME Rails!GuardrailsAssumption, RailFunction, NEW args \in RailArgumentSets, NEW action \in Rails!Actions
    PROVE  /\ Rails!Modified(action, args) \in RailArgumentSets
           /\ guarded.resolved => \A p \in Excluded : Rails!Modified(action, args)[p] = args[p]
           /\ Rails!Cardinality(Rails!Collected) > 1 =>
                 \A p \in Rails!Collected : args[p] = "clean" => Rails!Modified(action, args)[p] = "clean"
           /\ Rails!Bad(Rails!Modified(action, args)) => Rails!Bad(args)
           /\ action = "redact" => ~Rails!Bad(Rails!Modified(action, args))
           /\ action = "text"
              /\ ~(Rails!Cardinality(Rails!Collected) > 1) => ~Rails!Bad(Rails!Modified(action, args))
<1> USE DEF RailArgumentSets, RailContained, Rails!Redacted
<1>c. /\ Rails!Collected \subseteq guarded.params \cup Excluded
      /\ (guarded.resolved => Rails!Collected \cap Excluded = {})
      /\ (Rails!Cardinality(Rails!Collected) # 1 => Rails!Cardinality(Rails!Collected) > 1)
  BY RailCollectedIs
<1>1. CASE action = "redact"
  <2>1. Rails!Modified(action, args)
            = [p \in DOMAIN args |-> IF p \in Rails!Collected THEN Rails!Redacted(args[p]) ELSE args[p]]
    BY <1>1 DEF Rails!Modified
  <2> QED BY <1>1, <1>c, <2>1 DEF Rails!Bad
<1>2. CASE action = "text"
  <2>1. Rails!Modified(action, args) = Rails!TextFor(args)
    BY <1>2 DEF Rails!Modified
  <2>2. CASE Rails!Cardinality(Rails!Collected) = 1
    <3>1. Rails!TextFor(args) = [p \in DOMAIN args |-> IF p \in Rails!Collected THEN "redacted" ELSE args[p]]
      BY <2>2 DEF Rails!TextFor
    <3> QED BY <1>2, <1>c, <2>1, <2>2, <3>1 DEF Rails!Bad
  <2>3. CASE Rails!Cardinality(Rails!Collected) # 1
    BY <1>2, <1>c, <2>1, <2>3 DEF Rails!TextFor
  <2> QED BY <2>2, <2>3
<1>3. CASE action \in {"log", "block"}
  <2>1. Rails!Modified(action, args) = args
    BY <1>3 DEF Rails!Modified
  <2> QED BY <1>3, <2>1
<1> QED BY <1>1, <1>2, <1>3 DEF Rails!Actions

\* Nothing of the arguments changes.
LEMMA RailSamePassed == ASSUME RailPassed, UNCHANGED <<guarded, bound>> PROVE RailPassed'
<1>1. Rails!Collected' = Rails!Collected /\ guarded' = guarded /\ bound' = bound
  BY DEF Rails!Collected
<1>2. \A l : Rails!Arguments(l)' = Rails!Arguments(l)
  BY DEF Rails!Arguments
<1>3. \A l : Rails!Bad(Rails!Arguments(l))' = Rails!Bad(Rails!Arguments(l))
  BY <1>1, <1>2 DEF Rails!Bad
<1>4. \A i : Rails!Bad(bound[i])' = Rails!Bad(bound[i])
  BY <1>1 DEF Rails!Bad
<1>5. \A i : Rails!Of("pre", guarded.guards[i])' = Rails!Of("pre", guarded.guards[i])
  BY DEF Rails!Of
<1>6. (\A l \in 0 .. Len(bound) :
          /\ guarded.resolved => \A p \in Excluded : Rails!Arguments(l)[p] = guarded.given[p]
          /\ Rails!Cardinality(Rails!Collected) > 1 =>
                \A p \in Rails!Collected : guarded.given[p] = "clean" => Rails!Arguments(l)[p] = "clean")'
  BY <1>1, <1>2 DEF RailPassed
<1>7. (\A k, l \in 0 .. Len(bound) : k <= l /\ Rails!Bad(Rails!Arguments(l)) => Rails!Bad(Rails!Arguments(k)))'
  BY <1>1, <1>3 DEF RailPassed
<1>8. (\A i \in 1 .. Len(bound) : Rails!Of("pre", guarded.guards[i]) /\ Rails!Bad(bound[i]) =>
          \/ guarded.guards[i].check # "rule" \/ guarded.guards[i].action = "log"
          \/ guarded.guards[i].action = "text" /\ Rails!Cardinality(Rails!Collected) > 1)'
  BY <1>1, <1>4, <1>5 DEF RailPassed
<1> QED BY <1>6, <1>7, <1>8 DEF RailPassed

\* One layer more that lets through what it makes of the arguments.
LEMMA RailEnterPassed ==
    ASSUME Rails!GuardrailsAssumption, RailShaped, RailPassed, Len(bound) < RailN, UNCHANGED guarded,
           NEW new \in RailArgumentSets, bound' = Append(bound, new),
           guarded.resolved => \A p \in Excluded : new[p] = Rails!Arguments(Rails!Entered)[p],
           Rails!Cardinality(Rails!Collected) > 1 =>
              \A p \in Rails!Collected : Rails!Arguments(Rails!Entered)[p] = "clean" => new[p] = "clean",
           Rails!Bad(new) => Rails!Bad(Rails!Arguments(Rails!Entered)),
           Rails!Of("pre", guarded.guards[Len(bound) + 1]) /\ Rails!Bad(new) =>
              \/ guarded.guards[Len(bound) + 1].check # "rule" \/ guarded.guards[Len(bound) + 1].action = "log"
              \/ guarded.guards[Len(bound) + 1].action = "text" /\ Rails!Cardinality(Rails!Collected) > 1
    PROVE  RailPassed'
<1>0. PICK m \in Nat : m = Len(bound)
  BY DEF RailShaped
<1>1. /\ m = Len(bound) /\ Len(bound') = m + 1 /\ bound'[m + 1] = new /\ \A i \in 1 .. m : bound'[i] = bound[i]
  BY <1>0 DEF RailShaped
<1>2. /\ \A l \in 0 .. m : Rails!Arguments(l)' = Rails!Arguments(l)
      /\ Rails!Arguments(m + 1)' = new
  BY <1>1 DEF Rails!Arguments
<1>3. Rails!Collected' = Rails!Collected /\ \A args : Rails!Bad(args)' = Rails!Bad(args)
  BY DEF Rails!Collected, Rails!Bad
<1>b. \A l \in 0 .. m : Rails!Bad(Rails!Arguments(l))' = Rails!Bad(Rails!Arguments(l))
  BY <1>2 DEF Rails!Bad, Rails!Collected
<1>c. Rails!Bad(Rails!Arguments(m + 1))' = Rails!Bad(new)
  BY <1>2 DEF Rails!Bad, Rails!Collected
<1>d. \A i \in 1 .. m : Rails!Bad(bound[i])' = Rails!Bad(bound[i])
  BY <1>1 DEF Rails!Bad, Rails!Collected
<1>e. Rails!Bad(bound[m + 1])' = Rails!Bad(new)
  BY <1>1 DEF Rails!Bad, Rails!Collected
<1>4. ASSUME NEW l \in 0 .. m + 1
      PROVE  /\ guarded.resolved => \A p \in Excluded : Rails!Arguments(l)'[p] = guarded.given[p]
             /\ Rails!Cardinality(Rails!Collected) > 1 =>
                   \A p \in Rails!Collected : guarded.given[p] = "clean" => Rails!Arguments(l)'[p] = "clean"
  <2>1. CASE l \in 0 .. m
    BY <1>1, <1>2, <2>1 DEF RailPassed
  <2>2. CASE l = m + 1
    BY <1>1, <1>2, <2>2 DEF RailPassed, Rails!Entered
  <2> QED BY <1>1, <2>1, <2>2
<1>5. ASSUME NEW k \in 0 .. m + 1, NEW l \in 0 .. m + 1, k <= l, Rails!Bad(Rails!Arguments(l))'
      PROVE  Rails!Bad(Rails!Arguments(k))'
  <2>1. CASE l \in 0 .. m
    BY <1>1, <1>5, <1>b, <2>1 DEF RailPassed
  <2>2. CASE l = m + 1 /\ k = m + 1
    BY <1>5, <2>2
  <2>3. CASE l = m + 1 /\ k \in 0 .. m
    <3>1. Rails!Bad(Rails!Arguments(m))
    BY <1>1, <1>5, <1>c, <2>3 DEF Rails!Entered
    <3> QED BY <1>1, <1>b, <2>3, <3>1 DEF RailPassed
  <2> QED BY <1>1, <2>1, <2>2, <2>3
<1>6. ASSUME NEW i \in 1 .. m + 1, Rails!Of("pre", guarded.guards[i]), Rails!Bad(bound[i])'
      PROVE  \/ guarded.guards[i].check # "rule" \/ guarded.guards[i].action = "log"
             \/ guarded.guards[i].action = "text" /\ Rails!Cardinality(Rails!Collected) > 1
  <2>1. CASE i \in 1 .. m
    BY <1>1, <1>6, <1>d, <2>1 DEF RailPassed
  <2>2. CASE i = m + 1
    BY <1>1, <1>6, <1>e, <2>2
  <2> QED BY <1>1, <2>1, <2>2
<1>7. \A i \in 1 .. m + 1 : Rails!Of("pre", guarded.guards[i])' = Rails!Of("pre", guarded.guards[i])
  BY DEF Rails!Of
<1> QED BY <1>1, <1>3, <1>4, <1>5, <1>6, <1>7 DEF RailPassed

\* One guardrail more is asked, after those that come before it.
LEMMA RailAskedMore ==
    ASSUME asked \in Seq(Nat \X {"pre", "post"}), NEW a \in Nat \X {"pre", "post"}, asked' = Append(asked, a),
           \A k, l \in DOMAIN asked : k < l => Rails!Earlier(asked[k], asked[l]),
           \A b \in Rails!Asked : Rails!Earlier(b, a)
    PROVE  /\ asked' \in Seq(Nat \X {"pre", "post"}) /\ Rails!Asked' = Rails!Asked \cup {a}
           /\ (\A k, l \in DOMAIN asked : k < l => Rails!Earlier(asked[k], asked[l]))'
<1>0. PICK n \in Nat : n = Len(asked)
  OBVIOUS
<1>1. /\ asked' \in Seq(Nat \X {"pre", "post"}) /\ DOMAIN asked = 1 .. n /\ DOMAIN asked' = 1 .. n + 1
      /\ asked'[n + 1] = a /\ \A k \in 1 .. n : asked'[k] = asked[k]
  BY <1>0
<1>2. Rails!Asked' = Rails!Asked \cup {a}
  <2>1. \A b \in Rails!Asked' : b \in Rails!Asked \cup {a}
    <3> SUFFICES ASSUME NEW k \in 1 .. n + 1 PROVE asked'[k] \in Rails!Asked \cup {a}
      BY <1>1 DEF Rails!Asked
    <3>1. CASE k \in 1 .. n
      BY <1>1, <3>1 DEF Rails!Asked
    <3> QED BY <1>1, <3>1
  <2>2. \A b \in Rails!Asked \cup {a} : b \in Rails!Asked'
    BY <1>1 DEF Rails!Asked
  <2> QED BY <2>1, <2>2
<1>3. ASSUME NEW k \in 1 .. n + 1, NEW l \in 1 .. n + 1, k < l PROVE Rails!Earlier(asked'[k], asked'[l])
  <2>1. k \in 1 .. n
    BY <1>3
  <2>2. CASE l \in 1 .. n
    BY <1>1, <1>3, <2>1, <2>2
  <2>3. CASE l = n + 1
    BY <1>1, <2>1, <2>3 DEF Rails!Asked
  <2>4. l \in 1 .. n \/ l = n + 1
    OBVIOUS
  <2> QED BY <2>2, <2>3, <2>4
<1> QED BY <1>1, <1>2, <1>3 DEF Rails!Earlier

\* An asking that is added at the end.
LEMMA RailBeforeGrows ==
    ASSUME NEW m \in Nat
    PROVE  /\ Rails!Of("pre", guarded.guards[m + 1])
                  => RailBefore(m + 1) = RailBefore(m) \cup {<<m + 1, "pre">>}
           /\ ~Rails!Of("pre", guarded.guards[m + 1]) => RailBefore(m + 1) = RailBefore(m)
           /\ \A b \in RailBefore(m) : Rails!Earlier(b, <<m + 1, "pre">>)
<1>1. \A j : j \in 1 .. m + 1 <=> j \in 1 .. m \/ j = m + 1
  OBVIOUS
<1> QED BY <1>1 DEF RailBefore, Rails!Earlier

LEMMA RailAfterGrows ==
    ASSUME RailFunction, NEW m \in 1 .. RailN
    PROVE  /\ Rails!Of("post", guarded.guards[m]) => RailAfter(m - 1) = RailAfter(m) \cup {<<m, "post">>}
           /\ ~Rails!Of("post", guarded.guards[m]) => RailAfter(m - 1) = RailAfter(m)
           /\ \A b \in RailAfter(m) : Rails!Earlier(b, <<m, "post">>)
           /\ \A b \in RailBefore(RailN) : Rails!Earlier(b, <<m, "post">>)
<1>0. RailN \in Nat
  BY DEF RailFunction, RailN
<1>1. \A j : j \in m - 1 + 1 .. RailN <=> j \in m + 1 .. RailN \/ j = m
  BY <1>0
<1>2. \A b \in RailAfter(m) : Rails!Earlier(b, <<m, "post">>)
  BY <1>0 DEF RailAfter, Rails!Earlier
<1>3. \A b \in RailBefore(RailN) : Rails!Earlier(b, <<m, "post">>)
  BY DEF RailBefore, Rails!Earlier
<1> QED BY <1>1, <1>2, <1>3 DEF RailAfter

LEMMA RailAfterAll == ASSUME RailFunction PROVE RailAfter(RailN) = {} /\ RailN \in Nat
  BY DEF RailAfter, RailFunction, RailN

-------------------------------------------------------------------------------
(***************************************************************************)
(* The steps of a call.                                                    *)
(***************************************************************************)
LEMMA RailEnterInv == ASSUME Rails!GuardrailsAssumption, RailCallInv, Rails!Enter PROVE RailCallInv'
<1>0. PICK m \in Nat : m = Len(bound) /\ m < RailN
  BY DEF RailCallInv, RailShaped, Rails!Enter, Rails!Entered, RailN
<1> DEFINE guard == guarded.guards[m + 1]
<1> DEFINE args == Rails!Arguments(Rails!Entered)
<1>1. /\ returned.at = "entering" /\ UNCHANGED <<guarded, ruled>>
      /\ IF ~Rails!Of("pre", guard) THEN bound' = Append(bound, args) /\ UNCHANGED <<asked, returned>>
         ELSE /\ asked' = Append(asked, <<m + 1, "pre">>)
              /\ \E failed \in Rails!Verdicts(guard, "pre", Rails!Bad(args), FALSE) :
                    IF failed /\ guard.action = "block"
                    THEN returned' = [returned EXCEPT !.at = "blocked"] /\ UNCHANGED bound
                    ELSE /\ bound' = Append(bound, IF failed THEN Rails!Modified(guard.action, args) ELSE args)
                         /\ UNCHANGED returned
  BY <1>0 DEF Rails!Enter, Rails!Entered
<1>2. /\ RailFunction /\ returned \in RailValues /\ returned.kind = "none" /\ returned.by = {} /\ RailN \in Nat
      /\ bound \in Seq(RailArgumentSets) /\ asked \in Seq(Nat \X {"pre", "post"})
  BY <1>1, RailAfterAll DEF RailCallInv, RailShaped, RailAtEntry
<1>3. args \in RailArgumentSets
  <2>1. CASE m = 0
    BY <1>0, <1>2, <2>1 DEF Rails!Arguments, Rails!Entered, RailFunction, RailArgumentSets
  <2>2. CASE m # 0
    BY <1>0, <1>2, <2>2 DEF Rails!Arguments, Rails!Entered
  <2> QED BY <2>1, <2>2
<1>4. guard \in Guards /\ guard.check \in Rails!Checks /\ guard.stage \in Rails!Stages
                          /\ guard.action \in Rails!Actions
  BY <1>0, <1>2, RailGuardIs
<1>5. RailFunction' /\ RailN' = RailN /\ Rails!Collected' = Rails!Collected
                       /\ RailBefore(m + 1)' = RailBefore(m + 1)
  BY <1>1, <1>2 DEF RailFunction, RailN, Rails!Collected, RailBefore, Rails!Of
<1>6. /\ \A k, l \in DOMAIN asked : k < l => Rails!Earlier(asked[k], asked[l])
      /\ Rails!Asked = RailBefore(m)
  BY <1>0, <1>1, <1>2, RailAfterAll DEF RailCallInv, RailInTurn, RailLastBefore, RailLastAfter
<1>7. /\ Rails!Of("pre", guard) => RailBefore(m + 1) = RailBefore(m) \cup {<<m + 1, "pre">>}
      /\ ~Rails!Of("pre", guard) => RailBefore(m + 1) = RailBefore(m)
      /\ \A b \in RailBefore(m) : Rails!Earlier(b, <<m + 1, "pre">>)
  BY RailBeforeGrows
<1> HIDE DEF guard, args
<1>n. RailAfter(RailN) = {} /\ RailAfter(RailN)' = {}
  BY <1>2, <1>5, RailAfterAll DEF RailAfter, RailFunction, RailN
<1>8. ASSUME NEW new \in RailArgumentSets, bound' = Append(bound, new), returned' = returned, RailPassed',
             asked' \in Seq(Nat \X {"pre", "post"}), Rails!Asked' = RailBefore(m + 1),
             (\A k, l \in DOMAIN asked : k < l => Rails!Earlier(asked[k], asked[l]))'
      PROVE  RailCallInv'
  <2>1. Len(bound') = m + 1 /\ bound' \in Seq(RailArgumentSets)
    BY <1>0, <1>2, <1>8
  <2>2. RailShaped'
    BY <1>0, <1>1, <1>2, <1>5, <1>8, <2>1 DEF RailCallInv, RailShaped, RailAtEntry, RailArgumentSets
  <2>3. RailLeft'
    BY <1>1, <1>8 DEF RailLeft
  <2>4. RailInTurn'
    <3>1. RailLastBefore' = m + 1 /\ RailLastAfter' = RailN
      BY <1>1, <1>5, <1>8, <2>1 DEF RailLastBefore, RailLastAfter
    <3>2. Rails!Asked' = (RailBefore(RailLastBefore) \cup RailAfter(RailLastAfter))'
      BY <1>5, <1>8, <1>n, <3>1 DEF RailBefore, RailAfter
    <3>3. returned'.at = "entering"
      BY <1>1, <1>8
    <3>4. RailLastBefore' <= RailN'
      BY <1>0, <1>2, <1>5, <3>1
    <3> QED BY <1>8, <3>2, <3>3, <3>4 DEF RailInTurn
  <2> QED BY <1>8, <2>2, <2>3, <2>4 DEF RailCallInv
<1>9. \A new \in RailArgumentSets :
         /\ bound' = Append(bound, new)
         /\ guarded.resolved => \A p \in Excluded : new[p] = args[p]
         /\ Rails!Cardinality(Rails!Collected) > 1 => \A p \in Rails!Collected : args[p] = "clean"
                => new[p] = "clean"
         /\ Rails!Bad(new) => Rails!Bad(args)
         /\ Rails!Of("pre", guard) /\ Rails!Bad(new) =>
               \/ guard.check # "rule" \/ guard.action = "log"
               \/ guard.action = "text" /\ Rails!Cardinality(Rails!Collected) > 1
         => RailPassed'
  BY <1>0, <1>1, RailEnterPassed DEF RailCallInv, guard, args
<1>10. CASE ~Rails!Of("pre", guard)
  <2>1. bound' = Append(bound, args) /\ UNCHANGED <<asked, returned>>
    BY <1>1, <1>10
  <2>2. RailPassed'
    BY <1>3, <1>9, <1>10, <2>1
  <2> QED BY <1>2, <1>3, <1>6, <1>7, <1>8, <1>10, <2>1, <2>2 DEF Rails!Asked, Rails!Earlier
<1>11. CASE Rails!Of("pre", guard)
  <2>1. asked' = Append(asked, <<m + 1, "pre">>) /\ <<m + 1, "pre">> \in Nat \X {"pre", "post"}
    BY <1>1, <1>11
  <2>2. /\ asked' \in Seq(Nat \X {"pre", "post"}) /\ Rails!Asked' = RailBefore(m + 1)
        /\ (\A k, l \in DOMAIN asked : k < l => Rails!Earlier(asked[k], asked[l]))'
    BY <1>2, <1>6, <1>7, <1>11, <2>1, RailAskedMore
  <2>3. PICK failed \in Rails!Verdicts(guard, "pre", Rails!Bad(args), FALSE) :
           IF failed /\ guard.action = "block"
           THEN returned' = [returned EXCEPT !.at = "blocked"] /\ UNCHANGED bound
           ELSE /\ bound' = Append(bound, IF failed THEN Rails!Modified(guard.action, args) ELSE args)
                /\ UNCHANGED returned
    BY <1>1, <1>11
  <2>4. guard.check = "rule" => failed = Rails!Bad(args)
    BY <2>3 DEF Rails!Verdicts
  <2>5. CASE failed /\ guard.action = "block"
    <3>1. returned' = [returned EXCEPT !.at = "blocked"] /\ UNCHANGED bound
      BY <2>3, <2>5
    <3>2. /\ returned' \in RailValues /\ returned'.at = "blocked" /\ returned'.kind = "none"
             /\ returned'.by = {}
          /\ returned'.layer = returned.layer
      BY <1>2, <3>1 DEF RailValues
    <3>3. RailShaped'
      BY <1>0, <1>1, <1>2, <1>5, <2>2, <3>1, <3>2 DEF RailCallInv, RailShaped, RailAtEntry, RailArgumentSets
    <3>4. RailPassed'
      BY <1>1, <3>1, RailSamePassed DEF RailCallInv
    <3>5. RailLeft'
      BY <3>2 DEF RailLeft
    <3>6. RailLastBefore' = m + 1 /\ RailLastAfter' = RailN
      BY <1>0, <1>5, <3>1, <3>2 DEF RailLastBefore, RailLastAfter
    <3>7. Rails!Asked' = (RailBefore(RailLastBefore) \cup RailAfter(RailLastAfter))'
      BY <1>5, <1>n, <2>2, <3>6 DEF RailBefore, RailAfter
    <3>8. RailInTurn'
      <4>1. RailLastBefore' <= RailN'
        BY <1>0, <1>2, <1>5, <3>6
      <4> QED BY <2>2, <3>2, <3>7, <4>1 DEF RailInTurn
    <3> QED BY <3>3, <3>4, <3>5, <3>8 DEF RailCallInv
  <2>6. CASE ~(failed /\ guard.action = "block")
    <3> DEFINE new == IF failed THEN Rails!Modified(guard.action, args) ELSE args
    <3>1. bound' = Append(bound, new) /\ UNCHANGED returned
      BY <2>3, <2>6
    <3>2. /\ new \in RailArgumentSets
          /\ guarded.resolved => \A p \in Excluded : new[p] = args[p]
          /\ Rails!Cardinality(Rails!Collected) > 1 => \A p \in Rails!Collected : args[p] = "clean"
                 => new[p] = "clean"
          /\ Rails!Bad(new) => Rails!Bad(args)
      BY <1>2, <1>3, <1>4, RailModifiedIs
    <3>3. Rails!Bad(new) => \/ guard.check # "rule" \/ guard.action = "log"
                            \/ guard.action = "text" /\ Rails!Cardinality(Rails!Collected) > 1
      <4> SUFFICES ASSUME Rails!Bad(new), guard.check = "rule", guard.action # "log"
                   PROVE  guard.action = "text" /\ Rails!Cardinality(Rails!Collected) > 1
        OBVIOUS
      <4>1. failed
        BY <2>4, <3>2
      <4>2. guard.action \in {"redact", "text"}
        BY <1>4, <2>6, <4>1 DEF Rails!Actions
      <4>3. Rails!Bad(Rails!Modified(guard.action, args))
        BY <4>1
      <4> QED BY <1>2, <1>3, <1>4, <4>2, <4>3, RailModifiedIs
    <3> HIDE DEF new
    <3>4. RailPassed'
      BY <1>9, <3>1, <3>2, <3>3
    <3> QED BY <1>8, <2>2, <3>1, <3>2, <3>4
  <2> QED BY <2>5, <2>6
<1> QED BY <1>10, <1>11

LEMMA RailCallStep == ASSUME RailCallInv, Rails!Call PROVE RailCallInv'
<1>1. returned.at = "entering" /\ Rails!Entered = RailN /\ UNCHANGED <<guarded, bound, asked, ruled>>
  BY DEF Rails!Call, RailN
<1>2. /\ RailFunction /\ returned \in RailValues /\ returned.kind = "none" /\ returned.by = {} /\ RailN \in Nat
      /\ Len(bound) = RailN /\ RailAfter(RailN) = {}
  BY <1>1, RailAfterAll DEF RailCallInv, RailShaped, RailAtEntry, Rails!Entered
<1>3. /\ RailN' = RailN /\ RailFunction'
         /\ \A k, l \in DOMAIN asked : k < l => Rails!Earlier(asked[k], asked[l])
      /\ Rails!Asked = RailBefore(RailN)
  BY <1>1, <1>2 DEF RailCallInv, RailInTurn, RailLastBefore, RailLastAfter, RailN, RailFunction
<1>4. RailBefore(RailN)' = RailBefore(RailN) /\ Rails!Asked' = Rails!Asked
        /\ RailAfter(RailN)' = RailAfter(RailN)
  BY <1>1 DEF RailBefore, Rails!Asked, RailAfter, Rails!Of, RailN
<1>5. RailPassed'
  BY <1>1, RailSamePassed DEF RailCallInv
<1>6. ASSUME NEW kind \in Rails!Kinds, NEW data \in {"clean", "bad"}, kind = "adapted" => data = "clean",
             returned' = [at |-> "leaving", layer |-> RailN, kind |-> kind, data |-> data, by |-> {}]
      PROVE  RailCallInv'
  <2>1. returned' \in RailValues /\ kind # "none"
    BY <1>2, <1>6 DEF RailValues, RailContained, Rails!Kinds
  <2>2. RailShaped'
    BY <1>1, <1>2, <1>3, <1>6, <2>1 DEF RailCallInv, RailShaped, RailAtEntry, RailArgumentSets
  <2>3. RailLeft'
    BY <1>2, <1>3, <1>6 DEF RailLeft
  <2>4. RailInTurn'
    <3>1. RailLastBefore' = RailN /\ RailLastAfter' = RailN
      BY <1>1, <1>2, <1>6 DEF RailLastBefore, RailLastAfter
    <3>2. Rails!Asked' = (RailBefore(RailLastBefore) \cup RailAfter(RailLastAfter))'
      BY <1>2, <1>3, <1>4, <3>1 DEF RailBefore, RailAfter
    <3>3. \A a \in Rails!Asked' : a[2] = "pre"
      BY <1>3, <1>4 DEF RailBefore
    <3>4. (\A k, l \in DOMAIN asked : k < l => Rails!Earlier(asked[k], asked[l]))'
      BY <1>1, <1>3 DEF Rails!Earlier
    <3>5. returned'.by = {} /\ returned'.layer = RailN /\ returned'.at = "leaving" /\ RailN + 1 .. RailN = {}
      BY <1>2, <1>6
    <3> QED BY <1>2, <1>3, <3>1, <3>2, <3>3, <3>4, <3>5 DEF RailInTurn
  <2> QED BY <1>5, <2>2, <2>3, <2>4 DEF RailCallInv
<1>7. CASE returned' = [returned EXCEPT !.at = "raised"]
  <2>1. returned' \in RailValues /\ returned'.at = "raised" /\ returned'.by = {}
          /\ returned'.layer = returned.layer
    BY <1>2, <1>7 DEF RailValues
  <2>2. RailShaped'
    BY <1>1, <1>2, <1>3, <2>1 DEF RailCallInv, RailShaped, RailAtEntry, RailArgumentSets
  <2>3. RailLeft'
    BY <2>1 DEF RailLeft
  <2>4. RailInTurn'
    <3>1. RailLastBefore' = RailN /\ RailLastAfter' = RailN
      BY <1>1, <1>2, <1>3, <2>1 DEF RailLastBefore, RailLastAfter
    <3>2. Rails!Asked' = (RailBefore(RailLastBefore) \cup RailAfter(RailLastAfter))'
      BY <1>2, <1>3, <1>4, <3>1 DEF RailBefore, RailAfter
    <3>3. (\A k, l \in DOMAIN asked : k < l => Rails!Earlier(asked[k], asked[l]))'
      BY <1>1, <1>3 DEF Rails!Earlier
    <3> QED BY <1>2, <1>3, <2>1, <3>1, <3>2, <3>3 DEF RailInTurn
  <2> QED BY <1>5, <2>2, <2>3, <2>4 DEF RailCallInv
<1> QED BY <1>1, <1>6, <1>7 DEF Rails!Call, Rails!Entered

\* What neither Dispatch nor Leave changes.
LEMMA RailSameCall ==
    ASSUME Rails!GuardrailsAssumption, RailCallInv, UNCHANGED <<guarded, bound>>
    PROVE  /\ RailPassed' /\ RailFunction' /\ RailN' = RailN /\ RailN \in Nat
              /\ bound' \in Seq(RailArgumentSets)'
           /\ \A m \in Nat : RailBefore(m)' = RailBefore(m) /\ RailAfter(m)' = RailAfter(m)
           /\ \A l \in Nat : Rails!Bad(Rails!Arguments(l))' = Rails!Bad(Rails!Arguments(l))
<1>1. RailPassed'
  BY RailSamePassed DEF RailCallInv
<1>2. RailFunction' /\ RailN' = RailN /\ RailN \in Nat /\ bound' \in Seq(RailArgumentSets)'
  BY RailAfterAll DEF RailCallInv, RailShaped, RailFunction, RailN, RailArgumentSets
<1>3. \A m \in Nat : RailBefore(m)' = RailBefore(m) /\ RailAfter(m)' = RailAfter(m)
  BY DEF RailBefore, RailAfter, Rails!Of, RailN
<1>4. \A l \in Nat : Rails!Arguments(l)' = Rails!Arguments(l)
  BY DEF Rails!Arguments
<1>5. \A l \in Nat : Rails!Bad(Rails!Arguments(l))' = Rails!Bad(Rails!Arguments(l))
  BY <1>4 DEF Rails!Bad, Rails!Collected
<1> QED BY <1>1, <1>2, <1>3, <1>5

LEMMA RailDispatchInv == ASSUME Rails!GuardrailsAssumption, RailCallInv, Rails!Dispatch PROVE RailCallInv'
<1>1. returned.at = "leaving" /\ returned.layer > 0 /\ UNCHANGED <<guarded, bound, asked, ruled>>
  BY DEF Rails!Dispatch
<1>2. PICK kind \in Rails!Kinds, by \in SUBSET Nat :
         /\ returned' = [returned EXCEPT !.at = "checking", !.kind = kind, !.by = by]
         /\ \/ kind = returned.kind /\ by = returned.by /\ returned.kind # "adapted"
            \/ returned.kind = "adapted" /\ by = returned.by \cup {returned.layer}
  <2>1. returned \in RailValues /\ returned.kind \in Rails!Kinds
    BY <1>1 DEF RailCallInv, RailShaped, RailValues
  <2>2. CASE returned.kind # "adapted"
    <3>1. returned' = [returned EXCEPT !.at = "checking"]
      BY <2>2 DEF Rails!Dispatch
    <3>2. returned' = [returned EXCEPT !.at = "checking", !.kind = returned.kind, !.by = returned.by]
      BY <2>1, <3>1 DEF RailValues
    <3> QED BY <2>1, <2>2, <3>2 DEF RailValues
  <2>3. CASE returned.kind = "adapted"
    <3>1. PICK kind \in {"adapted", "plain"} :
             returned' = [returned EXCEPT !.at = "checking", !.kind = kind, !.by = @ \cup {returned.layer}]
      BY <2>3 DEF Rails!Dispatch
    <3>2. kind \in Rails!Kinds /\ returned.by \cup {returned.layer} \in SUBSET Nat
      BY <2>1 DEF Rails!Kinds, RailValues
    <3> QED BY <2>1, <2>3, <3>1, <3>2 DEF RailValues
  <2> QED BY <2>2, <2>3
<1>3. /\ returned \in RailValues /\ returned.layer \in Nat /\ returned.layer <= RailN /\ Len(bound) = RailN
      /\ bound \in Seq(RailArgumentSets) /\ asked \in Seq(Nat \X {"pre", "post"})
  BY <1>1 DEF RailCallInv, RailShaped, RailValues, RailAtEntry
<1>4. /\ RailPassed' /\ RailFunction' /\ RailN' = RailN /\ RailN \in Nat /\ bound' \in Seq(RailArgumentSets)'
      /\ \A m \in Nat : RailBefore(m)' = RailBefore(m) /\ RailAfter(m)' = RailAfter(m)
      /\ \A l \in Nat : Rails!Bad(Rails!Arguments(l))' = Rails!Bad(Rails!Arguments(l))
  BY <1>1, RailSameCall
<1>5. /\ returned' \in RailValues /\ returned'.at = "checking" /\ returned'.kind = kind /\ returned'.by = by
      /\ returned'.layer = returned.layer /\ returned'.data = returned.data /\ kind # "none"
  BY <1>2, <1>3 DEF RailValues, Rails!Kinds
<1>6. RailShaped'
  BY <1>1, <1>3, <1>4, <1>5 DEF RailShaped, RailAtEntry
<1>7. RailLeft'
  <2> SUFFICES ASSUME returned.data = "bad"
               PROVE  /\ kind # "adapted"
                      /\ \A i \in returned.layer + 1 .. RailN :
                            Rails!Of("post", guarded.guards[i]) /\ guarded.guards[i].action # "log" =>
                               /\ guarded.guards[i].check # "rule"
                               /\ guarded.guards[i].check = "pair" => ~Rails!Bad(Rails!Arguments(i))'
    BY <1>1, <1>4, <1>5 DEF RailLeft, Rails!Of
  <2>1. /\ returned.kind # "adapted"
        /\ \A i \in returned.layer + 1 .. RailN :
              Rails!Of("post", guarded.guards[i]) /\ guarded.guards[i].action # "log" =>
                 /\ guarded.guards[i].check # "rule"
                 /\ guarded.guards[i].check = "pair" => ~Rails!Bad(Rails!Arguments(i))
    BY <1>1 DEF RailCallInv, RailLeft
  <2> QED BY <1>2, <1>3, <1>4, <2>1
<1>8. RailInTurn'
  <2>1. RailLastBefore = RailN /\ RailLastBefore' = RailN /\ RailLastAfter = returned.layer
          /\ RailLastAfter' = returned.layer
    BY <1>1, <1>3, <1>5 DEF RailLastBefore, RailLastAfter
  <2>2. (RailBefore(RailLastBefore) \cup RailAfter(RailLastAfter))' = RailBefore(RailLastBefore)
            \cup RailAfter(RailLastAfter)
    BY <1>1, <1>4, <2>1 DEF RailBefore, RailAfter, Rails!Of
  <2>3. Rails!Asked' = Rails!Asked /\ (\A k, l \in DOMAIN asked : k < l => Rails!Earlier(asked[k], asked[l]))'
    BY <1>1 DEF RailCallInv, RailInTurn, Rails!Asked, Rails!Earlier
  <2>4. /\ Rails!Asked \subseteq RailBefore(RailLastBefore) \cup RailAfter(RailLastAfter)
        /\ returned.by = {} => Rails!Asked = RailBefore(RailLastBefore) \cup RailAfter(RailLastAfter)
        /\ returned.kind = "adapted" =>
              returned.by = returned.layer + 1 .. RailN /\ \A a \in Rails!Asked : a[2] = "pre"
    BY <1>1 DEF RailCallInv, RailInTurn
  <2>5. by = {} => returned.by = {}
    BY <1>2
  <2>6. kind = "adapted" => by = returned.layer .. RailN /\ \A a \in Rails!Asked : a[2] = "pre"
    <3> HAVE kind = "adapted"
    <3>1. returned.kind = "adapted" /\ by = (returned.layer + 1 .. RailN) \cup {returned.layer}
      BY <1>2, <2>4
    <3> QED BY <1>3, <1>4, <2>4, <3>1
  <2>7. RailLastBefore' <= RailN'
    BY <1>4, <2>1
  <2> QED BY <1>4, <1>5, <2>2, <2>3, <2>4, <2>5, <2>6, <2>7 DEF RailInTurn
<1> QED BY <1>4, <1>6, <1>7, <1>8 DEF RailCallInv

\* A value goes on past its layer.
LEMMA RailLeftBehind ==
    ASSUME Rails!GuardrailsAssumption, RailCallInv, returned.at = "checking", UNCHANGED <<guarded, bound>>,
           NEW kind \in Rails!Kinds, NEW data \in RailContained,
           returned' = [returned EXCEPT !.at = "leaving", !.layer = @ - 1, !.kind = kind, !.data = data],
           asked' \in Seq(Nat \X {"pre", "post"}),
           (\A k, l \in DOMAIN asked : k < l => Rails!Earlier(asked[k], asked[l]))',
           Rails!Asked' \subseteq RailBefore(RailN) \cup RailAfter(returned.layer - 1),
           returned.by = {} => Rails!Asked' = RailBefore(RailN) \cup RailAfter(returned.layer - 1),
           kind = "adapted" => returned.kind = "adapted" /\ Rails!Asked' = Rails!Asked,
           data = "bad" =>
              /\ returned.data = "bad" /\ kind # "adapted"
              /\ Rails!Of("post", guarded.guards[returned.layer])
                 /\ guarded.guards[returned.layer].action # "log" =>
                    /\ guarded.guards[returned.layer].check # "rule"
                    /\ guarded.guards[returned.layer].check = "pair"
                           => ~Rails!Bad(Rails!Arguments(returned.layer))
    PROVE  RailCallInv'
<1>1. /\ returned \in RailValues /\ returned.layer \in Nat \ {0} /\ returned.layer <= RailN
         /\ Len(bound) = RailN
      /\ bound \in Seq(RailArgumentSets) /\ asked \in Seq(Nat \X {"pre", "post"})
  BY DEF RailCallInv, RailShaped, RailValues, RailAtEntry
<1>2. /\ RailPassed' /\ RailFunction' /\ RailN' = RailN /\ RailN \in Nat /\ bound' \in Seq(RailArgumentSets)'
      /\ \A m \in Nat : RailBefore(m)' = RailBefore(m) /\ RailAfter(m)' = RailAfter(m)
      /\ \A l \in Nat : Rails!Bad(Rails!Arguments(l))' = Rails!Bad(Rails!Arguments(l))
  BY RailSameCall
<1>3. /\ returned' \in RailValues /\ returned'.at = "leaving" /\ returned'.kind = kind
         /\ returned'.by = returned.by
      /\ returned'.layer = returned.layer - 1 /\ returned'.data = data /\ kind # "none"
      /\ returned.layer - 1 \in Nat
  <2>1. returned.layer - 1 \in Nat /\ kind \in Rails!Kinds \cup {"none"} /\ kind # "none"
          /\ returned.by \in SUBSET Nat
    BY <1>1 DEF RailValues, Rails!Kinds
  <2>2. returned' = [at |-> "leaving", layer |-> returned.layer - 1, kind |-> kind, data |-> data,
            by |-> returned.by]
    BY <1>1 DEF RailValues
  <2> QED BY <2>1, <2>2 DEF RailValues
<1>4. RailShaped'
  BY <1>1, <1>2, <1>3 DEF RailShaped, RailAtEntry
<1>5. RailLeft'
  <2> SUFFICES ASSUME data = "bad", NEW i \in returned.layer - 1 + 1 .. RailN,
                      Rails!Of("post", guarded.guards[i]), guarded.guards[i].action # "log"
               PROVE  /\ guarded.guards[i].check # "rule"
                      /\ guarded.guards[i].check = "pair" => ~Rails!Bad(Rails!Arguments(i))'
    BY <1>2, <1>3 DEF RailLeft, Rails!Of
  <2>1. CASE i = returned.layer
    BY <1>1, <1>2, <2>1
  <2>2. CASE i \in returned.layer + 1 .. RailN
    BY <1>1, <1>2, <2>2 DEF RailCallInv, RailLeft
  <2> QED BY <1>1, <1>2, <2>1, <2>2
<1>6. RailInTurn'
  <2>1. RailLastBefore' = RailN /\ RailLastAfter' = returned.layer - 1
    BY <1>1, <1>3 DEF RailLastBefore, RailLastAfter
  <2>2. (RailBefore(RailLastBefore) \cup RailAfter(RailLastAfter))' = RailBefore(RailN)
            \cup RailAfter(returned.layer - 1)
    BY <1>2, <2>1 DEF RailBefore, RailAfter, Rails!Of
  <2>3. kind = "adapted" => returned.by = returned.layer - 1 + 1 .. RailN
            /\ \A a \in Rails!Asked' : a[2] = "pre"
    <3> HAVE kind = "adapted"
    <3>1. returned.by = returned.layer .. RailN /\ \A a \in Rails!Asked : a[2] = "pre"
      BY DEF RailCallInv, RailInTurn
    <3>2. returned.layer - 1 + 1 = returned.layer
      BY <1>1
    <3> QED BY <3>1, <3>2
  <2>4. RailLastBefore' <= RailN'
    BY <1>2, <2>1
  <2> QED BY <1>2, <1>3, <2>2, <2>3, <2>4 DEF RailInTurn
<1> QED BY <1>2, <1>4, <1>5, <1>6 DEF RailCallInv

LEMMA RailLeaveInv == ASSUME Rails!GuardrailsAssumption, RailCallInv, Rails!Leave PROVE RailCallInv'
<1> DEFINE layer == returned.layer
<1> DEFINE guard == guarded.guards[layer]
<1> DEFINE left == [returned EXCEPT !.at = "leaving", !.layer = @ - 1]
<1>1. /\ returned.at = "checking" /\ UNCHANGED <<guarded, bound, ruled>>
      /\ IF ~Rails!ChecksPost(guard) THEN returned' = left /\ UNCHANGED asked
         ELSE /\ asked' = Append(asked, <<layer, "post">>)
              /\ \E failed \in Rails!Verdicts(guard, "post", Rails!Bad(Rails!Arguments(layer)),
                     returned.data = "bad") :
                    IF ~failed THEN returned' = left
                    ELSE IF guard.action = "block" THEN returned' = [returned EXCEPT !.at = "blocked"]
                    ELSE \E kind \in Rails!KindsAfter(guard.action, returned.kind) :
                            returned' = [left EXCEPT !.kind = kind, !.data = Rails!DataAfter(guard.action, @)]
  BY DEF Rails!Leave
<1>2. /\ RailFunction /\ returned \in RailValues /\ layer \in 1 .. RailN /\ RailN \in Nat /\ Len(bound) = RailN
      /\ returned.kind \in Rails!Kinds /\ returned.data \in RailContained
      /\ asked \in Seq(Nat \X {"pre", "post"}) /\ bound \in Seq(RailArgumentSets)
  <2>1. /\ RailFunction /\ returned \in RailValues /\ Len(bound) = RailN /\ returned.kind # "none"
           /\ layer # 0 /\ layer <= RailN
        /\ asked \in Seq(Nat \X {"pre", "post"}) /\ bound \in Seq(RailArgumentSets)
    BY <1>1 DEF RailCallInv, RailShaped, RailAtEntry
  <2>2. RailN \in Nat
    BY <2>1, RailAfterAll
  <2>3. layer \in Nat /\ returned.kind \in Rails!Kinds /\ returned.data \in RailContained
    BY <2>1 DEF RailValues
  <2> QED BY <2>1, <2>2, <2>3
<1>3. guard.check \in Rails!Checks /\ guard.stage \in Rails!Stages /\ guard.action \in Rails!Actions
  BY <1>2, RailGuardIs
<1>4. /\ \A k, l \in DOMAIN asked : k < l => Rails!Earlier(asked[k], asked[l])
      /\ Rails!Asked \subseteq RailBefore(RailN) \cup RailAfter(layer)
      /\ returned.by = {} => Rails!Asked = RailBefore(RailN) \cup RailAfter(layer)
      /\ returned.kind = "adapted" => returned.by = layer .. RailN
  BY <1>1, <1>2 DEF RailCallInv, RailInTurn, RailLastBefore, RailLastAfter
<1>5. /\ Rails!Of("post", guard) => RailAfter(layer - 1) = RailAfter(layer) \cup {<<layer, "post">>}
      /\ ~Rails!Of("post", guard) => RailAfter(layer - 1) = RailAfter(layer)
      /\ \A b \in RailAfter(layer) : Rails!Earlier(b, <<layer, "post">>)
      /\ \A b \in RailBefore(RailN) : Rails!Earlier(b, <<layer, "post">>)
  BY <1>2, RailAfterGrows
<1>6. left = [returned EXCEPT !.at = "leaving", !.layer = @ - 1, !.kind = returned.kind, !.data = returned.data]
  BY <1>2 DEF RailValues
<1>7. returned.data = "bad" => returned.kind # "adapted"
  BY <1>1 DEF RailCallInv, RailLeft
<1>8. CASE ~Rails!ChecksPost(guard)
  <2>1. returned' = left /\ UNCHANGED asked
    BY <1>1, <1>8
  <2>2. asked' \in Seq(Nat \X {"pre", "post"}) /\ Rails!Asked' = Rails!Asked
        /\ (\A k, l \in DOMAIN asked : k < l => Rails!Earlier(asked[k], asked[l]))'
    BY <1>2, <1>4, <2>1 DEF Rails!Asked, Rails!Earlier
  <2>3. returned.by = {} => ~Rails!Of("post", guard)
    BY <1>2, <1>4, <1>8 DEF Rails!ChecksPost
  <2>4. Rails!Asked \subseteq RailBefore(RailN) \cup RailAfter(layer - 1)
    BY <1>4, <1>5
  <2>5. returned.data = "bad" => ~Rails!Of("post", guard)
    BY <1>7, <1>8 DEF Rails!ChecksPost
  <2> HIDE DEF left
  <2>6. returned' = [returned EXCEPT !.at = "leaving", !.layer = @ - 1, !.kind = returned.kind,
            !.data = returned.data]
    BY <1>6, <2>1
  <2>7. returned.by = {} => Rails!Asked' = RailBefore(RailN) \cup RailAfter(layer - 1)
    BY <1>4, <1>5, <2>2, <2>3
  <2> QED BY <1>1, <1>2, <1>7, <2>2, <2>4, <2>5, <2>6, <2>7, RailLeftBehind
<1>9. CASE Rails!ChecksPost(guard)
  <2>1. /\ Rails!Of("post", guard) /\ returned.kind # "adapted"
        /\ asked' = Append(asked, <<layer, "post">>) /\ <<layer, "post">> \in Nat \X {"pre", "post"}
    <3>1. layer \in Nat
      BY <1>2
    <3> QED BY <1>1, <1>9, <3>1 DEF Rails!ChecksPost
  <2>2. /\ asked' \in Seq(Nat \X {"pre", "post"}) /\ Rails!Asked' = Rails!Asked \cup {<<layer, "post">>}
        /\ (\A k, l \in DOMAIN asked : k < l => Rails!Earlier(asked[k], asked[l]))'
    <3>1. \A b \in Rails!Asked : Rails!Earlier(b, <<layer, "post">>)
      BY <1>4, <1>5
    <3> QED BY <1>2, <1>4, <2>1, <3>1, RailAskedMore
  <2>3. /\ Rails!Asked' \subseteq RailBefore(RailN) \cup RailAfter(layer - 1)
        /\ returned.by = {} => Rails!Asked' = RailBefore(RailN) \cup RailAfter(layer - 1)
    BY <1>4, <1>5, <2>1, <2>2
  <2>4. PICK failed \in Rails!Verdicts(guard, "post", Rails!Bad(Rails!Arguments(layer)),
                 returned.data = "bad") :
           IF ~failed THEN returned' = left
           ELSE IF guard.action = "block" THEN returned' = [returned EXCEPT !.at = "blocked"]
           ELSE \E kind \in Rails!KindsAfter(guard.action, returned.kind) :
                   returned' = [left EXCEPT !.kind = kind, !.data = Rails!DataAfter(guard.action, @)]
    BY <1>1, <1>9
  <2>5. /\ guard.check = "rule" => failed = (returned.data = "bad")
        /\ guard.check = "pair" => failed = (Rails!Bad(Rails!Arguments(layer)) /\ returned.data = "bad")
    BY <2>4 DEF Rails!Verdicts
  <2>6. CASE ~failed
    <3>1. returned' = left
      BY <2>4, <2>6
    <3> HIDE DEF left
    <3>2. returned' = [returned EXCEPT !.at = "leaving", !.layer = @ - 1, !.kind = returned.kind,
              !.data = returned.data]
      BY <1>6, <3>1
    <3>3. returned.data = "bad" => guard.check # "rule"
              /\ (guard.check = "pair" => ~Rails!Bad(Rails!Arguments(layer)))
      BY <2>5, <2>6
    <3> QED BY <1>1, <1>2, <2>1, <2>2, <2>3, <3>2, <3>3, RailLeftBehind
  <2>7. CASE failed /\ guard.action = "block"
    <3>1. returned' = [returned EXCEPT !.at = "blocked"]
      BY <2>4, <2>7
    <3>2. /\ returned' \in RailValues /\ returned'.at = "blocked" /\ returned'.kind = returned.kind
          /\ returned'.kind # "none" /\ returned'.by = returned.by /\ returned'.layer = layer
      BY <1>2, <3>1 DEF RailValues, Rails!Kinds
    <3>3. /\ RailPassed' /\ RailFunction' /\ RailN' = RailN /\ bound' \in Seq(RailArgumentSets)'
          /\ \A m \in Nat : RailBefore(m)' = RailBefore(m) /\ RailAfter(m)' = RailAfter(m)
      BY <1>1, RailSameCall
    <3>4. RailShaped'
      <4>0. bound' = bound
        BY <1>1
      <4>1. Len(bound') = RailN /\ layer # 0 /\ layer <= RailN
        BY <1>2, <4>0
      <4> QED BY <2>2, <3>2, <3>3, <4>1 DEF RailShaped, RailAtEntry
    <3>5. RailLeft'
      BY <3>2 DEF RailLeft
    <3>6. RailInTurn'
      <4>1. RailLastBefore' = RailN /\ RailLastAfter' = layer - 1
        BY <1>1, <1>2, <3>2, <3>3 DEF RailLastBefore, RailLastAfter
      <4>2. (RailBefore(RailLastBefore) \cup RailAfter(RailLastAfter))' = RailBefore(RailN)
                \cup RailAfter(layer - 1)
        BY <1>1, <1>2, <3>3, <4>1 DEF RailBefore, RailAfter, Rails!Of
      <4>3. RailLastBefore' <= RailN'
        BY <1>2, <3>3, <4>1
      <4> QED BY <2>2, <2>3, <3>2, <4>2, <4>3 DEF RailInTurn
    <3> QED BY <3>3, <3>4, <3>5, <3>6 DEF RailCallInv
  <2>8. CASE failed /\ guard.action # "block"
    <3>1. PICK kind \in Rails!KindsAfter(guard.action, returned.kind) :
             returned' = [left EXCEPT !.kind = kind, !.data = Rails!DataAfter(guard.action, @)]
      BY <2>4, <2>8
    <3> DEFINE data == Rails!DataAfter(guard.action, returned.data)
    <3>2. kind \in Rails!Kinds /\ kind # "adapted"
      BY <1>2, <1>3, <2>1, <2>8, <3>1 DEF Rails!KindsAfter, Rails!Kinds, Rails!Actions
    <3>3. data \in RailContained /\ (data = "bad" => returned.data = "bad" /\ guard.action = "log")
      BY <1>2, <1>3, <2>8 DEF Rails!DataAfter, RailContained, Rails!Actions, Rails!Redacted
    <3>4. returned' = [returned EXCEPT !.at = "leaving", !.layer = @ - 1, !.kind = kind, !.data = data]
      BY <1>2, <3>1 DEF RailValues
    <3> HIDE DEF left, data
    <3> QED BY <1>1, <1>2, <2>1, <2>2, <2>3, <3>2, <3>3, <3>4, RailLeftBehind
  <2> QED BY <2>6, <2>7, <2>8
<1> QED BY <1>8, <1>9

LEMMA RailCallSteps ==
    ASSUME Rails!GuardrailsAssumption, RailCallInv, Rails!Enter \/ Rails!Call \/ Rails!Dispatch \/ Rails!Leave
    PROVE  RailCallInv'
  BY RailEnterInv, RailCallStep, RailDispatchInv, RailLeaveInv

LEMMA RailCallStarts ==
    ASSUME Rails!GuardrailsAssumption, guarded \in Rails!Calls, bound = <<>>, asked = <<>>,
               returned = Rails!Entering
    PROVE  RailCallInv
<1>1. PICK s \in Signatures :
         guarded \in [guards : Rails!SeqsUpTo(Guards, MaxGuards), params : {s}, resolved : BOOLEAN,
                      given : [s \cup Excluded -> {"clean", "bad"}]]
  BY DEF Rails!Calls
<1>2. guarded.guards \in Seq(Guards)
  <2>1. guarded.guards \in Rails!SeqsUpTo(Guards, MaxGuards) /\ MaxGuards \in Nat
    BY <1>1 DEF Rails!GuardrailsAssumption
  <2> QED BY <2>1, RailUpTo
<1>3. RailFunction
  BY <1>1, <1>2 DEF RailFunction, RailContained
<1>4. RailAfter(RailN) = {} /\ RailN \in Nat
  BY <1>3, RailAfterAll
<1>5. bound \in Seq(RailArgumentSets) /\ asked \in Seq(Nat \X {"pre", "post"}) /\ Len(bound) = 0
  OBVIOUS
<1>6. /\ returned \in RailValues /\ returned.at = "entering" /\ returned.kind = "none" /\ returned.by = {}
      /\ returned.layer = 0
  BY DEF Rails!Entering, RailValues, RailContained
<1>7. RailShaped
  BY <1>3, <1>4, <1>5, <1>6 DEF RailShaped, RailAtEntry
<1>8. RailPassed
  <2>1. \A l \in 0 .. 0 : Rails!Arguments(l) = guarded.given
    BY DEF Rails!Arguments
  <2>2. \A k, l \in 0 .. 0 : k <= l /\ Rails!Bad(Rails!Arguments(l)) => Rails!Bad(Rails!Arguments(k))
    BY <2>1
  <2> QED BY <1>5, <2>1, <2>2 DEF RailPassed
<1>9. RailLeft
  BY <1>6 DEF RailLeft
<1>10. RailInTurn
  <2>1. RailLastBefore = 0 /\ RailLastAfter = RailN
    BY <1>5, <1>6 DEF RailLastBefore, RailLastAfter
  <2>2. Rails!Asked = {} /\ RailBefore(0) = {} /\ DOMAIN asked = {}
    BY DEF Rails!Asked, RailBefore
  <2> QED BY <1>4, <1>6, <2>1, <2>2 DEF RailInTurn
<1> QED BY <1>7, <1>8, <1>9, <1>10 DEF RailCallInv

\* What is due has been asked as far as the call is.
LEMMA RailCallHolds ==
    ASSUME Rails!GuardrailsAssumption, RailCallInv
    PROVE  Rails!NothingBadPasses /\ Rails!NothingBadReturns /\ Rails!AskedInOrder
<1>1. RailFunction /\ RailN \in Nat /\ DOMAIN guarded.guards = 1 .. RailN
  BY RailAfterAll DEF RailCallInv, RailShaped, RailFunction, RailN
<1>2. Rails!NothingBadPasses
  <2> SUFFICES ASSUME Rails!Called
               PROVE  /\ guarded.resolved => \A p \in Excluded :
                             Rails!Arguments(Rails!Entered)[p] = guarded.given[p]
                      /\ Rails!Cardinality(Rails!Collected) > 1 =>
                            \A p \in Rails!Collected : guarded.given[p] = "clean"
                                => Rails!Arguments(Rails!Entered)[p] = "clean"
                      /\ Rails!Bad(Rails!Arguments(Rails!Entered)) =>
                            \A i \in Rails!GuardsOf("pre") :
                               \/ guarded.guards[i].check # "rule" \/ guarded.guards[i].action = "log"
                               \/ guarded.guards[i].action = "text" /\ Rails!Cardinality(Rails!Collected) > 1
    BY DEF Rails!NothingBadPasses
  <2>1. Len(bound) = RailN /\ Rails!Entered = RailN
    BY DEF Rails!Called, RailCallInv, RailShaped, RailAtEntry, Rails!Entered
  <2>2. /\ guarded.resolved => \A p \in Excluded : Rails!Arguments(Rails!Entered)[p] = guarded.given[p]
        /\ Rails!Cardinality(Rails!Collected) > 1 =>
              \A p \in Rails!Collected : guarded.given[p] = "clean"
                  => Rails!Arguments(Rails!Entered)[p] = "clean"
    BY <1>1, <2>1 DEF RailCallInv, RailPassed
  <2>3. ASSUME Rails!Bad(Rails!Arguments(Rails!Entered)), NEW i \in Rails!GuardsOf("pre")
        PROVE  \/ guarded.guards[i].check # "rule" \/ guarded.guards[i].action = "log"
               \/ guarded.guards[i].action = "text" /\ Rails!Cardinality(Rails!Collected) > 1
    <3>1. i \in 1 .. RailN /\ Rails!Of("pre", guarded.guards[i])
      BY <1>1 DEF Rails!GuardsOf
    <3>2. Rails!Bad(Rails!Arguments(i))
      BY <1>1, <2>1, <2>3, <3>1 DEF RailCallInv, RailPassed
    <3>3. Rails!Arguments(i) = bound[i]
      BY <1>1, <3>1 DEF Rails!Arguments
    <3> QED BY <2>1, <3>1, <3>2, <3>3 DEF RailCallInv, RailPassed
  <2> QED BY <2>2, <2>3
<1>3. Rails!NothingBadReturns
  <2> SUFFICES ASSUME returned.at = "leaving", returned.layer = 0, returned.data = "bad",
                          NEW i \in Rails!GuardsOf("post"),
                      guarded.guards[i].action # "log"
               PROVE  guarded.guards[i].check # "rule"
                          /\ (guarded.guards[i].check = "pair" => ~Rails!Bad(Rails!Arguments(i)))
    BY DEF Rails!NothingBadReturns
  <2>1. i \in returned.layer + 1 .. RailN /\ Rails!Of("post", guarded.guards[i])
    BY <1>1 DEF Rails!GuardsOf
  <2> QED BY <2>1 DEF RailCallInv, RailLeft
<1>4. Rails!AskedInOrder
  <2>1. Rails!Due = RailBefore(RailN) \cup RailAfter(0)
    BY <1>1 DEF Rails!Due, RailBefore, RailAfter, Rails!GuardsOf
  <2>2. /\ \A k, l \in DOMAIN asked : k < l => Rails!Earlier(asked[k], asked[l])
        /\ Rails!Asked \subseteq RailBefore(RailLastBefore) \cup RailAfter(RailLastAfter)
        /\ returned.by = {} => Rails!Asked = RailBefore(RailLastBefore) \cup RailAfter(RailLastAfter)
        /\ RailLastBefore <= RailN
    BY DEF RailCallInv, RailInTurn
  <2>3. RailLastBefore \in 0 .. RailN /\ RailLastAfter \in 0 .. RailN
          /\ (RailLastAfter # RailN => RailLastBefore = RailN)
    <3>1. /\ Len(bound) \in Nat /\ Len(bound) <= RailN /\ returned.layer \in Nat /\ returned.layer <= RailN
          /\ ~RailAtEntry => Len(bound) = RailN
          /\ returned.at = "blocked" /\ returned.kind # "none" => returned.layer # 0
      BY DEF RailCallInv, RailShaped, RailValues
    <3>2. RailLastAfter \in 0 .. RailN
      BY <1>1, <3>1 DEF RailLastAfter
    <3>3. RailLastBefore \in 0 .. RailN
      BY <1>1, <2>2, <3>1 DEF RailLastBefore
    <3>4. RailLastAfter # RailN => ~RailAtEntry
      BY DEF RailLastAfter, RailAtEntry
    <3>5. ~RailAtEntry => RailLastBefore = Len(bound)
      BY DEF RailLastBefore, RailAtEntry
    <3> QED BY <3>1, <3>2, <3>3, <3>4, <3>5
  <2>4. RailBefore(RailLastBefore) \subseteq RailBefore(RailN)
            /\ RailAfter(RailLastAfter) \subseteq RailAfter(0)
    BY <1>1, <2>3 DEF RailBefore, RailAfter
  <2>5. ASSUME NEW b \in RailBefore(RailLastBefore) \cup RailAfter(RailLastAfter), NEW a \in Rails!Due,
                   Rails!Earlier(a, b)
        PROVE  a \in RailBefore(RailLastBefore) \cup RailAfter(RailLastAfter)
    <3>1. ASSUME NEW i \in 1 .. RailN, Rails!Of("pre", guarded.guards[i]), a = <<i, "pre">>
          PROVE  a \in RailBefore(RailLastBefore)
      <4>1. CASE b \in RailBefore(RailLastBefore)
        <5>1. PICK j \in 1 .. RailLastBefore : b = <<j, "pre">>
          BY <4>1 DEF RailBefore
        <5>2. i < j
          BY <2>5, <3>1, <5>1 DEF Rails!Earlier
        <5>3. i \in 1 .. RailLastBefore
          BY <1>1, <2>3, <5>2
        <5> QED BY <3>1, <5>3 DEF RailBefore
      <4>2. CASE b \in RailAfter(RailLastAfter)
        <5>1. RailLastAfter # RailN
          BY <1>1, <4>2, RailAfterAll
        <5>2. RailLastBefore = RailN
          BY <2>3, <5>1
        <5> QED BY <3>1, <5>2 DEF RailBefore
      <4> QED BY <4>1, <4>2
    <3>2. ASSUME NEW i \in 0 + 1 .. RailN, Rails!Of("post", guarded.guards[i]), a = <<i, "post">>
          PROVE  a \in RailAfter(RailLastAfter)
      <4>1. CASE b \in RailBefore(RailLastBefore)
        <5>1. PICK j \in 1 .. RailLastBefore : b = <<j, "pre">>
          BY <4>1 DEF RailBefore
        <5> QED BY <2>5, <3>2, <5>1 DEF Rails!Earlier
      <4>2. CASE b \in RailAfter(RailLastAfter)
        <5>1. PICK j \in RailLastAfter + 1 .. RailN : b = <<j, "post">>
          BY <4>2 DEF RailAfter
        <5>2. i > j
          BY <2>5, <3>2, <5>1 DEF Rails!Earlier
        <5>3. i \in RailLastAfter + 1 .. RailN
          BY <1>1, <2>3, <5>2
        <5> QED BY <3>2, <5>3 DEF RailAfter
      <4> QED BY <4>1, <4>2
    <3>3. \/ \E i \in 1 .. RailN : Rails!Of("pre", guarded.guards[i]) /\ a = <<i, "pre">>
          \/ \E i \in 0 + 1 .. RailN : Rails!Of("post", guarded.guards[i]) /\ a = <<i, "post">>
      BY <2>1 DEF RailBefore, RailAfter
    <3> QED BY <3>1, <3>2, <3>3
  <2>6. ASSUME returned.at = "leaving", returned.layer = 0
        PROVE  /\ returned.by = {} => Rails!Asked = Rails!Due
               /\ returned.kind = "adapted" =>
                     returned.by = 1 .. Len(guarded.guards) /\ \A a \in Rails!Asked : a[2] = "pre"
    <3>1. RailLastBefore = RailN /\ RailLastAfter = 0
      BY <2>6 DEF RailLastBefore, RailLastAfter, RailCallInv, RailShaped, RailAtEntry
    <3>2. returned.kind = "adapted" => returned.by = returned.layer + 1 .. RailN
              /\ \A a \in Rails!Asked : a[2] = "pre"
      BY <2>6 DEF RailCallInv, RailInTurn
    <3> QED BY <2>1, <2>2, <2>6, <3>1, <3>2 DEF RailN
  <2> QED BY <2>1, <2>2, <2>4, <2>5, <2>6 DEF Rails!AskedInOrder
<1> QED BY <1>2, <1>3, <1>4

-------------------------------------------------------------------------------
(***************************************************************************)
(* A guardrail of rules.                                                   *)
(***************************************************************************)
\* Where there is no output, what a rule that is not about one sees is the same.
LEMMA RailSeesTheSame ==
    ASSUME NEW rule \in Rails!FieldRules, ~("output" \in rule.all), rule.fields \cap OutFields = {},
           NEW sent, NEW output \in Rails!DataOf(OutFields)
    PROVE  Rails!ValuesOf(rule, sent, output) = Rails!ValuesOf(rule, sent, <<>>)
<1>1. DOMAIN output \subseteq OutFields
  BY DEF Rails!DataOf
<1>2. rule.fields \cap DOMAIN output = {} /\ rule.fields \cap DOMAIN <<>> = {}
  BY <1>1
<1>3. /\ UNION {output[f].values : f \in rule.fields \cap DOMAIN output} = {}
      /\ UNION {<<>>[f].values : f \in rule.fields \cap DOMAIN <<>>} = {}
  BY <1>2
<1> QED BY <1>3 DEF Rails!ValuesOf

LEMMA RailRuleKinds ==
    ASSUME NEW rule \in Rails!Rules
    PROVE  /\ rule.type # "always" => rule \in Rails!FieldRules
           /\ rule.type = "always" => rule.of \in {"input", "output", "both"}
  BY DEF Rails!Rules, Rails!FieldRules, Rails!Always, Rails!Types

\* A rule that is not about an output is violated with one only if it is without.
LEMMA RailViolatedBefore ==
    ASSUME NEW rule \in Rails!Rules, ~Rails!Dependent(rule, {"output", "both"}), NEW sent,
               NEW output \in Rails!DataOf(OutFields)
    PROVE  /\ rule.type # "always" => (Rails!Violated(rule, sent, output) <=> Rails!Violated(rule, sent, <<>>))
           /\ rule.type = "always" => (Rails!Enforced(rule, output) => Rails!Enforced(rule, <<>>))
<1>1. CASE rule.type # "always"
  <2>1. rule \in Rails!FieldRules /\ ~("output" \in rule.all) /\ rule.fields \cap OutFields = {}
    BY <1>1, RailRuleKinds DEF Rails!Dependent
  <2>2. Rails!ValuesOf(rule, sent, output) = Rails!ValuesOf(rule, sent, <<>>)
    BY <2>1, RailSeesTheSame
  <2> QED BY <1>1, <2>2 DEF Rails!Violated
<1>2. CASE rule.type = "always"
  <2>1. rule.of = "input"
    BY <1>2, RailRuleKinds DEF Rails!Dependent
  <2> QED BY <1>2, <2>1 DEF Rails!Enforced
<1> QED BY <1>1, <1>2

LEMMA RailAllBefore ==
    ASSUME NEW rules \in Seq(Rails!Rules), ~Rails!OutputRule(rules, {"output", "both"}), NEW sent,
           NEW output \in Rails!DataOf(OutFields), Rails!AllViolated(rules, sent, output)
    PROVE  Rails!AllViolated(rules, sent, <<>>)
<1> SUFFICES ASSUME NEW i \in DOMAIN rules
             PROVE  IF rules[i].type = "always" THEN Rails!Enforced(rules[i], <<>>)
                        ELSE Rails!Violated(rules[i], sent, <<>>)
  BY DEF Rails!AllViolated
<1>1. rules[i] \in Rails!Rules /\ ~Rails!Dependent(rules[i], {"output", "both"})
  BY DEF Rails!OutputRule
<1>2. IF rules[i].type = "always" THEN Rails!Enforced(rules[i], output)
          ELSE Rails!Violated(rules[i], sent, output)
  BY DEF Rails!AllViolated
<1> QED BY <1>1, <1>2, RailViolatedBefore

\* Of rules about fields there are none that are about both.
LEMMA RailOnFields ==
    ASSUME NEW rules \in Seq(Rails!Rules), \A i \in DOMAIN rules : rules[i].type # "always"
    PROVE  Rails!OutputRule(rules, {"output", "both"}) <=> Rails!OutputRule(rules, {"output"})
<1>1. \A i \in DOMAIN rules : Rails!Dependent(rules[i], {"output", "both"})
          <=> Rails!Dependent(rules[i], {"output"})
  BY DEF Rails!Dependent
<1> QED BY <1>1 DEF Rails!OutputRule

LEMMA RailFewer == ASSUME NEW rules \in Seq(Rails!Rules)
               PROVE  Rails!OutputRule(rules, {"output"}) => Rails!OutputRule(rules, {"output", "both"})
<1>1. \A i \in DOMAIN rules : Rails!Dependent(rules[i], {"output"})
          => Rails!Dependent(rules[i], {"output", "both"})
  BY DEF Rails!Dependent
<1> QED BY <1>1 DEF Rails!OutputRule

\* A rule about fields that is not about an output is so after a call too.
LEMMA RailFieldAfter ==
    ASSUME NEW rules \in Seq(Rails!Rules), NEW sent, NEW output \in Rails!DataOf(OutFields),
               Rails!FailsPre(rules, sent),
           NEW i \in DOMAIN rules, rules[i].type # "always"
    PROVE  Rails!Violated(rules[i], sent, output)
<1>1. rules[i] \in Rails!Rules /\ ~Rails!Dependent(rules[i], {"output"})
  BY DEF Rails!FailsPre, Rails!OutputRule
<1>2. ~Rails!Dependent(rules[i], {"output", "both"})
  BY <1>1 DEF Rails!Dependent
<1>3. Rails!Violated(rules[i], sent, <<>>)
  BY DEF Rails!FailsPre, Rails!AllViolated
<1> QED BY <1>1, <1>2, <1>3, RailViolatedBefore

\* One rule more.
LEMMA RailOneMoreRule ==
    ASSUME NEW rules \in Seq(Rails!Rules), NEW more \in Rails!Rules, NEW sent,
               NEW output \in Rails!DataOf(OutFields),
           ~Rails!FailsPre(rules, sent), ~Rails!FailsPost(rules, sent, output)
    PROVE  ~Rails!FailsPre(Append(rules, more), sent) /\ ~Rails!FailsPost(Append(rules, more), sent, output)
<1> DEFINE all == Append(rules, more)
<1>1. all \in Seq(Rails!Rules) /\ \A i \in DOMAIN rules : i \in DOMAIN all /\ all[i] = rules[i]
  OBVIOUS
<1> HIDE DEF all
<1>2. \A of : Rails!OutputRule(rules, of) => Rails!OutputRule(all, of)
  BY <1>1 DEF Rails!OutputRule
<1>3. \A out : Rails!AllViolated(all, sent, out) => Rails!AllViolated(rules, sent, out)
  BY <1>1 DEF Rails!AllViolated
<1>4. ~Rails!FailsPre(all, sent)
  BY <1>2, <1>3 DEF Rails!FailsPre
<1>5. ASSUME Rails!FailsPost(all, sent, output) PROVE FALSE
  <2>1. Rails!AllViolated(rules, sent, output)
    BY <1>3, <1>5 DEF Rails!FailsPost
  <2>2. ~Rails!OutputRule(rules, {"output", "both"})
    BY <2>1 DEF Rails!FailsPost
  <2>3. Rails!AllViolated(rules, sent, <<>>)
    BY <2>1, <2>2, RailAllBefore
  <2>4. ~Rails!OutputRule(rules, {"output"})
    BY <2>2, RailFewer
  <2> QED BY <2>3, <2>4 DEF Rails!FailsPre
<1> QED BY <1>4, <1>5 DEF all

LEMMA RailRulesHold == ASSUME RailRuleInv PROVE Rails!RulesOnlyExcuse
<1> DEFINE rules == ruled.rules
<1> DEFINE sent == ruled.input
<1> SUFFICES ASSUME ruled.phase = "post" \/ (ruled.phase = "pre" /\ ruled.failed),
                    NEW output \in IF ruled.phase = "post" THEN {ruled.output} ELSE Rails!DataOf(OutFields)
             PROVE  /\ ~ruled.failed /\ rules # <<>> =>
                          \A more \in Rails!Rules : ~(Rails!FailsPre(Append(rules, more), sent)
                                                \/ Rails!FailsPost(Append(rules, more), sent, output))
                    /\ rules # <<>> /\ (\A i \in DOMAIN rules : rules[i].type # "always") =>
                          (ruled.failed <=> Rails!AllViolated(rules, sent, output))
                    /\ ruled.failed => \A i \in DOMAIN rules : rules[i].type # "always" =>
                          ~\E v \in Rails!ValuesOf(rules[i], sent, output) : v.type = rules[i].type /\ ~v.bad
  BY DEF Rails!RulesOnlyExcuse
<1>1. /\ rules \in Seq(Rails!Rules) /\ output \in Rails!DataOf(OutFields)
      /\ ruled.phase = "pre" => Rails!FailsPre(rules, sent) /\ ruled.failed
      /\ ruled.phase = "post" => ~Rails!FailsPre(rules, sent)
         /\ ruled.failed = Rails!FailsPost(rules, sent, output)
  BY DEF RailRuleInv
<1> HIDE DEF rules, sent
<1>2. ~ruled.failed => \A more \in Rails!Rules : ~(Rails!FailsPre(Append(rules, more), sent)
                                             \/ Rails!FailsPost(Append(rules, more), sent, output))
  BY <1>1, RailOneMoreRule
<1>3. ASSUME \A i \in DOMAIN rules : rules[i].type # "always"
      PROVE  ruled.failed <=> Rails!AllViolated(rules, sent, output)
  <2>1. CASE ruled.phase = "pre"
    <3>1. \A i \in DOMAIN rules : Rails!Violated(rules[i], sent, output)
      BY <1>1, <1>3, <2>1, RailFieldAfter
    <3> QED BY <1>1, <1>3, <2>1, <3>1 DEF Rails!AllViolated
  <2>2. CASE ruled.phase = "post"
    <3>1. Rails!OutputRule(rules, {"output", "both"}) <=> Rails!OutputRule(rules, {"output"})
      BY <1>1, <1>3, RailOnFields
    <3>2. Rails!AllViolated(rules, sent, output) => Rails!OutputRule(rules, {"output", "both"})
      <4> SUFFICES ASSUME Rails!AllViolated(rules, sent, output), ~Rails!OutputRule(rules, {"output", "both"})
            PROVE FALSE
        OBVIOUS
      <4>1. Rails!AllViolated(rules, sent, <<>>)
        BY <1>1, RailAllBefore
      <4> QED BY <1>1, <2>2, <3>1, <4>1 DEF Rails!FailsPre
    <3> QED BY <1>1, <2>2, <3>2 DEF Rails!FailsPost
  <2> QED BY <2>1, <2>2
<1>4. ASSUME ruled.failed, NEW i \in DOMAIN rules, rules[i].type # "always"
      PROVE  ~\E v \in Rails!ValuesOf(rules[i], sent, output) : v.type = rules[i].type /\ ~v.bad
  <2>1. CASE ruled.phase = "pre"
    <3>1. Rails!Violated(rules[i], sent, output)
      BY <1>1, <1>4, <2>1, RailFieldAfter
    <3> QED BY <3>1 DEF Rails!Violated
  <2>2. CASE ruled.phase = "post"
    <3>1. Rails!Violated(rules[i], sent, output)
      BY <1>1, <1>4, <2>2 DEF Rails!FailsPost, Rails!AllViolated
    <3> QED BY <3>1 DEF Rails!Violated
  <2> QED BY <2>1, <2>2
<1> QED BY <1>2, <1>3, <1>4

LEMMA RailRuleSteps ==
    ASSUME Rails!GuardrailsAssumption, RailRuleInv, Rails!AskBefore \/ Rails!AskAfter
    PROVE  RailRuleInv'
<1>1. CASE Rails!AskBefore
  <2>1. PICK rules \in Rails!SeqsUpTo(Rails!Rules, MaxRules), sent \in Rails!DataOf(InFields) :
           ruled' = [phase |-> "pre", rules |-> rules, input |-> sent, failed |-> Rails!FailsPre(rules, sent)]
    BY <1>1 DEF Rails!AskBefore
  <2>2. rules \in Seq(Rails!Rules)
    BY RailUpTo DEF Rails!GuardrailsAssumption
  <2> QED BY <2>1, <2>2 DEF RailRuleInv
<1>2. CASE Rails!AskAfter
  <2>1. PICK output \in Rails!DataOf(OutFields) :
           ruled' = [phase |-> "post", rules |-> ruled.rules, input |-> ruled.input, output |-> output,
                     failed |-> Rails!FailsPost(ruled.rules, ruled.input, output)]
    BY <1>2 DEF Rails!AskAfter
  <2>2. ruled.rules \in Seq(Rails!Rules) /\ ruled.input \in Rails!DataOf(InFields)
          /\ ~Rails!FailsPre(ruled.rules, ruled.input)
    BY <1>2 DEF Rails!AskAfter, RailRuleInv
  <2> QED BY <2>1, <2>2 DEF RailRuleInv
<1> QED BY <1>1, <1>2

-------------------------------------------------------------------------------
LEMMA RailStarts == ASSUME Rails!GuardrailsAssumption, Rails!Init PROVE RailIInv
<1>1. CASE guarded \in Rails!Calls /\ returned = Rails!Entering /\ ruled = Rails!NoRules
  BY <1>1, RailCallStarts DEF Rails!Init, RailIInv
<1>2. CASE guarded = [guards |-> <<>>] /\ returned = [Rails!Entering EXCEPT !.at = "never"]
        /\ ruled = Rails!Unasked
  <2>1. RailRuleInv
    BY <1>2 DEF RailRuleInv, Rails!Unasked
  <2> QED BY <1>2, <2>1 DEF Rails!Init, RailIInv
<1> QED BY <1>1, <1>2 DEF Rails!Init

LEMMA RailSteps == ASSUME Rails!GuardrailsAssumption, RailIInv, [Rails!Next]_(Rails!vars) PROVE RailIInv'
<1>1. CASE Rails!Next
  <2>1. CASE ruled = Rails!NoRules /\ RailCallInv
    <3>1. ruled.phase = "none"
      BY <2>1 DEF Rails!NoRules
    <3>2. Rails!Enter \/ Rails!Call \/ Rails!Dispatch \/ Rails!Leave
      BY <1>1, <3>1 DEF Rails!Next, Rails!AskBefore, Rails!AskAfter, Rails!Unasked
    <3>3. RailCallInv'
      BY <2>1, <3>2, RailCallSteps
    <3>4. ruled' = ruled
      BY <3>2 DEF Rails!Enter, Rails!Call, Rails!Dispatch, Rails!Leave
    <3> QED BY <2>1, <3>3, <3>4 DEF RailIInv, Rails!NoRules
  <2>2. CASE /\ guarded = [guards |-> <<>>] /\ asked = <<>> /\ returned = [Rails!Entering EXCEPT !.at = "never"]
             /\ RailRuleInv
    <3>1. returned.at = "never"
      BY <2>2 DEF Rails!Entering
    <3>2. Rails!AskBefore \/ Rails!AskAfter
      BY <1>1, <3>1 DEF Rails!Next, Rails!Enter, Rails!Call, Rails!Dispatch, Rails!Leave
    <3>3. RailRuleInv'
      BY <2>2, <3>2, RailRuleSteps
    <3>4. UNCHANGED Rails!cvars
      BY <3>2 DEF Rails!AskBefore, Rails!AskAfter
    <3> QED BY <2>2, <3>3, <3>4 DEF RailIInv, Rails!cvars, Rails!Entering
  <2> QED BY <2>1, <2>2 DEF RailIInv
<1>2. CASE UNCHANGED Rails!vars
  <2>1. UNCHANGED <<guarded, bound, returned, asked, ruled>>
    BY <1>2 DEF Rails!vars, Rails!cvars
  <2>2. RailCallInv => RailCallInv'
    <3> SUFFICES ASSUME RailCallInv PROVE RailCallInv'
      OBVIOUS
    <3>1. RailPassed'
      BY <2>1, RailSamePassed DEF RailCallInv
    <3>2. RailShaped' /\ RailLeft'
      <4>1. RailShaped'
        BY <2>1 DEF RailCallInv, RailShaped, RailFunction, RailN, RailAtEntry, RailArgumentSets
      <4>2. \A i : Rails!Bad(Rails!Arguments(i))' = Rails!Bad(Rails!Arguments(i))
        BY <2>1 DEF Rails!Bad, Rails!Arguments, Rails!Collected
      <4>3. RailLeft'
        BY <2>1, <4>2 DEF RailCallInv, RailLeft, RailN, Rails!Of
      <4> QED BY <4>1, <4>3
    <3>3. RailInTurn'
      BY <2>1 DEF RailCallInv, RailInTurn, RailLastBefore, RailLastAfter, RailBefore, RailAfter, Rails!Asked,
         Rails!Earlier, RailN, Rails!Of
    <3> QED BY <3>1, <3>2, <3>3 DEF RailCallInv
  <2>3. RailRuleInv => RailRuleInv'
    BY <2>1 DEF RailRuleInv
  <2> QED BY <2>1, <2>2, <2>3 DEF RailIInv
<1> QED BY <1>1, <1>2

LEMMA RailHolds ==
    ASSUME Rails!GuardrailsAssumption, RailIInv
    PROVE  Rails!NothingBadPasses /\ Rails!NothingBadReturns /\ Rails!AskedInOrder /\ Rails!RulesOnlyExcuse
<1>1. CASE ruled = Rails!NoRules /\ RailCallInv
  <2>1. Rails!RulesOnlyExcuse
    BY <1>1 DEF Rails!RulesOnlyExcuse, Rails!NoRules
  <2> QED BY <1>1, <2>1, RailCallHolds
<1>2. CASE /\ guarded = [guards |-> <<>>] /\ asked = <<>> /\ returned = [Rails!Entering EXCEPT !.at = "never"]
           /\ RailRuleInv
  <2>1. returned.at = "never" /\ returned.by = {} /\ DOMAIN asked = {} /\ DOMAIN guarded.guards = {}
    BY <1>2 DEF Rails!Entering
  <2>2. Rails!Due = {} /\ Rails!Asked = {}
    BY <2>1 DEF Rails!Due, Rails!GuardsOf, Rails!Asked
  <2>3. Rails!NothingBadPasses /\ Rails!NothingBadReturns
    BY <2>1 DEF Rails!NothingBadPasses, Rails!Called, Rails!NothingBadReturns
  <2>4. Rails!AskedInOrder
    BY <2>1, <2>2 DEF Rails!AskedInOrder
  <2> QED BY <1>2, <2>3, <2>4, RailRulesHold
<1> QED BY <1>1, <1>2 DEF RailIInv

\* What a guardrail that says so finds bad gets neither into the function nor out
\* of it; the guardrails are asked from the outside in about the arguments and from
\* the inside out about the value, each once; and one more rule never makes a
\* guardrail of rules fail, for any number of guardrails and rules
\* (decorators/_core.py _wrap_function, _dispatch_return;
\* deterministic_guardrails_service.py).
THEOREM GuardrailsAlwaysHold == Spec => []GuardrailsHold
<1> DEFINE Inv == service = "guardrails" => RailIInv
<1>1. Rails!GuardrailsAssumption
  BY ServicesAssumption
<1>2. Init => Inv
  BY <1>1, RailStarts DEF Init
<1>3. Inv /\ [Next]_vars => Inv'
  BY <1>1, OneService, RailSteps
<1>4. Inv => GuardrailsHold
  BY <1>1, RailHolds DEF GuardrailsHold
<1> HIDE DEF Inv
<1> QED BY <1>2, <1>3, <1>4, PTL DEF Spec

-------------------------------------------------------------------------------
(***************************************************************************)
(* LlmGateway, for any calls, limits and loops.                            *)
(*                                                                         *)
(* The argument: a slot of the current semaphore is free or somebody's,    *)
(* none is free while a call waits, and who waits is in its queue, once    *)
(* (Slots). That holds only because a semaphore of another loop is never   *)
(* used again (Held): a call that waits or sends does so with the current  *)
(* one, and it is of the loop that runs.                                   *)
(***************************************************************************)
\* What a semaphore and a call are like.
GatewaySemaphores == [loop : Nat, free : Nat, waiters : Seq(GatewayCalls)]
GatewayRecords ==
    [pc : {"idle", "discovering", "waiting", "sending", "ended", "loop error"}, model : Models \cup {None},
     config : Configs \cup {None}, sem : Nat, tries : Nat, sent : {"nothing", "temperature", "no temperature"}]
GatewayTyped ==
    /\ limit \in Nat \ {0} /\ loop \in Nat /\ running \in BOOLEAN
    /\ semaphores \in Seq(GatewaySemaphores) /\ semaphore \in 0 .. Len(semaphores)
    /\ details \in [Configs -> (SUBSET Models) \cup {None}] /\ unread \subseteq Configs
    /\ call \in [GatewayCalls -> GatewayRecords]

\* The current semaphore is of the loop that runs, or ran last; none is of a later one.
GatewayFresh == semaphore # 0 /\ semaphores[semaphore].loop = loop
GatewayPast == \A s \in DOMAIN semaphores : semaphores[s].loop <= loop

\* Who waits or sends does so with the current semaphore, while its loop runs.
GatewayHeld ==
    \A c \in GatewayCalls :
       /\ call[c].pc \in {"waiting", "sending"} => GatewayFresh /\ call[c].sem = semaphore
       /\ Gateway!Active(c) => running

\* In the current semaphore a slot is free or somebody's, none is free while one
\* waits, and its queue holds those who wait, each once.
GatewayQueue == semaphores[semaphore].waiters
GatewaySlots ==
    GatewayFresh =>
       /\ semaphores[semaphore].free + Cardinality(Gateway!Sending) = limit
       /\ GatewayQueue # <<>> => semaphores[semaphore].free = 0
       /\ \A i \in DOMAIN GatewayQueue : call[GatewayQueue[i]].pc = "waiting"
       /\ \A i, j \in DOMAIN GatewayQueue : GatewayQueue[i] = GatewayQueue[j] => i = j
       /\ \A c \in GatewayCalls : call[c].pc = "waiting" => \E i \in DOMAIN GatewayQueue : GatewayQueue[i] = c

\* What is cached was read, or a discovery failed.
GatewayCached == \A k \in Configs : details[k] \in {None, Rejecting[k]} \/ k \in unread
GatewayAsked ==
    \A c \in GatewayCalls : call[c].pc = "discovering" =>
        call[c].model \in Models /\ call[c].config \in Configs /\ call[c].sent = "nothing"

GatewayIInv == GatewayTyped /\ GatewayPast /\ GatewayHeld /\ GatewaySlots /\ GatewayCached /\ GatewayAsked
                               /\ Gateway!LoopsApart /\ Gateway!Stripped

LEMMA GatewayCardinality ==
    /\ \A S : Gateway!Cardinality(S) = Cardinality(S)
    /\ \A S : Gateway!IsFiniteSet(S) <=> IsFiniteSet(S)
<1>1. \A S : Gateway!IsFiniteSet(S) <=> IsFiniteSet(S)
  BY DEF Gateway!IsFiniteSet, IsFiniteSet
<1>2. \A S : Gateway!Cardinality(S) = Cardinality(S)
  BY DEF Gateway!Cardinality, Cardinality, Gateway!IsFiniteSet, IsFiniteSet
<1> QED BY <1>1, <1>2

LEMMA GatewayAppendIs ==
    ASSUME NEW S, NEW q \in Seq(S), NEW x \in S
    PROVE  /\ Append(q, x) \in Seq(S) /\ Len(Append(q, x)) = Len(q) + 1
           /\ \A i \in DOMAIN q : Append(q, x)[i] = q[i]
           /\ Append(q, x)[Len(q) + 1] = x
           /\ DOMAIN Append(q, x) = DOMAIN q \cup {Len(q) + 1} /\ Len(q) + 1 \notin DOMAIN q
  OBVIOUS

LEMMA GatewayTailIs ==
    ASSUME NEW S, NEW q \in Seq(S), q # <<>>
    PROVE  /\ Head(q) \in S /\ Head(q) = q[1] /\ 1 \in DOMAIN q
           /\ Tail(q) \in Seq(S) /\ Len(Tail(q)) = Len(q) - 1
           /\ \A i \in DOMAIN Tail(q) : i + 1 \in DOMAIN q /\ Tail(q)[i] = q[i + 1]
           /\ \A j \in DOMAIN q : j # 1 => j - 1 \in DOMAIN Tail(q) /\ Tail(q)[j - 1] = q[j]
  OBVIOUS

LEMMA GatewayConcatIs ==
    ASSUME NEW S, NEW a \in Seq(S), NEW b \in Seq(S)
    PROVE  /\ a \o b \in Seq(S) /\ Len(a \o b) = Len(a) + Len(b)
           /\ \A j \in 1 .. Len(a) + Len(b) : (a \o b)[j] = IF j <= Len(a) THEN a[j] ELSE b[j - Len(a)]
  OBVIOUS

LEMMA GatewayWithoutIs ==
    ASSUME NEW S, NEW q \in Seq(S), NEW i \in DOMAIN q
    PROVE  /\ Gateway!Without(q, i) \in Seq(S) /\ Len(Gateway!Without(q, i)) = Len(q) - 1
           /\ \A j \in DOMAIN Gateway!Without(q, i) : Gateway!Without(q, i)[j] = IF j < i THEN q[j] ELSE q[j + 1]
  <1> DEFINE a == SubSeq(q, 1, i - 1)
             b == SubSeq(q, i + 1, Len(q))
  <1>1. a \in Seq(S) /\ Len(a) = i - 1 /\ \A j \in 1 .. i - 1 : a[j] = q[j]
    OBVIOUS
  <1>2. b \in Seq(S) /\ Len(b) = Len(q) - i /\ \A j \in 1 .. Len(q) - i : b[j] = q[j + i]
    OBVIOUS
  <1> HIDE DEF a, b
  <1>3. /\ a \o b \in Seq(S) /\ Len(a \o b) = Len(a) + Len(b)
        /\ \A j \in 1 .. Len(a) + Len(b) : (a \o b)[j] = IF j <= Len(a) THEN a[j] ELSE b[j - Len(a)]
    BY <1>1, <1>2, GatewayConcatIs
  <1>4. Gateway!Without(q, i) = a \o b
    BY DEF Gateway!Without, a, b
  <1>5. i \in Nat /\ i >= 1 /\ i <= Len(q) /\ Len(q) \in Nat
    OBVIOUS
  <1>6. Len(a \o b) = Len(q) - 1 /\ DOMAIN (a \o b) = 1 .. Len(q) - 1
    BY <1>1, <1>2, <1>3, <1>5
  <1>7. ASSUME NEW j \in 1 .. Len(q) - 1 PROVE (a \o b)[j] = IF j < i THEN q[j] ELSE q[j + 1]
    <2>1. CASE j < i
      BY <1>1, <1>2, <1>3, <1>5, <2>1
    <2>2. CASE ~(j < i)
      <3>1. j - (i - 1) \in 1 .. Len(q) - i /\ ~(j <= Len(a)) /\ j - (i - 1) + i = j + 1
        BY <1>1, <1>5, <2>2
      <3>2. j \in 1 .. Len(a) + Len(b) /\ j - Len(a) = j - (i - 1)
        BY <1>1, <1>2, <1>5
      <3>3. (a \o b)[j] = b[j - (i - 1)]
        BY <1>3, <3>1, <3>2
      <3> QED BY <1>2, <2>2, <3>1, <3>3
    <2> QED BY <2>1, <2>2
  <1> QED BY <1>3, <1>4, <1>6, <1>7

\* One more and one less in a part of the calls.
LEMMA GatewayOneMore ==
    ASSUME Gateway!GatewayAssumption, NEW S \in SUBSET GatewayCalls, NEW c \in GatewayCalls, c \notin S
    PROVE  Cardinality(S) \in Nat /\ Cardinality(S \cup {c}) = Cardinality(S) + 1
  <1>1. IsFiniteSet(S)
    BY GatewayCardinality, FS_Subset DEF Gateway!GatewayAssumption
  <1>2. Cardinality(S) \in Nat
    BY <1>1, FS_CardinalityType
  <1>3. Cardinality(S \cup {c}) = Cardinality(S) + 1
    BY <1>1, FS_AddElement
  <1> QED BY <1>2, <1>3

LEMMA GatewayAcquireInv ==
    ASSUME Gateway!GatewayAssumption, GatewayIInv, NEW c \in GatewayCalls, NEW r \in GatewayRecords, running,
           call[c].pc \in {"idle", "discovering"}, Gateway!Acquire(c, r), UNCHANGED <<limit, loop, running>>
    PROVE  /\ semaphores' \in Seq(GatewaySemaphores) /\ semaphore' \in 0 .. Len(semaphores')
           /\ GatewayPast' /\ GatewayHeld' /\ GatewaySlots'
           /\ call' \in [GatewayCalls -> GatewayRecords] /\ \A d \in GatewayCalls : d # c => call'[d] = call[d]
           /\ call'[c].pc \in {"sending", "waiting"} /\ call'[c].model = r.model
           /\ call'[c].config = r.config /\ call'[c].sent = r.sent
<1> DEFINE sems == IF Gateway!Stale THEN Append(semaphores, Gateway!NewSemaphore) ELSE semaphores
           s == IF Gateway!Stale THEN Len(sems) ELSE semaphore
           mine(pc) == [r EXCEPT !.sem = s, !.tries = 1, !.pc = pc]
<1>t. /\ limit \in Nat \ {0} /\ loop \in Nat /\ semaphores \in Seq(GatewaySemaphores)
         /\ semaphore \in 0 .. Len(semaphores)
      /\ call \in [GatewayCalls -> GatewayRecords]
  BY DEF GatewayIInv, GatewayTyped
<1>1. /\ sems \in Seq(GatewaySemaphores) /\ s \in 1 .. Len(sems) /\ sems[s].loop = loop
      /\ \A t \in DOMAIN sems : sems[t].loop <= loop
  <2>1. CASE Gateway!Stale
    <3>1. Gateway!NewSemaphore \in GatewaySemaphores /\ Gateway!NewSemaphore.loop = loop
      BY <1>t DEF Gateway!NewSemaphore, GatewaySemaphores
    <3> QED BY <1>t, <2>1, <3>1, GatewayAppendIs DEF GatewayIInv, GatewayPast
  <2>2. CASE ~Gateway!Stale
    BY <1>t, <2>2 DEF Gateway!Stale, GatewayIInv, GatewayPast
  <2> QED BY <2>1, <2>2
<1>2. sems[s] \in GatewaySemaphores /\ sems[s].free \in Nat /\ sems[s].waiters \in Seq(GatewayCalls)
  <2>1. sems[s] \in GatewaySemaphores
    BY <1>1
  <2> QED BY <2>1 DEF GatewaySemaphores
<1>3. /\ sems[s].free + Cardinality(Gateway!Sending) = limit
      /\ sems[s].waiters # <<>> => sems[s].free = 0
      /\ \A i \in DOMAIN sems[s].waiters : call[sems[s].waiters[i]].pc = "waiting"
      /\ \A i, j \in DOMAIN sems[s].waiters : sems[s].waiters[i] = sems[s].waiters[j] => i = j
      /\ \A d \in GatewayCalls : call[d].pc = "waiting" => \E i \in DOMAIN sems[s].waiters : sems[s].waiters[i] = d
  <2>1. CASE Gateway!Stale
    <3>1. Gateway!Sending = {} /\ \A d \in GatewayCalls : call[d].pc # "waiting"
      BY <2>1 DEF Gateway!Stale, GatewayIInv, GatewayHeld, GatewayFresh, Gateway!Sending, Gateway!At
    <3>2. sems[s] = Gateway!NewSemaphore
      BY <1>t, <2>1, GatewayAppendIs DEF Gateway!NewSemaphore, GatewaySemaphores
    <3>3. Cardinality(Gateway!Sending) = 0
      BY <3>1, FS_EmptySet
    <3> QED BY <1>t, <3>1, <3>2, <3>3 DEF Gateway!NewSemaphore
  <2>2. CASE ~Gateway!Stale
    BY <2>2 DEF Gateway!Stale, GatewayIInv, GatewaySlots, GatewayFresh, GatewayQueue
  <2> QED BY <2>1, <2>2
<1>4. /\ semaphore' = s
      /\ \/ /\ sems[s].free > 0 /\ sems[s].waiters = <<>>
            /\ semaphores' = [sems EXCEPT ![s].free = @ - 1]
            /\ call' = [call EXCEPT ![c] = mine("sending")]
         \/ /\ sems[s].free = 0
            /\ semaphores' = [sems EXCEPT ![s].waiters = Append(@, c)]
            /\ call' = [call EXCEPT ![c] = mine("waiting")]
  <2> HIDE DEF sems, s
  <2>1. sems[s].free > 0 \/ sems[s].free = 0
    BY <1>2
  <2> USE DEF sems, s
  <2> QED BY <1>1, <1>3, <2>1 DEF Gateway!Acquire
<1>5. c \notin Gateway!Sending /\ call[c].pc # "waiting" /\ \A d \in GatewayCalls : Gateway!Active(d) => running
  BY DEF Gateway!Sending, Gateway!At, GatewayIInv, GatewayHeld
<1>6. \A d \in GatewayCalls : call[d].pc \in {"waiting", "sending"} => ~Gateway!Stale /\ call[d].sem = semaphore
  BY DEF GatewayIInv, GatewayHeld, GatewayFresh, Gateway!Stale
<1>7. \A pc \in {"sending", "waiting"} :
         /\ mine(pc) \in GatewayRecords /\ mine(pc).pc = pc /\ mine(pc).sem = s
         /\ mine(pc).model = r.model /\ mine(pc).config = r.config /\ mine(pc).sent = r.sent
  <2>1. s \in Nat
    BY <1>1, <1>t
  <2> HIDE DEF s
  <2> QED BY <2>1 DEF GatewayRecords
<1>8. \A d \in GatewayCalls : call[d].pc \in {"waiting", "sending"} => call[d].sem = s
  BY <1>6
<1> HIDE DEF sems, s, mine
<1>9. CASE /\ sems[s].free > 0 /\ sems[s].waiters = <<>>
           /\ semaphores' = [sems EXCEPT ![s].free = @ - 1]
           /\ call' = [call EXCEPT ![c] = mine("sending")]
  <2>1. /\ semaphores' \in Seq(GatewaySemaphores) /\ Len(semaphores') = Len(sems)
        /\ \A t \in DOMAIN semaphores' : t \in DOMAIN sems /\ semaphores'[t].loop = sems[t].loop
        /\ semaphores'[s].free = sems[s].free - 1 /\ semaphores'[s].waiters = <<>>
    <3>1. [sems[s] EXCEPT !.free = @ - 1] \in GatewaySemaphores
      BY <1>2, <1>9 DEF GatewaySemaphores
    <3>2. semaphores' = [sems EXCEPT ![s] = [sems[s] EXCEPT !.free = @ - 1]]
      BY <1>1, <1>9
    <3>3. /\ [sems[s] EXCEPT !.free = @ - 1].loop = sems[s].loop
          /\ [sems[s] EXCEPT !.free = @ - 1].free = sems[s].free - 1
          /\ [sems[s] EXCEPT !.free = @ - 1].waiters = <<>>
      BY <1>2, <1>9 DEF GatewaySemaphores
    <3> QED BY <1>1, <3>1, <3>2, <3>3
  <2>2. /\ call' \in [GatewayCalls -> GatewayRecords] /\ call'[c] = mine("sending")
        /\ \A d \in GatewayCalls : d # c => call'[d] = call[d]
    BY <1>t, <1>7, <1>9
  <2>3. Gateway!Sending' = Gateway!Sending \cup {c}
    BY <1>7, <2>2 DEF Gateway!Sending, Gateway!At
  <2>4. Cardinality(Gateway!Sending)' = Cardinality(Gateway!Sending) + 1 /\ Cardinality(Gateway!Sending) \in Nat
    BY <1>5, <2>3, GatewayOneMore DEF Gateway!Sending
  <2>5. GatewayPast'
    BY <1>1, <2>1 DEF GatewayPast
  <2>6. GatewayFresh'
    BY <1>1, <1>4, <2>1 DEF GatewayFresh
  <2>7. GatewayHeld'
    BY <1>4, <1>5, <1>7, <1>8, <2>2, <2>6 DEF GatewayHeld, Gateway!Active
  <2>8. GatewaySlots'
    BY <1>2, <1>3, <1>4, <1>7, <1>9, <2>1, <2>2, <2>4 DEF GatewaySlots, GatewayQueue
  <2> QED BY <1>1, <1>4, <1>7, <2>1, <2>2, <2>5, <2>7, <2>8
<1>10. CASE /\ sems[s].free = 0
            /\ semaphores' = [sems EXCEPT ![s].waiters = Append(@, c)]
            /\ call' = [call EXCEPT ![c] = mine("waiting")]
  <2> DEFINE q == sems[s].waiters
  <2>0. /\ Append(q, c) \in Seq(GatewayCalls) /\ Append(q, c)[Len(q) + 1] = c
           /\ \A i \in DOMAIN q : Append(q, c)[i] = q[i]
        /\ DOMAIN Append(q, c) = DOMAIN q \cup {Len(q) + 1} /\ Len(q) + 1 \notin DOMAIN q
    BY <1>2, GatewayAppendIs
  <2>1. /\ semaphores' \in Seq(GatewaySemaphores) /\ Len(semaphores') = Len(sems)
        /\ \A t \in DOMAIN semaphores' : t \in DOMAIN sems /\ semaphores'[t].loop = sems[t].loop
        /\ semaphores'[s].free = 0 /\ semaphores'[s].waiters = Append(q, c)
    <3> DEFINE new == [sems[s] EXCEPT !.waiters = Append(@, c)]
    <3>1. new \in GatewaySemaphores /\ new.loop = sems[s].loop /\ new.free = sems[s].free
            /\ new.waiters = Append(q, c)
      BY <1>2, <2>0 DEF GatewaySemaphores
    <3>2. semaphores' = [sems EXCEPT ![s] = new]
      BY <1>1, <1>10
    <3> HIDE DEF new
    <3>3. semaphores' \in Seq(GatewaySemaphores) /\ Len(semaphores') = Len(sems)
            /\ DOMAIN semaphores' = DOMAIN sems
      BY <1>1, <3>1, <3>2
    <3>4. \A t \in DOMAIN sems : semaphores'[t] = IF t = s THEN new ELSE sems[t]
      BY <1>1, <3>2
    <3> QED BY <1>1, <1>10, <3>1, <3>3, <3>4
  <2> HIDE DEF q
  <2>2. /\ call' \in [GatewayCalls -> GatewayRecords] /\ call'[c] = mine("waiting")
        /\ \A d \in GatewayCalls : d # c => call'[d] = call[d]
    BY <1>t, <1>7, <1>10
  <2>3. Gateway!Sending' = Gateway!Sending
    BY <1>5, <1>7, <2>2 DEF Gateway!Sending, Gateway!At
  <2>5. GatewayPast'
    BY <1>1, <2>1 DEF GatewayPast
  <2>6. GatewayFresh'
    BY <1>1, <1>4, <2>1 DEF GatewayFresh
  <2>7. GatewayHeld'
    BY <1>4, <1>5, <1>7, <1>8, <2>2, <2>6 DEF GatewayHeld, Gateway!Active
  <2>8. q \in Seq(GatewayCalls) /\ \A i \in DOMAIN q : q[i] # c /\ q[i] \in GatewayCalls
    BY <1>2, <1>3, <1>5 DEF q
  <2>9. GatewaySlots'
    <3>1. /\ \A i \in DOMAIN q : call[q[i]].pc = "waiting"
          /\ \A i, j \in DOMAIN q : q[i] = q[j] => i = j
          /\ \A d \in GatewayCalls : call[d].pc = "waiting" => \E i \in DOMAIN q : q[i] = d
          /\ 0 + Cardinality(Gateway!Sending) = limit
      BY <1>3, <1>10 DEF q
    <3>2. GatewayQueue' = Append(q, c) /\ semaphores'[semaphore'].free = 0
      BY <1>4, <2>1 DEF GatewayQueue
    <3>3. \A i \in DOMAIN Append(q, c) : call'[Append(q, c)[i]].pc = "waiting"
      BY <1>7, <2>0, <2>2, <2>8, <3>1
    <3>4. \A i, j \in DOMAIN Append(q, c) : Append(q, c)[i] = Append(q, c)[j] => i = j
      BY <2>0, <2>8, <3>1
    <3>5. \A d \in GatewayCalls : call'[d].pc = "waiting" => \E i \in DOMAIN Append(q, c) : Append(q, c)[i] = d
      BY <2>0, <2>2, <3>1
    <3> QED BY <2>3, <3>1, <3>2, <3>3, <3>4, <3>5 DEF GatewaySlots
  <2> QED BY <1>1, <1>4, <1>7, <2>1, <2>2, <2>5, <2>7, <2>9
<1> QED BY <1>4, <1>9, <1>10

LEMMA GatewayReleaseInv ==
    ASSUME Gateway!GatewayAssumption, GatewayIInv, NEW c \in GatewayCalls, call[c].pc = "sending", Gateway!Release(c),
           UNCHANGED <<limit, semaphore, loop, running>>
    PROVE  /\ semaphores' \in Seq(GatewaySemaphores) /\ semaphore' \in 0 .. Len(semaphores')
           /\ GatewayPast' /\ GatewayHeld' /\ GatewaySlots' /\ call' \in [GatewayCalls -> GatewayRecords]
              /\ call'[c] = Gateway!Ended
           /\ \A d \in GatewayCalls : d # c =>
                 \/ call'[d] = call[d]
                 \/ call[d].pc = "waiting" /\ call'[d] = [call[d] EXCEPT !.pc = "sending"]
<1> DEFINE s == semaphore
           q == semaphores[s].waiters
<1>t. /\ limit \in Nat \ {0} /\ loop \in Nat /\ semaphores \in Seq(GatewaySemaphores)
         /\ semaphore \in 0 .. Len(semaphores)
      /\ call \in [GatewayCalls -> GatewayRecords]
  BY DEF GatewayIInv, GatewayTyped
<1>1. /\ GatewayFresh /\ call[c].sem = s /\ s \in DOMAIN semaphores /\ running
  BY <1>t DEF GatewayIInv, GatewayHeld, GatewayFresh, Gateway!Active
<1>2. semaphores[s] \in GatewaySemaphores /\ semaphores[s].free \in Nat /\ q \in Seq(GatewayCalls)
  <2>1. semaphores[s] \in GatewaySemaphores
    BY <1>1, <1>t
  <2> QED BY <2>1 DEF GatewaySemaphores
<1>3. /\ semaphores[s].free + Cardinality(Gateway!Sending) = limit
      /\ q # <<>> => semaphores[s].free = 0
      /\ \A i \in DOMAIN q : q[i] \in GatewayCalls /\ call[q[i]].pc = "waiting"
      /\ \A i, j \in DOMAIN q : q[i] = q[j] => i = j
      /\ \A d \in GatewayCalls : call[d].pc = "waiting" => \E i \in DOMAIN q : q[i] = d
  BY <1>1, <1>2 DEF GatewayIInv, GatewaySlots, GatewayQueue
<1>4. Gateway!Ended \in GatewayRecords /\ Gateway!Ended.pc = "ended"
  BY DEF Gateway!Ended, Gateway!NoCall, GatewayRecords
<1>5. \A d \in GatewayCalls : call[d].pc \in {"waiting", "sending"} => call[d].sem = s
  BY DEF GatewayIInv, GatewayHeld
<1>6. Gateway!Sending \subseteq GatewayCalls /\ c \in Gateway!Sending
  BY DEF Gateway!Sending, Gateway!At
<1> HIDE DEF s
<1>7. CASE q = <<>>
  <2>1. /\ semaphores' = [semaphores EXCEPT ![s].free = @ + 1]
        /\ call' = [call EXCEPT ![c] = Gateway!Ended]
    BY <1>1, <1>7 DEF Gateway!Release
  <2>2. /\ semaphores' \in Seq(GatewaySemaphores) /\ Len(semaphores') = Len(semaphores)
        /\ \A t \in DOMAIN semaphores' : t \in DOMAIN semaphores /\ semaphores'[t].loop = semaphores[t].loop
        /\ semaphores'[s].free = semaphores[s].free + 1 /\ semaphores'[s].waiters = <<>>
    <3> DEFINE new == [semaphores[s] EXCEPT !.free = @ + 1]
    <3>1. new \in GatewaySemaphores /\ new.loop = semaphores[s].loop /\ new.free = semaphores[s].free + 1
            /\ new.waiters = <<>>
      BY <1>2, <1>7 DEF GatewaySemaphores
    <3>2. semaphores' = [semaphores EXCEPT ![s] = new]
      BY <1>1, <2>1
    <3> HIDE DEF new
    <3>3. semaphores' \in Seq(GatewaySemaphores) /\ Len(semaphores') = Len(semaphores)
            /\ DOMAIN semaphores' = DOMAIN semaphores
      BY <1>1, <1>t, <3>1, <3>2
    <3>4. \A t \in DOMAIN semaphores : semaphores'[t] = IF t = s THEN new ELSE semaphores[t]
      BY <1>1, <3>2
    <3> QED BY <1>1, <3>1, <3>3, <3>4
  <2>3. call' \in [GatewayCalls -> GatewayRecords] /\ call'[c] = Gateway!Ended
          /\ \A d \in GatewayCalls : d # c => call'[d] = call[d]
    BY <1>t, <1>4, <2>1
  <2>4. Gateway!Sending = Gateway!Sending' \cup {c} /\ c \notin Gateway!Sending'
          /\ Gateway!Sending' \subseteq GatewayCalls
    BY <1>4, <1>6, <2>3 DEF Gateway!Sending, Gateway!At
  <2>5. Cardinality(Gateway!Sending) = Cardinality(Gateway!Sending)' + 1 /\ Cardinality(Gateway!Sending)' \in Nat
    BY <2>4, GatewayOneMore
  <2>6. GatewayPast' /\ GatewayFresh'
    BY <1>1, <2>2 DEF GatewayIInv, GatewayPast, GatewayFresh, s
  <2>7. GatewayHeld'
    BY <1>1, <1>4, <2>3, <2>6 DEF GatewayIInv, GatewayHeld, Gateway!Active, s
  <2>8. GatewaySlots'
    <3>0. semaphores'[semaphore'].free = semaphores[s].free + 1 /\ GatewayQueue' = <<>> /\ limit' = limit
      BY <2>2 DEF GatewayQueue, s
    <3>f. semaphores[s].free \in Nat /\ semaphores[s].free + Cardinality(Gateway!Sending) = limit
      BY <1>2, <1>3
    <3>n. (semaphores[s].free + 1) + Cardinality(Gateway!Sending)' = limit
      BY <2>5, <3>f
    <3>1. semaphores'[semaphore'].free + Cardinality(Gateway!Sending)' = limit' /\ GatewayQueue' = <<>>
      BY <3>0, <3>n
    <3>2. \A d \in GatewayCalls : call'[d].pc # "waiting"
      BY <1>3, <1>4, <1>7, <2>3
    <3> QED BY <3>1, <3>2 DEF GatewaySlots
  <2> QED BY <1>t, <2>2, <2>3, <2>6, <2>7, <2>8
<1>8. CASE q # <<>>
  <2> DEFINE h == Head(q)
  <2>1. /\ semaphores' = [semaphores EXCEPT ![s].waiters = Tail(@)]
        /\ call' = [call EXCEPT ![c] = Gateway!Ended, ![h].pc = "sending"]
    BY <1>1, <1>8 DEF Gateway!Release
  <2>2. /\ h \in GatewayCalls /\ h = q[1] /\ 1 \in DOMAIN q /\ Tail(q) \in Seq(GatewayCalls)
        /\ \A i \in DOMAIN Tail(q) : i \in Nat /\ i + 1 # 1 /\ i + 1 \in DOMAIN q /\ Tail(q)[i] = q[i + 1]
        /\ \A j \in DOMAIN q : j # 1 => j - 1 \in DOMAIN Tail(q) /\ Tail(q)[j - 1] = q[j]
    BY <1>2, <1>8, GatewayTailIs
  <2>3. call[h].pc = "waiting" /\ h # c
    BY <1>3, <2>2
  <2> HIDE DEF h
  <2>4. /\ semaphores' \in Seq(GatewaySemaphores) /\ Len(semaphores') = Len(semaphores)
        /\ \A t \in DOMAIN semaphores' : t \in DOMAIN semaphores /\ semaphores'[t].loop = semaphores[t].loop
        /\ semaphores'[s].free = semaphores[s].free /\ semaphores'[s].waiters = Tail(q)
    <3> DEFINE new == [semaphores[s] EXCEPT !.waiters = Tail(@)]
    <3>1. new \in GatewaySemaphores /\ new.loop = semaphores[s].loop /\ new.free = semaphores[s].free
            /\ new.waiters = Tail(q)
      BY <1>2, <2>2 DEF GatewaySemaphores
    <3>2. semaphores' = [semaphores EXCEPT ![s] = new]
      BY <1>1, <2>1
    <3> HIDE DEF new
    <3>3. semaphores' \in Seq(GatewaySemaphores) /\ Len(semaphores') = Len(semaphores)
            /\ DOMAIN semaphores' = DOMAIN semaphores
      BY <1>1, <1>t, <3>1, <3>2
    <3>4. \A t \in DOMAIN semaphores : semaphores'[t] = IF t = s THEN new ELSE semaphores[t]
      BY <1>1, <3>2
    <3> QED BY <1>1, <3>1, <3>3, <3>4
  <2>5. /\ call' \in [GatewayCalls -> GatewayRecords] /\ call'[c] = Gateway!Ended
           /\ call'[h] = [call[h] EXCEPT !.pc = "sending"]
        /\ \A d \in GatewayCalls : d # c /\ d # h => call'[d] = call[d]
    <3>0. call[h] \in GatewayRecords
      BY <1>t, <2>2
    <3>1. [call[h] EXCEPT !.pc = "sending"] \in GatewayRecords
      BY <3>0 DEF GatewayRecords
    <3>2. call' = [[call EXCEPT ![c] = Gateway!Ended] EXCEPT ![h] = [call[h] EXCEPT !.pc = "sending"]]
      BY <1>t, <2>1, <2>2, <2>3
    <3> QED BY <1>t, <1>4, <2>2, <2>3, <3>1, <3>2
  <2>6. call'[h].pc = "sending" /\ call'[h].sem = call[h].sem
    <3>1. call[h] \in GatewayRecords
      BY <1>t, <2>2
    <3> QED BY <2>5, <3>1 DEF GatewayRecords
  <2>7. DEFINE A == Gateway!Sending \ {c}
  <2>8. Gateway!Sending = A \cup {c} /\ c \notin A /\ Gateway!Sending' = A \cup {h} /\ h \notin A
          /\ A \subseteq GatewayCalls
    BY <1>4, <1>6, <2>2, <2>3, <2>5, <2>6 DEF Gateway!Sending, Gateway!At
  <2> HIDE DEF A
  <2>9. Cardinality(Gateway!Sending)' = Cardinality(Gateway!Sending)
    <3>1. Cardinality(Gateway!Sending) = Cardinality(A) + 1
      BY <2>8, GatewayOneMore
    <3>2. Cardinality(Gateway!Sending)' = Cardinality(A) + 1
      BY <2>2, <2>8, GatewayOneMore
    <3> QED BY <3>1, <3>2
  <2>10. GatewayPast' /\ GatewayFresh'
    BY <1>1, <2>4 DEF GatewayIInv, GatewayPast, GatewayFresh, s
  <2>11. GatewayHeld'
    <3>1. \A d \in GatewayCalls : d # c => call'[d].sem = call[d].sem /\ (call'[d].pc = call[d].pc \/ d = h)
      BY <2>5, <2>6
    <3>2. call[h].sem = s
      BY <1>5, <2>2, <2>3
    <3>3. \A d \in GatewayCalls : call'[d].pc \in {"waiting", "sending"} => call'[d].sem = s
      BY <1>4, <1>5, <2>5, <3>1, <3>2
    <3> QED BY <1>1, <2>10, <3>3 DEF GatewayHeld, s
  <2>12. GatewaySlots'
    <3>1. \A i \in DOMAIN Tail(q) : call'[Tail(q)[i]].pc = "waiting"
      <4> SUFFICES ASSUME NEW i \in DOMAIN Tail(q) PROVE call'[Tail(q)[i]].pc = "waiting"
        OBVIOUS
      <4>1. i + 1 \in DOMAIN q /\ i + 1 # 1 /\ Tail(q)[i] = q[i + 1]
        BY <2>2
      <4>2. q[i + 1] # h /\ q[i + 1] # c /\ q[i + 1] \in GatewayCalls /\ call[q[i + 1]].pc = "waiting"
        BY <1>3, <2>2, <4>1
      <4> QED BY <2>5, <4>1, <4>2
    <3>2. \A i, j \in DOMAIN Tail(q) : Tail(q)[i] = Tail(q)[j] => i = j
      BY <1>3, <2>2
    <3>3. ASSUME NEW d \in GatewayCalls, call'[d].pc = "waiting" PROVE \E i \in DOMAIN Tail(q) : Tail(q)[i] = d
      <4>1. d # h /\ call[d].pc = "waiting"
        BY <1>4, <2>5, <2>6, <3>3
      <4>2. PICK j \in DOMAIN q : q[j] = d
        BY <1>3, <4>1
      <4>3. j - 1 \in DOMAIN Tail(q) /\ Tail(q)[j - 1] = d
        BY <2>2, <4>1, <4>2
      <4> QED BY <4>3
    <3>4. GatewayQueue' = Tail(q) /\ semaphores'[semaphore'].free = 0 /\ semaphores[s].free = 0
      BY <1>3, <1>8, <2>4 DEF GatewayQueue, s
    <3> QED BY <1>3, <2>9, <3>1, <3>2, <3>3, <3>4 DEF GatewaySlots
  <2> QED BY <1>t, <2>3, <2>4, <2>5, <2>10, <2>11, <2>12
<1> QED BY <1>7, <1>8

LEMMA GatewayLeaveQueueInv ==
    ASSUME Gateway!GatewayAssumption, GatewayIInv, NEW c \in GatewayCalls, call[c].pc = "waiting",
           NEW i \in DOMAIN semaphores[call[c].sem].waiters, semaphores[call[c].sem].waiters[i] = c,
           semaphores' = [semaphores EXCEPT ![call[c].sem].waiters = Gateway!Without(@, i)],
           call' = [call EXCEPT ![c] = Gateway!Ended],
           UNCHANGED <<limit, semaphore, loop, running>>
    PROVE  semaphores' \in Seq(GatewaySemaphores) /\ semaphore' \in 0 .. Len(semaphores') /\ GatewayPast'
            /\ GatewayHeld' /\ GatewaySlots'
<1> DEFINE s == semaphore
           q == semaphores[s].waiters
           w == Gateway!Without(q, i)
<1>t. /\ limit \in Nat \ {0} /\ loop \in Nat /\ semaphores \in Seq(GatewaySemaphores)
         /\ semaphore \in 0 .. Len(semaphores)
      /\ call \in [GatewayCalls -> GatewayRecords]
  BY DEF GatewayIInv, GatewayTyped
<1>1. /\ GatewayFresh /\ call[c].sem = s /\ s \in DOMAIN semaphores /\ running
  BY <1>t DEF GatewayIInv, GatewayHeld, GatewayFresh, Gateway!Active
<1>2. semaphores[s] \in GatewaySemaphores /\ semaphores[s].free \in Nat /\ q \in Seq(GatewayCalls)
  <2>1. semaphores[s] \in GatewaySemaphores
    BY <1>1, <1>t
  <2> QED BY <2>1 DEF GatewaySemaphores
<1>3. /\ semaphores[s].free + Cardinality(Gateway!Sending) = limit
      /\ q # <<>> => semaphores[s].free = 0
      /\ \A j \in DOMAIN q : q[j] \in GatewayCalls /\ call[q[j]].pc = "waiting"
      /\ \A j, k \in DOMAIN q : q[j] = q[k] => j = k
      /\ \A d \in GatewayCalls : call[d].pc = "waiting" => \E j \in DOMAIN q : q[j] = d
  BY <1>1, <1>2 DEF GatewayIInv, GatewaySlots, GatewayQueue
<1>4. Gateway!Ended \in GatewayRecords /\ Gateway!Ended.pc = "ended"
  BY DEF Gateway!Ended, Gateway!NoCall, GatewayRecords
<1>5. /\ call' \in [GatewayCalls -> GatewayRecords] /\ call'[c] = Gateway!Ended
         /\ \A d \in GatewayCalls : d # c => call'[d] = call[d]
  BY <1>t, <1>4
<1>6. i \in DOMAIN q /\ q[i] = c /\ q # <<>> /\ semaphores' = [semaphores EXCEPT ![s].waiters = w]
  BY <1>1, <1>2
<1> HIDE DEF s, q
<1>7. w \in Seq(GatewayCalls) /\ Len(w) = Len(q) - 1
        /\ \A j \in DOMAIN w : w[j] = IF j < i THEN q[j] ELSE q[j + 1]
  BY <1>2, <1>6, GatewayWithoutIs
<1> HIDE DEF w
<1>8. Gateway!Sending' = Gateway!Sending
  BY <1>4, <1>5 DEF Gateway!Sending, Gateway!At
<1>9. /\ semaphores' \in Seq(GatewaySemaphores) /\ Len(semaphores') = Len(semaphores)
      /\ \A t \in DOMAIN semaphores' : t \in DOMAIN semaphores /\ semaphores'[t].loop = semaphores[t].loop
      /\ semaphores'[s].free = semaphores[s].free /\ semaphores'[s].waiters = w
  <2> DEFINE new == [semaphores[s] EXCEPT !.waiters = w]
  <2>1. new \in GatewaySemaphores /\ new.loop = semaphores[s].loop /\ new.free = semaphores[s].free
          /\ new.waiters = w
    BY <1>2, <1>7 DEF GatewaySemaphores
  <2>2. semaphores' = [semaphores EXCEPT ![s] = new]
    BY <1>1, <1>6
  <2> HIDE DEF new
  <2>3. semaphores' \in Seq(GatewaySemaphores) /\ Len(semaphores') = Len(semaphores)
          /\ DOMAIN semaphores' = DOMAIN semaphores
    BY <1>1, <1>t, <2>1, <2>2
  <2>4. \A t \in DOMAIN semaphores : semaphores'[t] = IF t = s THEN new ELSE semaphores[t]
    BY <1>1, <2>2
  <2> QED BY <1>1, <2>1, <2>3, <2>4
<1>10. GatewayPast' /\ GatewayFresh'
  BY <1>1, <1>9 DEF GatewayIInv, GatewayPast, GatewayFresh, s
<1>11. GatewayHeld'
  BY <1>1, <1>4, <1>5, <1>10 DEF GatewayIInv, GatewayHeld, Gateway!Active
<1>12. GatewaySlots'
  <2>0. DOMAIN q = 1 .. Len(q) /\ DOMAIN w = 1 .. Len(q) - 1 /\ Len(q) \in Nat /\ i \in 1 .. Len(q)
    BY <1>2, <1>6, <1>7 DEF q
  <2>1. \A j \in DOMAIN w : w[j] # c /\ w[j] \in GatewayCalls /\ call[w[j]].pc = "waiting"
    <3> SUFFICES ASSUME NEW j \in DOMAIN w PROVE w[j] # c /\ w[j] \in GatewayCalls /\ call[w[j]].pc = "waiting"
      OBVIOUS
    <3>1. PICK k \in DOMAIN q : k # i /\ w[j] = q[k]
      BY <1>7, <2>0
    <3> QED BY <1>3, <1>6, <3>1
  <2>2. \A j, k \in DOMAIN w : w[j] = w[k] => j = k
    <3> SUFFICES ASSUME NEW j \in DOMAIN w, NEW k \in DOMAIN w, w[j] = w[k] PROVE j = k
      OBVIOUS
    <3>1. (IF j < i THEN j ELSE j + 1) = (IF k < i THEN k ELSE k + 1)
      BY <1>3, <1>7, <2>0
    <3> QED BY <2>0, <3>1
  <2>3. ASSUME NEW d \in GatewayCalls, call'[d].pc = "waiting" PROVE \E j \in DOMAIN w : w[j] = d
    <3>1. d # c /\ call[d].pc = "waiting"
      BY <1>4, <1>5, <2>3
    <3>2. PICK j \in DOMAIN q : q[j] = d
      BY <1>3, <3>1
    <3>3. j # i
      BY <1>6, <3>1, <3>2
    <3>4. CASE j < i
      <4>1. j \in DOMAIN w /\ w[j] = d
        BY <1>7, <2>0, <3>2, <3>4
      <4> QED BY <4>1
    <3>5. CASE j > i
      <4>1. j - 1 \in DOMAIN w /\ ~(j - 1 < i) /\ (j - 1) + 1 = j
        BY <2>0, <3>5
      <4>2. w[j - 1] = d
        BY <1>7, <3>2, <4>1
      <4> QED BY <4>1, <4>2
    <3> QED BY <2>0, <3>3, <3>4, <3>5
  <2>4. GatewayQueue' = w /\ semaphores'[semaphore'].free = 0 /\ semaphores[s].free = 0
    BY <1>3, <1>6, <1>9 DEF GatewayQueue, s
  <2>5. \A j \in DOMAIN w : call'[w[j]].pc = "waiting"
    BY <1>5, <2>1
  <2> QED BY <1>3, <1>8, <2>2, <2>3, <2>4, <2>5 DEF GatewaySlots
<1> QED BY <1>t, <1>9, <1>10, <1>11, <1>12

\* What a step leaves alone when it takes c to the throttle.
LEMMA GatewayAcquired ==
    ASSUME Gateway!GatewayAssumption, GatewayIInv, NEW c \in GatewayCalls, NEW r \in GatewayRecords, running,
           call[c].pc \in {"idle", "discovering"}, Gateway!Acquire(c, r), UNCHANGED <<limit, loop, running>>,
           details' \in [Configs -> (SUBSET Models) \cup {None}], unread' \subseteq Configs, unread \subseteq unread',
           GatewayCached', r.sent = "temperature" /\ r.model \in Rejecting[r.config] => r.config \in unread'
    PROVE  GatewayIInv'
<1>1. /\ semaphores' \in Seq(GatewaySemaphores) /\ semaphore' \in 0 .. Len(semaphores')
      /\ GatewayPast' /\ GatewayHeld' /\ GatewaySlots'
      /\ call' \in [GatewayCalls -> GatewayRecords] /\ \A d \in GatewayCalls : d # c => call'[d] = call[d]
      /\ call'[c].pc \in {"sending", "waiting"} /\ call'[c].model = r.model
      /\ call'[c].config = r.config /\ call'[c].sent = r.sent
  BY GatewayAcquireInv
<1>2. GatewayTyped'
  <2>1. running' \in BOOLEAN
    BY DEF GatewayIInv, GatewayTyped
  <2> QED BY <1>1, <2>1 DEF GatewayIInv, GatewayTyped
<1>3. GatewayAsked' /\ Gateway!LoopsApart'
  BY <1>1 DEF GatewayIInv, GatewayAsked, Gateway!LoopsApart, Gateway!At
<1>4. Gateway!Stripped'
  BY <1>1 DEF GatewayIInv, Gateway!Stripped
<1> QED BY <1>1, <1>2, <1>3, <1>4 DEF GatewayIInv

\* Nobody who waits or sends is touched.
LEMMA GatewayUntouched ==
    ASSUME GatewayIInv, UNCHANGED <<limit, semaphore, semaphores, loop, running>>, running,
           \A d \in GatewayCalls : call[d].pc \in {"waiting", "sending"} \/ call'[d].pc \in {"waiting", "sending"}
                            => call'[d].pc = call[d].pc /\ call'[d].sem = call[d].sem
    PROVE  GatewayPast' /\ GatewayHeld' /\ GatewaySlots'
<1>1. GatewayPast'
  BY DEF GatewayIInv, GatewayPast
<1>2. GatewayHeld'
  BY DEF GatewayIInv, GatewayHeld, GatewayFresh
<1>3. Gateway!Sending' = Gateway!Sending
  BY DEF Gateway!Sending, Gateway!At
<1>4. GatewaySlots'
  <2> SUFFICES ASSUME GatewayFresh' PROVE
         /\ semaphores[semaphore].free + Cardinality(Gateway!Sending) = limit
         /\ GatewayQueue # <<>> => semaphores[semaphore].free = 0
         /\ \A i \in DOMAIN GatewayQueue : call'[GatewayQueue[i]].pc = "waiting"
         /\ \A i, j \in DOMAIN GatewayQueue : GatewayQueue[i] = GatewayQueue[j] => i = j
         /\ \A c \in GatewayCalls : call'[c].pc = "waiting" => \E i \in DOMAIN GatewayQueue : GatewayQueue[i] = c
    BY <1>3 DEF GatewaySlots, GatewayQueue
  <2>1. GatewayFresh /\ semaphores \in Seq(GatewaySemaphores) /\ semaphore \in DOMAIN semaphores
    BY DEF GatewayFresh, GatewayIInv, GatewayTyped
  <2>2. GatewayQueue \in Seq(GatewayCalls)
    <3>1. semaphores[semaphore] \in GatewaySemaphores
      BY <2>1
    <3> QED BY <3>1 DEF GatewayQueue, GatewaySemaphores
  <2>3. /\ semaphores[semaphore].free + Cardinality(Gateway!Sending) = limit
        /\ GatewayQueue # <<>> => semaphores[semaphore].free = 0
        /\ \A i \in DOMAIN GatewayQueue : call[GatewayQueue[i]].pc = "waiting"
        /\ \A i, j \in DOMAIN GatewayQueue : GatewayQueue[i] = GatewayQueue[j] => i = j
        /\ \A c \in GatewayCalls : call[c].pc = "waiting" => \E i \in DOMAIN GatewayQueue : GatewayQueue[i] = c
    BY <2>1 DEF GatewayIInv, GatewaySlots
  <2>4. \A i \in DOMAIN GatewayQueue : GatewayQueue[i] \in GatewayCalls
    BY <2>2
  <2> QED BY <2>3, <2>4
<1> QED BY <1>1, <1>2, <1>4

LEMMA GatewayReleased ==
    ASSUME Gateway!GatewayAssumption, GatewayIInv, NEW c \in GatewayCalls, call[c].pc = "sending", Gateway!Release(c),
           UNCHANGED <<limit, semaphore, loop, running, details, unread>>
    PROVE  GatewayIInv'
<1>1. /\ semaphores' \in Seq(GatewaySemaphores) /\ semaphore' \in 0 .. Len(semaphores')
      /\ GatewayPast' /\ GatewayHeld' /\ GatewaySlots' /\ call' \in [GatewayCalls -> GatewayRecords]
         /\ call'[c] = Gateway!Ended
      /\ \A d \in GatewayCalls : d # c =>
            \/ call'[d] = call[d]
            \/ call[d].pc = "waiting" /\ call'[d] = [call[d] EXCEPT !.pc = "sending"]
  BY GatewayReleaseInv
<1>2. GatewayTyped'
  <2>1. running' \in BOOLEAN
    BY DEF GatewayIInv, GatewayTyped
  <2> QED BY <1>1, <2>1 DEF GatewayIInv, GatewayTyped
<1>3. Gateway!Ended.pc = "ended" /\ Gateway!Ended.sent = "nothing"
  BY DEF Gateway!Ended, Gateway!NoCall
<1>4. ASSUME NEW d \in GatewayCalls, d # c
      PROVE  /\ call'[d].sent = call[d].sent /\ call'[d].model = call[d].model
                /\ call'[d].config = call[d].config
             /\ call'[d].pc = call[d].pc \/ call'[d].pc = "sending"
  <2>1. call[d] \in GatewayRecords
    BY DEF GatewayIInv, GatewayTyped
  <2>2. CASE call'[d] = call[d]
    BY <2>2
  <2>3. CASE call'[d] = [call[d] EXCEPT !.pc = "sending"]
    BY <2>1, <2>3 DEF GatewayRecords
  <2> QED BY <1>1, <1>4, <2>2, <2>3
<1>5. GatewayAsked' /\ Gateway!LoopsApart'
  BY <1>1, <1>3, <1>4 DEF GatewayIInv, GatewayAsked, Gateway!LoopsApart, Gateway!At
<1>6. Gateway!Stripped'
  BY <1>1, <1>3, <1>4 DEF GatewayIInv, Gateway!Stripped
<1>7. GatewayCached'
  BY DEF GatewayIInv, GatewayCached
<1> QED BY <1>1, <1>2, <1>5, <1>6, <1>7 DEF GatewayIInv

\* One call changes, and the throttle does not.
LEMMA GatewayAside ==
    ASSUME GatewayIInv, NEW c \in GatewayCalls, NEW r \in GatewayRecords, call' = [call EXCEPT ![c] = r],
           UNCHANGED <<limit, semaphore, semaphores, loop, running, details, unread>>, running,
           call[c].pc \in {"waiting", "sending"} \/ r.pc \in {"waiting", "sending"}
               => r.pc = call[c].pc /\ r.sem = call[c].sem,
           r.pc # "loop error",
           r.pc = "discovering" => r.model \in Models /\ r.config \in Configs /\ r.sent = "nothing",
           r.sent = "temperature" /\ r.model \in Rejecting[r.config] => r.config \in unread
    PROVE  GatewayIInv'
<1>1. call \in [GatewayCalls -> GatewayRecords]
  BY DEF GatewayIInv, GatewayTyped
<1>2. call' \in [GatewayCalls -> GatewayRecords] /\ call'[c] = r
        /\ \A d \in GatewayCalls : d # c => call'[d] = call[d]
  BY <1>1
<1>3. GatewayPast' /\ GatewayHeld' /\ GatewaySlots'
  BY <1>2, GatewayUntouched
<1>4. GatewayTyped'
  <2>1. running' \in BOOLEAN
    BY DEF GatewayIInv, GatewayTyped
  <2> QED BY <1>2, <2>1 DEF GatewayIInv, GatewayTyped
<1>5. GatewayAsked' /\ Gateway!LoopsApart'
  BY <1>2 DEF GatewayIInv, GatewayAsked, Gateway!LoopsApart, Gateway!At
<1>6. Gateway!Stripped' /\ GatewayCached'
  BY <1>2 DEF GatewayIInv, Gateway!Stripped, GatewayCached
<1> QED BY <1>3, <1>4, <1>5, <1>6 DEF GatewayIInv

LEMMA GatewayBeginInv ==
    ASSUME Gateway!GatewayAssumption, GatewayIInv, NEW c \in GatewayCalls, Gateway!Begin(c)
    PROVE  GatewayIInv'
<1>1. running /\ call[c].pc = "idle" /\ UNCHANGED <<limit, loop, running, unread>>
  BY DEF Gateway!Begin, Gateway!At
<1>2. details \in [Configs -> (SUBSET Models) \cup {None}] /\ unread \subseteq Configs
  BY DEF GatewayIInv, GatewayTyped
<1>3. CASE Gateway!Acquire(c, [Gateway!NoCall EXCEPT !.sent = "no temperature"]) /\ UNCHANGED details
  <2> DEFINE r == [Gateway!NoCall EXCEPT !.sent = "no temperature"]
  <2>1. r \in GatewayRecords /\ r.sent = "no temperature"
    BY DEF Gateway!NoCall, GatewayRecords
  <2> HIDE DEF r
  <2>2. GatewayCached'
    BY <1>1, <1>3 DEF GatewayIInv, GatewayCached
  <2>3. Gateway!Acquire(c, r)
    BY <1>3 DEF r
  <2> QED BY <1>1, <1>2, <1>3, <2>1, <2>2, <2>3, GatewayAcquired
<1>4. ASSUME NEW m \in Models, NEW k \in Configs,
             LET r == [Gateway!NoCall EXCEPT !.model = m, !.config = k] IN
             IF details[Gateway!Key(k)] = None
             THEN /\ call' = [call EXCEPT ![c] = [r EXCEPT !.pc = "discovering"]]
                  /\ UNCHANGED <<semaphore, semaphores, details>>
             ELSE /\ Gateway!Acquire(c, [r EXCEPT !.sent = IF m \in details[Gateway!Key(k)] THEN "no temperature"
                                                  ELSE "temperature"])
                  /\ UNCHANGED details
      PROVE  GatewayIInv'
  <2>1. CASE details[k] = None
    <3> DEFINE r == [Gateway!NoCall EXCEPT !.model = m, !.config = k, !.pc = "discovering"]
    <3>1. r \in GatewayRecords /\ r.pc = "discovering" /\ r.model = m /\ r.config = k /\ r.sent = "nothing"
      BY DEF Gateway!NoCall, GatewayRecords
    <3>2. call' = [call EXCEPT ![c] = r] /\ UNCHANGED <<semaphore, semaphores, details>>
      BY <1>4, <2>1 DEF Gateway!Key, Gateway!NoCall
    <3> HIDE DEF r
    <3> QED BY <1>1, <3>1, <3>2, GatewayAside
  <2>2. CASE details[k] # None
    <3> DEFINE t == IF m \in details[k] THEN "no temperature" ELSE "temperature"
               r == [Gateway!NoCall EXCEPT !.model = m, !.config = k, !.sent = t]
    <3>1. r \in GatewayRecords /\ r.model = m /\ r.config = k /\ r.sent = t
      BY DEF Gateway!NoCall, GatewayRecords
    <3>2. Gateway!Acquire(c, r) /\ UNCHANGED details
      BY <1>4, <2>2 DEF Gateway!Key, Gateway!NoCall
    <3>3. t = "temperature" /\ m \in Rejecting[k] => k \in unread
      BY <2>2 DEF GatewayIInv, GatewayCached
    <3> HIDE DEF r, t
    <3>4. GatewayCached'
      BY <1>1, <3>2 DEF GatewayIInv, GatewayCached
    <3> QED BY <1>1, <1>2, <3>1, <3>2, <3>3, <3>4, GatewayAcquired
  <2> QED BY <2>1, <2>2
<1> QED BY <1>3, <1>4 DEF Gateway!Begin

LEMMA GatewayDiscoverInv ==
    ASSUME Gateway!GatewayAssumption, GatewayIInv, NEW c \in GatewayCalls, Gateway!Discover(c)
    PROVE  GatewayIInv'
<1> DEFINE k == call[c].config
           m == call[c].model
<1>1. call[c].pc = "discovering" /\ UNCHANGED <<limit, loop, running>>
  BY DEF Gateway!Discover, Gateway!At
<1>2. /\ details \in [Configs -> (SUBSET Models) \cup {None}] /\ unread \subseteq Configs
      /\ call[c] \in GatewayRecords /\ Rejecting \in [Configs -> SUBSET Models]
         /\ \A M \in SUBSET Models : M # None
  BY DEF GatewayIInv, GatewayTyped, Gateway!GatewayAssumption
<1>3. k \in Configs /\ m \in Models
  BY <1>1 DEF GatewayIInv, GatewayAsked
<1>4. running
  BY <1>1 DEF GatewayIInv, GatewayHeld, Gateway!Active
<1>5. ASSUME NEW read \in SUBSET Models, details' = [details EXCEPT ![Gateway!Key(k)] = read],
             Gateway!Acquire(c, [call[c] EXCEPT !.sent = Gateway!Body(c, read)]),
             (read = Rejecting[k] /\ unread' = unread) \/ unread' = unread \cup {k}
      PROVE  GatewayIInv'
  <2> DEFINE r == [call[c] EXCEPT !.sent = Gateway!Body(c, read)]
  <2>1. Gateway!Body(c, read) \in {"temperature", "no temperature"}
    BY DEF Gateway!Body
  <2>2. r \in GatewayRecords /\ r.model = m /\ r.config = k /\ r.sent = Gateway!Body(c, read)
    BY <1>2, <2>1 DEF GatewayRecords
  <2>3. /\ details' \in [Configs -> (SUBSET Models) \cup {None}] /\ details'[k] = read
        /\ \A j \in Configs : j # k => details'[j] = details[j]
    BY <1>2, <1>3, <1>5 DEF Gateway!Key
  <2>4. GatewayCached'
    BY <1>3, <1>5, <2>3 DEF GatewayIInv, GatewayCached
  <2>5. r.sent = "temperature" /\ r.model \in Rejecting[r.config] => r.config \in unread'
    <3>1. Gateway!Body(c, read) = "temperature" => m \notin read
      BY <1>2 DEF Gateway!Body
    <3>2. k \in unread' \/ read = Rejecting[k]
      BY <1>5
    <3> HIDE DEF r, k, m
    <3> QED BY <2>2, <3>1, <3>2
  <2>6. unread' \subseteq Configs /\ unread \subseteq unread'
    BY <1>2, <1>3, <1>5
  <2> HIDE DEF r, k, m
  <2>7. Gateway!Acquire(c, r)
    BY <1>5 DEF r
  <2> QED BY <1>1, <1>4, <2>2, <2>3, <2>4, <2>5, <2>6, <2>7, GatewayAcquired
<1>6. Rejecting[k] \in SUBSET Models /\ {} \in SUBSET Models
  BY <1>2, <1>3
<1> HIDE DEF m
<1>7. \/ /\ details' = [details EXCEPT ![Gateway!Key(k)] = Rejecting[k]]
         /\ Gateway!Acquire(c, [call[c] EXCEPT !.sent = Gateway!Body(c, Rejecting[k])]) /\ unread' = unread
      \/ /\ details' = [details EXCEPT ![Gateway!Key(k)] = {}]
         /\ Gateway!Acquire(c, [call[c] EXCEPT !.sent = Gateway!Body(c, {})]) /\ unread' = unread \cup {k}
  BY DEF Gateway!Discover
<1> HIDE DEF k
<1> QED BY <1>5, <1>6, <1>7

LEMMA GatewaySendInv ==
    ASSUME Gateway!GatewayAssumption, GatewayIInv, NEW c \in GatewayCalls, Gateway!Send(c)
    PROVE  GatewayIInv'
<1>1. call[c].pc = "sending" /\ UNCHANGED <<limit, semaphore, loop, running, details, unread>>
  BY DEF Gateway!Send, Gateway!At
<1>2. CASE call' = [call EXCEPT ![c].tries = @ + 1] /\ UNCHANGED semaphores
  <2> DEFINE r == [call[c] EXCEPT !.tries = @ + 1]
  <2>0. call[c] \in GatewayRecords /\ running
    BY <1>1 DEF GatewayIInv, GatewayTyped, GatewayHeld, Gateway!Active
  <2>1. /\ r \in GatewayRecords /\ r.pc = call[c].pc /\ r.sem = call[c].sem
        /\ r.sent = call[c].sent /\ r.model = call[c].model /\ r.config = call[c].config
    <3>0. call[c].tries \in Nat
      BY <2>0 DEF GatewayRecords
    <3>1. call[c].tries + 1 \in Nat
      BY <3>0
    <3>2. r = [call[c] EXCEPT !.tries = call[c].tries + 1]
      OBVIOUS
    <3> QED BY <2>0, <3>1, <3>2 DEF GatewayRecords
  <2>2. call' = [call EXCEPT ![c] = r]
    BY <1>2
  <2>3. r.sent = "temperature" /\ r.model \in Rejecting[r.config] => r.config \in unread
    BY <2>1 DEF GatewayIInv, Gateway!Stripped
  <2> HIDE DEF r
  <2> QED BY <1>1, <1>2, <2>0, <2>1, <2>2, <2>3, GatewayAside
<1>3. CASE Gateway!Release(c)
  BY <1>1, <1>3, GatewayReleased
<1> QED BY <1>2, <1>3 DEF Gateway!Send, Gateway!Leave

LEMMA GatewayCancelInv ==
    ASSUME Gateway!GatewayAssumption, GatewayIInv, NEW c \in GatewayCalls, Gateway!Cancel(c)
    PROVE  GatewayIInv'
<1>1. running /\ Gateway!Active(c) /\ UNCHANGED <<limit, semaphore, loop, running, details, unread>>
  BY DEF Gateway!Cancel
<1>2. Gateway!Ended \in GatewayRecords /\ Gateway!Ended.pc = "ended" /\ Gateway!Ended.sent = "nothing"
  BY DEF Gateway!Ended, Gateway!NoCall, GatewayRecords
<1>3. CASE Gateway!At(c, "sending")
  <2>1. Gateway!Release(c)
    BY <1>3 DEF Gateway!Cancel, Gateway!Leave, Gateway!At
  <2> QED BY <1>1, <1>3, <2>1, GatewayReleased DEF Gateway!At
<1>4. CASE Gateway!At(c, "waiting")
  <2>1. call[c].pc = "waiting" /\ call[c].pc # "sending"
    BY <1>4 DEF Gateway!At
  <2>2. /\ \E i \in DOMAIN semaphores[call[c].sem].waiters :
              /\ semaphores[call[c].sem].waiters[i] = c
              /\ semaphores' = [semaphores EXCEPT ![call[c].sem].waiters = Gateway!Without(@, i)]
        /\ call' = [call EXCEPT ![c] = Gateway!Ended]
    BY <1>4, <2>1 DEF Gateway!Cancel, Gateway!At
  <2>3. semaphores' \in Seq(GatewaySemaphores) /\ semaphore' \in 0 .. Len(semaphores') /\ GatewayPast'
          /\ GatewayHeld' /\ GatewaySlots'
    BY <1>1, <2>1, <2>2, GatewayLeaveQueueInv
  <2>4. call \in [GatewayCalls -> GatewayRecords]
    BY DEF GatewayIInv, GatewayTyped
  <2>5. call' \in [GatewayCalls -> GatewayRecords] /\ call'[c] = Gateway!Ended
          /\ \A d \in GatewayCalls : d # c => call'[d] = call[d]
    BY <1>2, <2>2, <2>4
  <2>6. GatewayTyped'
    <3>1. running' \in BOOLEAN
      BY <1>1 DEF GatewayIInv, GatewayTyped
    <3> QED BY <1>1, <2>3, <2>5, <3>1 DEF GatewayIInv, GatewayTyped
  <2>7. GatewayAsked' /\ Gateway!LoopsApart'
    BY <1>2, <2>5 DEF GatewayIInv, GatewayAsked, Gateway!LoopsApart, Gateway!At
  <2>8. Gateway!Stripped' /\ GatewayCached'
    BY <1>1, <1>2, <2>5 DEF GatewayIInv, Gateway!Stripped, GatewayCached
  <2> QED BY <2>3, <2>6, <2>7, <2>8 DEF GatewayIInv
<1>5. CASE Gateway!At(c, "discovering")
  <2>1. call' = [call EXCEPT ![c] = Gateway!Ended] /\ UNCHANGED semaphores
    BY <1>5 DEF Gateway!Cancel, Gateway!At
  <2>2. call[c].pc \notin {"waiting", "sending"}
    BY <1>5 DEF Gateway!At
  <2> QED BY <1>1, <1>2, <2>1, <2>2, GatewayAside
<1> QED BY <1>1, <1>3, <1>4, <1>5 DEF Gateway!Active, Gateway!At

LEMMA GatewayLoopsInv ==
    ASSUME Gateway!GatewayAssumption, GatewayIInv, Gateway!SetConcurrency \/ Gateway!LoopBegins \/ Gateway!LoopEnds
    PROVE  GatewayIInv'
<1>0. limit \in Nat \ {0} /\ loop \in Nat /\ semaphores \in Seq(GatewaySemaphores)
                             /\ semaphore \in 0 .. Len(semaphores)
  BY DEF GatewayIInv, GatewayTyped
<1>1. /\ UNCHANGED <<semaphores, details, call, unread>> /\ \A c \in GatewayCalls : ~Gateway!Active(c)
      /\ limit' \in Nat \ {0} /\ loop' \in Nat /\ loop <= loop' /\ running' \in BOOLEAN
         /\ semaphore' \in 0 .. Len(semaphores')
  <2>1. CASE Gateway!SetConcurrency
    <3>1. running' \in BOOLEAN
      BY <2>1 DEF Gateway!SetConcurrency, GatewayIInv, GatewayTyped
    <3> QED BY <1>0, <2>1, <3>1 DEF Gateway!SetConcurrency, GatewayIInv, GatewayHeld, Gateway!GatewayAssumption
  <2>2. CASE Gateway!LoopBegins
    BY <1>0, <2>2 DEF Gateway!LoopBegins, Gateway!throttle, GatewayIInv, GatewayHeld
  <2>3. CASE Gateway!LoopEnds
    <3>1. /\ UNCHANGED <<limit, semaphore, semaphores, loop, details, call, unread>>
          /\ running' = FALSE /\ \A c \in GatewayCalls : ~Gateway!Active(c)
      BY <2>3 DEF Gateway!LoopEnds, Gateway!throttle
    <3>2. running' \in BOOLEAN
      BY <3>1
    <3> QED BY <1>0, <3>1, <3>2
  <2> QED BY <2>1, <2>2, <2>3
<1>2. GatewayTyped'
  BY <1>1 DEF GatewayIInv, GatewayTyped
<1>3. GatewayPast'
  <2>1. \A s \in DOMAIN semaphores : semaphores[s].loop \in Nat
    <3>1. \A s \in DOMAIN semaphores : semaphores[s] \in GatewaySemaphores
      BY <1>0
    <3> QED BY <3>1 DEF GatewaySemaphores
  <2> QED BY <1>0, <1>1, <2>1 DEF GatewayIInv, GatewayPast
<1>4. GatewayHeld'
  BY <1>1 DEF GatewayHeld, Gateway!Active
<1>5. GatewaySlots'
  <2>1. CASE Gateway!SetConcurrency
    BY <2>1 DEF Gateway!SetConcurrency, GatewaySlots, GatewayFresh
  <2>2. CASE Gateway!LoopBegins
    <3>1. ~GatewayFresh'
      <4>0. semaphore # 0 => semaphore \in DOMAIN semaphores /\ semaphores[semaphore] \in GatewaySemaphores
        BY <1>0
      <4>1. semaphore # 0 => semaphores[semaphore].loop <= loop /\ semaphores[semaphore].loop \in Nat
        BY <4>0 DEF GatewayIInv, GatewayPast, GatewaySemaphores
      <4> QED BY <1>0, <2>2, <4>1 DEF Gateway!LoopBegins, Gateway!throttle, GatewayFresh
    <3> QED BY <3>1 DEF GatewaySlots
  <2>3. CASE Gateway!LoopEnds
    <3>1. UNCHANGED <<Gateway!throttle, loop, call>>
      BY <2>3 DEF Gateway!LoopEnds
    <3> QED BY <3>1 DEF GatewayIInv, GatewaySlots, GatewayFresh, GatewayQueue, Gateway!Sending, Gateway!At,
               Gateway!throttle
  <2> QED BY <2>1, <2>2, <2>3
<1>6. GatewayCached' /\ GatewayAsked' /\ Gateway!LoopsApart' /\ Gateway!Stripped'
  BY <1>1 DEF GatewayIInv, GatewayCached, GatewayAsked, Gateway!LoopsApart, Gateway!Stripped, Gateway!At
<1> QED BY <1>2, <1>3, <1>4, <1>5, <1>6 DEF GatewayIInv

LEMMA GatewayStarts ==
    ASSUME Gateway!GatewayAssumption, Gateway!Init
    PROVE  GatewayIInv
<1>1. Gateway!NoCall \in GatewayRecords /\ Gateway!NoCall.pc = "idle" /\ Gateway!NoCall.sent = "nothing"
  BY DEF Gateway!NoCall, GatewayRecords
<1>2. \A c \in GatewayCalls : call[c] = Gateway!NoCall
  BY DEF Gateway!Init
<1>3. GatewayTyped
  <2>1. <<>> \in Seq(GatewaySemaphores) /\ Len(<<>>) = 0 /\ 0 \in 0 .. 0
    OBVIOUS
  <2>2. running \in BOOLEAN
    BY DEF Gateway!Init
  <2> QED BY <1>1, <2>1, <2>2 DEF Gateway!Init, GatewayTyped, Gateway!GatewayAssumption
<1>4. GatewayPast /\ GatewayHeld /\ GatewaySlots
  BY <1>1, <1>2 DEF Gateway!Init, GatewayPast, GatewayHeld, GatewaySlots, GatewayFresh, Gateway!Active
<1>5. GatewayCached /\ GatewayAsked /\ Gateway!LoopsApart /\ Gateway!Stripped
  BY <1>1, <1>2 DEF Gateway!Init, GatewayCached, GatewayAsked, Gateway!LoopsApart, Gateway!Stripped, Gateway!At
<1> QED BY <1>3, <1>4, <1>5 DEF GatewayIInv

LEMMA GatewaySteps ==
    ASSUME Gateway!GatewayAssumption, GatewayIInv, [Gateway!Next]_(Gateway!vars)
    PROVE  GatewayIInv'
<1>1. CASE Gateway!Next
  BY <1>1, GatewayBeginInv, GatewayDiscoverInv, GatewaySendInv, GatewayCancelInv, GatewayLoopsInv
     DEF Gateway!Next, Gateway!Step
<1>2. CASE UNCHANGED Gateway!vars
  <2>1. UNCHANGED <<limit, semaphore, semaphores, loop, running, details, call, unread>>
    BY <1>2 DEF Gateway!vars, Gateway!throttle
  <2>2. GatewayTyped' /\ GatewayPast' /\ GatewayHeld' /\ GatewayCached' /\ GatewayAsked'
                         /\ Gateway!LoopsApart' /\ Gateway!Stripped'
    BY <2>1 DEF GatewayIInv, GatewayTyped, GatewayPast, GatewayHeld, GatewayFresh, Gateway!Active,
       GatewayCached, GatewayAsked, Gateway!LoopsApart, Gateway!Stripped, Gateway!At
  <2>3. GatewaySlots'
    BY <2>1 DEF GatewayIInv, GatewaySlots, GatewayFresh, GatewayQueue, Gateway!Sending, Gateway!At
  <2> QED BY <2>2, <2>3 DEF GatewayIInv
<1> QED BY <1>1, <1>2

LEMMA GatewayKeeps ==
    ASSUME Gateway!GatewayAssumption, GatewayIInv
    PROVE  Gateway!GatewayKeepsLimit
<1>1. Gateway!Sending \in SUBSET GatewayCalls /\ limit \in Nat
  BY DEF Gateway!Sending, GatewayIInv, GatewayTyped
<1>2. Cardinality(Gateway!Sending) \in Nat
  BY <1>1, GatewayCardinality, FS_Subset, FS_CardinalityType DEF Gateway!GatewayAssumption
<1>3. GatewayFresh => /\ semaphores[semaphore].free \in Nat
               /\ semaphores[semaphore].free + Cardinality(Gateway!Sending) = limit
  <2>1. GatewayFresh => semaphores[semaphore] \in GatewaySemaphores
    BY DEF GatewayFresh, GatewayIInv, GatewayTyped
  <2>2. GatewayFresh => semaphores[semaphore].free \in Nat
    BY <2>1 DEF GatewaySemaphores
  <2> QED BY <2>2 DEF GatewayIInv, GatewaySlots
<1>4. ~GatewayFresh => Gateway!Sending = {} /\ \A c \in GatewayCalls : call[c].pc # "waiting"
  BY DEF GatewayIInv, GatewayHeld, Gateway!Sending, Gateway!At
<1>5. Cardinality(Gateway!Sending) <= limit
  <2>1. CASE GatewayFresh
    BY <1>1, <1>2, <1>3, <2>1
  <2>2. CASE ~GatewayFresh
    <3>1. Cardinality(Gateway!Sending) = 0
      BY <1>4, <2>2, FS_EmptySet
    <3> QED BY <1>1, <3>1
  <2> QED BY <2>1, <2>2
<1>6. ASSUME NEW c \in GatewayCalls, Gateway!At(c, "waiting") PROVE Cardinality(Gateway!Sending) = limit
  <2>1. GatewayFresh /\ call[c].pc = "waiting"
    BY <1>6 DEF GatewayIInv, GatewayHeld, Gateway!At
  <2>2. PICK i \in DOMAIN GatewayQueue : GatewayQueue[i] = c
    BY <2>1 DEF GatewayIInv, GatewaySlots
  <2>3. GatewayQueue # <<>>
    BY <2>2
  <2>4. semaphores[semaphore].free = 0
    BY <2>1, <2>3 DEF GatewayIInv, GatewaySlots
  <2> QED BY <1>1, <1>2, <1>3, <2>1, <2>4
<1> QED BY <1>5, <1>6, GatewayCardinality DEF GatewayIInv, Gateway!Capped, Gateway!GatewayKeepsLimit

\* No more requests than the limit in force are on their way, no slot is lost,
\* no call fails over the semaphore of another loop, and a temperature is
\* stripped where it must be, for any calls, limits, configurations and loops
\* (_llm_throttle.py get_llm_semaphore, llm_gateway should_skip_temperature).
THEOREM LimitAlwaysKept == Spec => []GatewayKeepsLimit
<1> DEFINE Inv == service = "gateway" => GatewayIInv
<1>1. Gateway!GatewayAssumption
  BY ServicesAssumption
<1>2. Init => Inv
  BY <1>1, GatewayStarts DEF Init
<1>3. Inv /\ [Next]_vars => Inv'
  BY <1>1, OneService, GatewaySteps
<1>4. Inv => GatewayKeepsLimit
  BY <1>1, GatewayKeeps DEF GatewayKeepsLimit
<1> HIDE DEF Inv
<1> QED BY <1>2, <1>3, <1>4, PTL DEF Spec

===============================================================================
