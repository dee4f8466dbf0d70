------------------------------ MODULE MCServices ------------------------------
(***************************************************************************)
(* For TLC: values for Services, and beside it the models of how a run is  *)
(* scored and how an output is matched, which no proof reaches.  They      *)
(* share nothing with it either: a behaviour is of one of them, or of      *)
(* Services.                                                               *)
(***************************************************************************)
EXTENDS Services, TLC

CONSTANTS c1, c2, nx, ny, ei, ej, fa, fb, ta, tb, td, tx, ka, kb, newModel,
    pa, pb, bigA, smallA, smallB, smallX, lineA, lineB, lineC, bigLine, nameRow, otherRow, blankRow, ga, gb, gx, gi, go

VARIABLES
    config, results, report,
    compared

\* A newer model that rejects a temperature, shown in one of two configurations.
Shown == (ka :> {newModel}) @@ (kb :> {})

\* Up to two overwrites, by name, by id or with a folder, which lead to either
\* name, in a folder given by its path or its key; sets of one or two entities
\* of different names or the same.
ToPlace == [name : {nx, ny}, folder : {<<"path", fb>>, <<"key", fa>>}]
UpToTwo == UNION {[K -> ToPlace] :
                  K \in {M \in SUBSET {<<nx>>, <<ei>>, <<nx, fa>>, <<ny>>} : Cardinality(M) <= 2}}
Entity(n, d, f) == [name |-> n, id |-> d, folder |-> <<"key", f>>]
OneOrTwo == {<<Entity(nx, ei, fa)>>, <<Entity(nx, ei, fa), Entity(ny, ej, fb)>>,
             <<Entity(nx, ei, fa), Entity(nx, ej, fb)>>, <<Entity(ny, ej, fb), Entity(nx, ej, fb)>>}

\* Up to three calls, as many expected, of two tools, one with an id and another
\* spelling, with an argument that is missing or has one of two values.
ToolCall(n, i, v) == [name |-> n, id |-> i, content |-> IF v = 0 THEN <<>> ELSE "k" :> v]
SomeTools == {ToolCall(ta, None, 0), ToolCall(ta, None, 1), ToolCall(td, None, 2),
              ToolCall(ta, tx, 1), ToolCall(tb, None, 1)}
SomeWanted == {ToolCall(ta, None, 0), ToolCall(ta, None, 1), ToolCall(ta, tx, 1),
               ToolCall(td, None, 1), ToolCall(tx, None, 1)}
Spellings == (td :> ta) @@ [k \in {ta, tb, tx} |-> k]

\* Two guardrails around a function of one or two parameters and one that is
\* excluded; two rules over a field of the input and one of the output.
Guard(stage, check, action) == [stage |-> stage, check |-> check, action |-> action]
SomeGuards ==
    {Guard(s, c[1], c[2]) :
        s \in {"pre", "post", "pre_and_post"},
        c \in {<<"rule", "block">>, <<"rule", "redact">>, <<"rule", "text">>,
               <<"pair", "block">>, <<"service", "redact">>}}
    \cup {Guard("pre", "rule", "log"), Guard("pre_and_post", "raising", "block")}
OneOrTwoParameters == {{ga}, {ga, gb}}
WordOf(b) == [type |-> "word", bad |-> b]
SomeContents ==
    {[array |-> FALSE, values |-> {w}] : w \in {WordOf(TRUE), WordOf(FALSE), [type |-> "number", bad |-> TRUE]}}
    \cup {[array |-> TRUE, values |-> ws] : ws \in {{}, {WordOf(TRUE)}, {WordOf(TRUE), WordOf(FALSE)}}}

\* Three evaluations of two datapoints, one of which may lack criteria; labels that
\* differ in case only, classes that do or do not contain what is answered, and
\* evaluators of weight 0.
AllThree == {"exact", "multiclass", "binary"}
Runs == INSTANCE RunScores WITH
    Points <- {pa, pb}, Expected <- {bigA, smallB}, Answers <- {smallA, smallB},
    Lower <- (bigA :> smallA) @@ [l \in {smallA, smallB, smallX} |-> l],
    Vocabularies <- {<<bigA, smallB>>, <<bigA, smallX>>, <<bigA, smallA>>},
    Weight <- ("exact" :> 1) @@ ("multiclass" :> 2) @@ ("binary" :> 0),
    Criteria <- {(pa :> AllThree) @@ (pb :> some) : some \in {AllThree, {"multiclass"}}},
    Stops <- {0, 1}, MaxRounds <- 3

\* JSON values: leaves, and dicts and lists of up to two, some of them nested.
Number(n) == [t |-> "number", n |-> n]
Text(s) == [t |-> "text", s |-> s]
Dicts(S) == {[t |-> "dict", v |-> f] : f \in UNION {[K -> S] : K \in SUBSET {1, 2}}}
UpTo(S, n) == UNION {[1 .. m -> S] : m \in 0 .. n}
Lists(S) == {[t |-> "list", v |-> q] : q \in UpTo(S, 2)}
Flat == {Number(2), Text(<<lineA>>), [t |-> "list", v |-> <<>>]}
Nested == {Number(3), [t |-> "dict", v |-> <<>>], [t |-> "dict", v |-> 1 :> Number(3)],
           [t |-> "list", v |-> <<Text(<<lineA>>)>>]}
\* Texts and files of up to three lines; two of the lines agree in the column, and
\* one is another but for its case.
Outputs == INSTANCE OutputMatches WITH
    Values <- {Number(n) : n \in {0, 2, 3}} \cup {Text(s) : s \in UpTo({lineA, lineB}, 3)}
              \cup {[t |-> "bool", o |-> TRUE], [t |-> "null", o |-> FALSE]}
              \cup Dicts(Flat) \cup Lists(Flat) \cup Dicts(Nested) \cup Lists(Nested),
    Texts <- (UpTo({blankRow, lineA, lineB}, 3) \cup UpTo({lineA, lineB, bigLine}, 2)) \ {<<>>},
    Lower <- (bigLine :> lineA) @@ [l \in {blankRow, lineA, lineB} |-> l],
    Files <- {f \o <<h>> \o g : f \in {<<>>, <<blankRow>>}, h \in {nameRow, otherRow},
                                g \in UpTo({blankRow, lineA, lineB, lineC}, 2)},
    Blank <- blankRow, Header <- nameRow,
    Column <- (lineA :> 1) @@ (lineB :> 2) @@ (lineC :> 1) @@ (nameRow :> 0) @@ (otherRow :> 3)

ASSUME VerdictsAssumption == Runs!RunScoresAssumption /\ Outputs!MatchesAssumption

runs == <<config, results, report>>

NoRuns == config = 0 /\ results = 0 /\ report = 0

MCInit ==
    /\ \/ Init
       \/ NoService /\ service \in {"runs", "outputs"}
    /\ IF service = "runs" THEN Runs!Init ELSE NoRuns
    /\ IF service = "outputs" THEN Outputs!Init ELSE compared = 0

InRuns == Of("runs", <<vars, compared>>)
InOutputs == Of("outputs", <<vars, runs>>)

MCNext ==
    \/ Next /\ UNCHANGED <<runs, compared>>
    \/ InRuns /\ Runs!Next
    \/ InOutputs /\ Outputs!Next

MCSpec == MCInit /\ [][MCNext]_<<vars, runs, compared>>

\* The models treat two calls alike.
Symmetry == Permutations({c1, c2})

-------------------------------------------------------------------------------
\* A datapoint counts once in its set's metrics, which agree with the evaluators'
\* own, and a score lies between those it is made of (compute_dataset_evaluator_
\* results, evaluate, reduce_scores).  A value scores 1 by its leaves exactly if all
\* that was expected is there; an output equal to the one expected is so in each of
\* its lines, negated or not (_compare_tokens, evaluate_lines).
VerdictsRight ==
    /\ service = "runs" => Runs!CountedOnce /\ Runs!ReductionsAgree /\ Runs!ScoresBetween
    /\ service = "outputs" => Outputs!SimilarityRight /\ Outputs!LinesMatchWhole

===============================================================================
