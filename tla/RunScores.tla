------------------------------ MODULE RunScores -------------------------------
(***************************************************************************)
(* What becomes of the results of a run of evaluations                     *)
(* (uipath/eval/runtime/runtime.py, exact_match_evaluator.py, multiclass_  *)
(* and binary_classification_evaluator.py, classification_dataset_         *)
(* evaluators.py).                                                         *)
(*                                                                         *)
(* An evaluation of a datapoint has a result of each evaluator there are   *)
(* criteria for, or fails before one of them, or is suspended before the   *)
(* first; a datapoint may be evaluated again.  Then the run reduces the    *)
(* results of each evaluator to a score, and those of exact matches once   *)
(* more, over the whole set, to a confusion matrix and the precision,      *)
(* recall and F-score of every class.                                      *)
(*                                                                         *)
(* A fraction is a pair.  A definition marked `variant' is a plausible     *)
(* mistake in the one below it; no action uses it.                         *)
(***************************************************************************)
EXTENDS Integers, FiniteSets, SequencesExt, TLC

CONSTANTS
    Points,        \* datapoints
    Expected,      \* labels that may be expected of one
    Answers,       \* labels that an agent may answer
    Lower,         \* the lower case of each label
    Vocabularies,  \* lists of labels an evaluator may be configured with
    Weight,        \* of each evaluator in the score of the run
    Criteria,      \* which evaluators the datapoints may have criteria for
    Stops,         \* after how many evaluators an evaluation may fail
    MaxRounds      \* bound: of evaluations

VARIABLES
    config,   \* of the evaluators: [classes, caseSensitive, negated, criteria]
    results,  \* of the evaluations: what each gave, in their order
    report    \* of the run

vars == <<config, results, report>>

Evaluators == <<"exact", "multiclass", "binary">>
Position(e) == CHOOSE i \in DOMAIN Evaluators : Evaluators[i] = e

RunScoresAssumption ==
    /\ MaxRounds \in Nat /\ Stops \subseteq 0 .. Len(Evaluators) - 1
    /\ Weight \in [ToSet(Evaluators) -> Nat] /\ Criteria \subseteq [Points -> SUBSET ToSet(Evaluators)]
    /\ \A v \in Vocabularies : v # <<>>
    /\ \A l \in Expected \cup Answers \cup UNION {ToSet(v) : v \in Vocabularies} : Lower[Lower[l]] = Lower[l]

\* The position of a label among the classes, and 0 if it is none of them.
Index(l) == LET is == {i \in DOMAIN config.classes : Lower[config.classes[i]] = Lower[l]}
            IN  IF is = {} THEN 0 ELSE Min(is)

\* variant: the case of labels does not matter to the matrix, so never
AcceptedAnyway(c) == ~c.negated /\ IsInjective([i \in DOMAIN c.classes |-> Lower[c.classes[i]]])
\* _validate_aggregators
Accepted(c) ==
    ~c.caseSensitive /\ ~c.negated /\ IsInjective([i \in DOMAIN c.classes |-> Lower[c.classes[i]]])

NoReport == [made |-> FALSE]
Init ==
    /\ config \in {c \in [classes : Vocabularies, caseSensitive : BOOLEAN, negated : BOOLEAN,
                          criteria : Criteria] : Accepted(c)}
    /\ results = <<>>
    /\ report = NoReport

-------------------------------------------------------------------------------
(***************************************************************************)
(* Results.                                                                *)
(***************************************************************************)
Zero == [score |-> 0, just |-> <<>>]
Scored(right, expected, actual) == [score |-> IF right THEN 1 ELSE 0, just |-> <<expected, actual>>]

\* ExactMatchEvaluator.evaluate, and those of the classification evaluators;
\* one that raises is a zero without a justification.
Same(l, m) == IF config.caseSensitive THEN l = m ELSE Lower[l] = Lower[m]
Verdict(e, expected, actual) ==
    CASE e = "exact" -> Scored(Same(expected, actual) # config.negated, expected, actual)
      [] e = "multiclass" ->
            IF Index(expected) = 0 \/ Index(actual) = 0 THEN Zero
            ELSE Scored(Lower[expected] = Lower[actual], Lower[expected], Lower[actual])
      [] e = "binary" -> Scored(Lower[expected] = Lower[actual], Lower[expected], Lower[actual])

Add(p, end, given) == results' = Append(results, [point |-> p, end |-> end, given |-> given])
Judged(e, p, expected, actual) == IF e \in config.criteria[p] THEN <<Verdict(e, expected, actual)>> ELSE <<>>

\* _execute_eval: an evaluator the datapoint has no criteria for is skipped; an
\* evaluation that fails after n evaluators adds a zero for each of them all, the
\* skipped ones included, to what those n gave; one that is suspended adds nothing.
Evaluate ==
    /\ ~report.made /\ Len(results) < MaxRounds
    /\ \E p \in Points :
          \/ \E expected \in Expected, actual \in Answers :
                Add(p, "whole", [e \in ToSet(Evaluators) |-> Judged(e, p, expected, actual)])
          \/ \E expected \in Expected, actual \in Answers, n \in Stops :
                Add(p, "failed", [e \in ToSet(Evaluators) |->
                                     (IF Position(e) <= n THEN Judged(e, p, expected, actual) ELSE <<>>) \o <<Zero>>])
          \/ Add(p, "suspended", [e \in ToSet(Evaluators) |-> <<>>])
    /\ UNCHANGED <<config, report>>

\* The results an evaluator gave a datapoint, in their order.
Given(e, p) ==
    LET of == SelectSeq(results, LAMBDA r : r.point = p) IN FlattenSeq([i \in DOMAIN of |-> of[i].given[e]])
\* The datapoints an evaluator has results of.
Evaluated(e) == {results[r].point : r \in {r \in DOMAIN results : results[r].given[e] # <<>>}}

-------------------------------------------------------------------------------
(***************************************************************************)
(* Fractions.                                                              *)
(***************************************************************************)
\* Without anything to divide by, nothing.
Div(a, b) == IF b = 0 THEN <<0, 1>> ELSE <<a, b>>
Plus(f, g) == <<f[1] * g[2] + g[1] * f[2], f[2] * g[2]>>
AtMost(f, g) == f[1] * g[2] <= g[1] * f[2]
Equals(f, g) == f[1] * g[2] = g[1] * f[2]
Total(fs) == FoldSeq(Plus, <<0, 1>>, fs)
Mean(fs) == Div(Total(fs)[1], Total(fs)[2] * Len(fs))

\* _f_beta, with a beta of 1
FScore(p, r) == Div(2 * p[1] * r[1], p[1] * r[2] + r[1] * p[2])

Metrics(tp, fp, fn) ==
    LET p == Div(tp, tp + fp)
        r == Div(tp, tp + fn)
    IN  [precision |-> p, recall |-> r, fscore |-> FScore(p, r)]

-------------------------------------------------------------------------------
(***************************************************************************)
(* The confusion matrix: results become the pairs of the classes that were *)
(* predicted and expected, 0 for a label that is none of the classes.      *)
(***************************************************************************)
Classes == DOMAIN config.classes
Pairs(kept) ==
    [p \in {p \in DOMAIN kept : kept[p].just # <<>>} |-> <<Index(kept[p].just[2]), Index(kept[p].just[1])>>]
Count(pairs, predicted, expected) ==
    Cardinality({p \in DOMAIN pairs : pairs[p][1] \in predicted /\ pairs[p][2] \in expected})

\* variant: an answer that is none of the classes is dropped
MissedAnyway(pairs, c) == 0
\* oov_fn: it is a miss of the class that was expected.
Missed(pairs, c) == Count(pairs, {0}, {c})

ClassMetrics(pairs, c, missed) ==
    LET tp == Count(pairs, {c}, {c})
        fp == Count(pairs, {c}, Classes) - tp
        fn == Count(pairs, Classes, {c}) - tp + missed
    IN  [tp |-> tp, fp |-> fp, fn |-> fn] @@ Metrics(tp, fp, fn)
Averages(class) ==
    LET total(k) == FoldFunction(+, 0, [c \in Classes |-> class[c][k]])
    IN  [macro |-> [k \in {"precision", "recall", "fscore"} |-> Mean([c \in Classes |-> class[c][k]])],
         micro |-> Metrics(total("tp"), total("fp"), total("fn"))]

\* _build_confusion and ClassificationDatasetEvaluator.evaluate
Dataset(kept) ==
    LET pairs == Pairs(kept)
        scored == Count(pairs, {0} \cup Classes, Classes)
        class == [c \in Classes |-> ClassMetrics(pairs, c, Missed(pairs, c))]
    IN  [total |-> Cardinality(DOMAIN kept), scored |-> scored,
         skipped |-> Cardinality({p \in DOMAIN kept : p \notin DOMAIN pairs \/ pairs[p][2] = 0}),
         tn |-> [c \in Classes |-> scored - class[c].tp - class[c].fp - class[c].fn],
         class |-> class] @@ Averages(class)

\* The reductions of the multiclass evaluator, which drops what is none of its
\* classes, ...
Multiclass(kept) ==
    LET pairs == Pairs(kept) IN Averages([c \in Classes |-> ClassMetrics(pairs, c, 0)])

\* ... and of the binary one, to which the first class is the positive one.
Binary(kept) ==
    LET pairs == Pairs(kept)
        any == {0} \cup Classes
        tp == Count(pairs, {1}, {1})
    IN  Metrics(tp, Count(pairs, {1}, any) - tp, Count(pairs, any, {1}) - tp)

-------------------------------------------------------------------------------
(***************************************************************************)
(* The report.                                                             *)
(***************************************************************************)
\* compute_evaluator_scores: a datapoint that was given several results has
\* their average, with the justification of the first.
Once(e) ==
    [p \in Evaluated(e) |->
        LET rs == Given(e, p) IN
        [score |-> Mean([i \in DOMAIN rs |-> <<rs[i].score, 1>>]), just |-> rs[1].just]]
MeanScore(kept) == LET ps == SetToSeq(DOMAIN kept) IN Mean([i \in DOMAIN ps |-> kept[ps[i]].score])
\* The average of those that have a score, by their weights.
Final(scores) ==
    LET of == SelectSeq(Evaluators, LAMBDA e : e \in DOMAIN scores)
        weighted == [i \in DOMAIN of |-> <<Weight[of[i]] * scores[of[i]][1], scores[of[i]][2]>>]
        weight == FoldFunction(+, 0, [e \in DOMAIN scores |-> Weight[e]])
    IN  Div(Total(weighted)[1], Total(weighted)[2] * weight)

\* variant: the last result of a datapoint is kept
PreferredInstead(rs) == rs[Len(rs)]
\* compute_dataset_evaluator_results: the first with a justification is kept,
\* else the first.
Preferred(rs) ==
    LET is == {i \in DOMAIN rs : rs[i].just # <<>>} IN rs[IF is = {} THEN 1 ELSE Min(is)]

Report ==
    /\ ~report.made /\ results # <<>>
    /\ LET m == Multiclass(Once("multiclass"))
           b == Binary(Once("binary"))
           ofAny(e, x) == IF Evaluated(e) = {} THEN <<>> ELSE e :> x
           scores == ofAny("exact", MeanScore(Once("exact"))) @@ ofAny("multiclass", m.macro.fscore)
                      @@ ofAny("binary", b.precision)
       IN  report' = [made |-> TRUE, scores |-> scores, final |-> Final(scores), multiclass |-> m, binary |-> b,
                      dataset |-> Dataset([p \in Evaluated("exact") |-> Preferred(Given("exact", p))])]
    /\ UNCHANGED <<config, results>>

Next == Evaluate \/ Report
Spec == Init /\ [][Next]_vars

-------------------------------------------------------------------------------
\* The evaluations of a datapoint that said what they expected and got.
Judgements(p) ==
    {r \in DOMAIN results : results[r].point = p /\ \E i \in DOMAIN results[r].given["exact"] :
        results[r].given["exact"][i].just # <<>>}
FirstOf(p) == results[Min(Judgements(p))].given["exact"][1]
Counted == {p \in Points : Judgements(p) # {} /\ Index(FirstOf(p).just[1]) # 0}
\* Those that count: with criteria, evaluated to the end, or failed, even without.
Due == {p \in Points :
           \E r \in DOMAIN results :
              results[r].point = p /\ (results[r].end = "whole" => "exact" \in config.criteria[p])
              /\ results[r].end # "suspended"}

\* However often a datapoint was evaluated, failed or was suspended, it counts
\* once, by the first label it gave, and without criteria only if it failed: in
\* one class it was of, and there as a hit exactly if it scored
\* (compute_dataset_evaluator_results, _build_confusion, _validate_aggregators).
CountedOnce ==
    report.made =>
       LET d == report.dataset IN
       /\ d.total = Cardinality(Due) /\ d.skipped = d.total - d.scored
       /\ d.scored = Cardinality(Counted)
       /\ FoldFunction(+, 0, [c \in Classes |-> d.class[c].tp + d.class[c].fn]) = d.scored
       /\ FoldFunction(+, 0, [c \in Classes |-> d.class[c].tp]) = Cardinality({p \in Counted : FirstOf(p).score = 1})
       /\ \A c \in Classes : d.tn[c] >= 0
       /\ Equals(d.micro.recall, Div(Cardinality({p \in Counted : FirstOf(p).score = 1}), d.scored))

\* Where each datapoint was evaluated at most once, to the end and by all of the
\* evaluators, and expected one of the classes, those that reduce their own
\* results agree with the set's: the binary one on its class, the multiclass one
\* on precision, and on recall too unless it dropped an answer that is none of
\* its classes, which makes recall larger (reduce_scores,
\* ClassificationDatasetEvaluator.evaluate).
ReductionsAgree ==
    report.made =>
       LET once == IsInjective([r \in DOMAIN results |-> results[r].point])
           clean == \A r \in DOMAIN results :
                       /\ results[r].end = "whole" /\ results[r].point \in Counted
                       /\ config.criteria[results[r].point] = ToSet(Evaluators)
           known == \A p \in Counted : Index(FirstOf(p).just[2]) # 0
           d == report.dataset
           m == report.multiclass
       IN  once /\ clean =>
              /\ \A k \in DOMAIN report.binary : Equals(report.binary[k], d.class[1][k])
              /\ \A a \in {"macro", "micro"} :
                    /\ Equals(m[a].precision, d[a].precision)
                    /\ AtMost(d[a].recall, m[a].recall)
                    /\ known => Equals(m[a].recall, d[a].recall) /\ Equals(m[a].fscore, d[a].fscore)

\* An F-score lies between its precision and its recall, and the score of a run
\* between those of the evaluators that have weight and a score (_f_beta,
\* compute_evaluator_scores).
ScoresBetween ==
    report.made =>
       LET d == report.dataset
           between(x, f, g) == (AtMost(f, x) /\ AtMost(x, g)) \/ (AtMost(g, x) /\ AtMost(x, f))
           weighty == {e \in DOMAIN report.scores : Weight[e] > 0}
       IN  /\ \A m \in {d.class[c] : c \in Classes} \cup {d.micro} : between(m.fscore, m.precision, m.recall)
           /\ weighty # {} => \E e, f \in weighty : between(report.final, report.scores[e], report.scores[f])

\* Not so in the code: the set's reduction deduplicates as that of each
\* evaluator does.
DeduplicatedAlike ==
    report.made /\ Evaluated("exact") # {} =>
       Equals(report.scores["exact"],
              Div(Cardinality({p \in Evaluated("exact") : Preferred(Given("exact", p)).score = 1}),
                  Cardinality(Evaluated("exact"))))

===============================================================================
