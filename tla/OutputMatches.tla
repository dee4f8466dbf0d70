----------------------------- MODULE OutputMatches ----------------------------
(***************************************************************************)
(* The evaluators that compare one output with the one that is expected    *)
(* (uipath/eval/evaluators): by the leaves of their JSON                   *)
(* (json_similarity_evaluator.py and its legacy copy), line by line        *)
(* (output_evaluator.py, line_by_line_utils.py), and a column of a CSV     *)
(* file (legacy_csv_exact_match_evaluator.py).                             *)
(*                                                                         *)
(* A JSON value is a record: its type `t' and its content, which is `v', a *)
(* function of keys or a sequence, `s', a text as a sequence, `n', an      *)
(* integer (numbers are normalized to one type), or whatever else.  Texts  *)
(* of several lines are sequences of lines.  A score is a fraction, a      *)
(* pair; an error is one of nothing.                                       *)
(*                                                                         *)
(* A definition marked `variant' is a plausible mistake in the one below   *)
(* it; no action uses it.                                                  *)
(***************************************************************************)
EXTENDS Integers, FiniteSets, SequencesExt, TLC

CONSTANTS
    Values,  \* JSON values to be compared
    Texts,   \* outputs of several lines
    Files,   \* CSV files
    Blank,   \* the line that is blank
    Lower,   \* the lower case of each line of a text
    Header,  \* the line that names the column which is compared
    Column   \* what is in this column, of each line that is not blank

MatchesAssumption ==
    /\ \A text \in Texts \cup Files : text # <<>>
    /\ \A text \in Texts : \A i \in DOMAIN text : Lower[Lower[text[i]]] = Lower[text[i]]
    /\ \A l \in DOMAIN Lower : Lower[l] = Blank <=> l = Blank
    /\ Header \in DOMAIN Column /\ Blank \notin DOMAIN Column

VARIABLE compared  \* one output with the one expected, and the score

Error == <<0, 0>>
Init == compared = [of |-> "nothing"]

Plus(f, g) == <<f[1] * g[2] + g[1] * f[2], f[2] * g[2]>>
AtMost(f, g) == f[1] * g[2] <= g[1] * f[2]
Equals(f, g) == AtMost(f, g) /\ AtMost(g, f)
Sum(fs) == FoldSeq(Plus, <<0, 1>>, fs)
Least(S) == CHOOSE n \in S : \A m \in S : n <= m

-------------------------------------------------------------------------------
(***************************************************************************)
(* JSON.                                                                   *)
(***************************************************************************)
\* The values in a dict or a list, in some order.
Parts(j) == LET at == SetToSeq(DOMAIN j.v) IN [i \in DOMAIN at |-> j.v[at[i]]]
Branches == {"dict", "list"}

RECURSIVE Leaves(_)
\* _count_leaves
Leaves(j) ==
    IF j.t \notin Branches THEN 1
    ELSE LET parts == Parts(j) IN FoldSeq(+, 0, [i \in DOMAIN parts |-> Leaves(parts[i])])

\* _levenshtein
Distance(s, t) ==
    LET d[p \in (0 .. Len(s)) \X (0 .. Len(t))] ==
           IF p[1] = 0 THEN p[2] ELSE IF p[2] = 0 THEN p[1]
           ELSE Least({d[<<p[1] - 1, p[2]>>] + 1, d[<<p[1], p[2] - 1>>] + 1,
                       d[<<p[1] - 1, p[2] - 1>>] + IF s[p[1]] = t[p[2]] THEN 0 ELSE 1})
    IN  d[<<Len(s), Len(t)>>]

Abs(n) == IF n < 0 THEN -n ELSE n
Larger(m, n) == IF m > n THEN m ELSE n
\* _compare_numbers, _compare_strings, and the rest of the leaves.
Close(e, a) ==
    CASE e.t = "number" /\ e.n = 0 -> <<IF a.n = 0 THEN 1 ELSE 0, 1>>
      [] e.t = "number" /\ e.n # 0 -> <<Larger(0, Abs(e.n) - Abs(e.n - a.n)), Abs(e.n)>>
      [] e.t = "text" -> IF e.s = <<>> /\ a.s = <<>> THEN <<1, 1>>
                         ELSE LET n == Larger(Len(e.s), Len(a.s)) IN <<n - Distance(e.s, a.s), n>>
      [] OTHER -> <<IF e = a THEN 1 ELSE 0, 1>>

\* variant: only what both have counts
CommonInstead(e, a) == {k \in DOMAIN e.v : k \in DOMAIN a.v}
\* The keys or positions that count: all that are expected.
Counting(e, a) == DOMAIN e.v

RECURSIVE Compare(_, _)
\* _compare_tokens: how much is matched, out of how many leaves.
Compare(e, a) ==
    IF e.t # a.t THEN [matched |-> <<0, 1>>, total |-> Leaves(e)]
    ELSE IF e.t \notin Branches THEN [matched |-> Close(e, a), total |-> 1]
    ELSE LET at == SetToSeq(Counting(e, a))
             part == [i \in DOMAIN at |->
                         IF at[i] \in DOMAIN a.v THEN Compare(e.v[at[i]], a.v[at[i]])
                         ELSE [matched |-> <<0, 1>>, total |-> Leaves(e.v[at[i]])]]
         IN  [matched |-> Sum([i \in DOMAIN at |-> part[i].matched]),
              total |-> FoldSeq(+, 0, [i \in DOMAIN at |-> part[i].total])]

\* _compare_json
Similar ==
    \E e, a \in Values :
       LET c == Compare(e, a) IN
       compared' = [of |-> "similarity", expected |-> e, actual |-> a, matched |-> c.matched, total |-> c.total,
                    score |-> IF c.total = 0 THEN <<1, 1>> ELSE <<c.matched[1], c.matched[2] * c.total>>]

-------------------------------------------------------------------------------
(***************************************************************************)
(* Lines.                                                                  *)
(***************************************************************************)
\* split_into_lines
Lines(text) == SelectSeq(text, LAMBDA l : l # Blank)
Line(lines, i) == IF i <= Len(lines) THEN lines[i] ELSE Blank
\* aggregate_line_scores, of lines that score one or nothing
Average(right, n) == IF n = 0 THEN <<0, 1>> ELSE <<Cardinality(right), n>>

\* variant: as many lines as both have
ShorterInstead(m, n) == IF m < n THEN m ELSE n
\* evaluate_lines: as many as the longer has.
LinesOf(m, n) == Larger(m, n)

\* ExactMatchEvaluator, whole or line by line, negated or not, the output being
\* under a key or not.  A path of several keys leads to the output, but a line is
\* wrapped under the whole path as one key, and is not found
\* (wrap_line_in_structure, resolve_output_path).
Keys == {"*", "key", "path.of.keys"}
Cased(text, sensitive) == IF sensitive THEN text ELSE [i \in DOMAIN text |-> Lower[text[i]]]
Exact(e, a, sensitive, negated) == (Cased(e, sensitive) = Cased(a, sensitive)) # negated
ByLine(e, a, key, sensitive, negated) ==
    LET n == LinesOf(Len(Lines(a)), Len(Lines(e)))
        line(text, i) == <<Line(Lines(text), i)>>
    IN  IF key = "path.of.keys" /\ n > 0 THEN Error
        ELSE Average({i \in 1 .. n : Exact(line(e, i), line(a, i), sensitive, negated)}, n)
Match ==
    \E e, a \in Texts, key \in Keys, sensitive, negated \in BOOLEAN :
       compared' = [of |-> "lines", expected |-> e, actual |-> a, key |-> key,
                    sensitive |-> sensitive, negated |-> negated,
                    whole |-> IF Exact(e, a, sensitive, negated) THEN <<1, 1>> ELSE <<0, 1>>,
                    score |-> ByLine(e, a, key, sensitive, negated)]

-------------------------------------------------------------------------------
(***************************************************************************)
(* CSV files.                                                              *)
(***************************************************************************)
\* _extract_single_record_from_csv: the first row, whose blank lines the reader
\* skips, but for one where the header should be.
Record(file) ==
    LET rows == Lines(Tail(file)) IN
    IF file[1] # Header \/ rows = <<>> THEN <<>> ELSE <<Column[rows[1]]>>
\* LegacyCSVExactMatchEvaluator.evaluate
Whole(e, a) ==
    IF Record(a) = <<>> \/ Record(e) = <<>> THEN Error ELSE IF Record(a) = Record(e) THEN <<1, 1>> ELSE <<0, 1>>

\* Its _evaluate_line_by_line: each row below the header, or the header alone;
\* what fails scores nothing.
Row(lines, i) == IF i < Len(lines) THEN <<lines[1], lines[i + 1]>> ELSE <<lines[1]>>
ByRow(e, a) ==
    IF Lines(e) = <<>> \/ Lines(a) = <<>> THEN Error
    ELSE LET n == LinesOf(Len(Lines(a)) - 1, Len(Lines(e)) - 1)
         IN  Average({i \in 1 .. n : Whole(Row(Lines(e), i), Row(Lines(a), i)) = <<1, 1>>}, n)
MatchFiles ==
    \E e, a \in Files :
       compared' = [of |-> "files", expected |-> e, actual |-> a, whole |-> Whole(e, a), score |-> ByRow(e, a)]

Next == compared.of = "nothing" /\ (Similar \/ Match \/ MatchFiles)
Spec == Init /\ [][Next]_compared

-------------------------------------------------------------------------------
\* The ways to write parts of one text over parts of another in their order.
Alignments(s, t) ==
    {A \in SUBSET ((DOMAIN s) \X (DOMAIN t)) :
        \A p, q \in A : p # q => (p[1] < q[1] /\ p[2] < q[2]) \/ (q[1] < p[1] /\ q[2] < p[2])}
Edits(s, t, A) == Len(s) + Len(t) - 2 * Cardinality(A) + Cardinality({p \in A : s[p[1]] # t[p[2]]})

RECURSIVE Contained(_, _)
\* All the leaves of one value are in the other, at the same place.
Contained(e, a) ==
    IF e.t \in Branches
    THEN \A k \in DOMAIN e.v :
            Leaves(e.v[k]) # 0 => e.t = a.t /\ k \in DOMAIN a.v /\ Contained(e.v[k], a.v[k])
    ELSE e = a

\* All expected leaves count, whatever the actual value is like, none for more
\* than itself, and all are matched exactly if they are all there; and texts are
\* as far apart as the fewest edits between them (_compare_tokens, _levenshtein).
SimilarityRight ==
    compared.of = "similarity" =>
       LET e == compared.expected
           a == compared.actual
       IN  /\ compared.total = Leaves(e)
           /\ AtMost(<<0, 1>>, compared.matched) /\ AtMost(compared.matched, <<compared.total, 1>>)
           /\ Equals(compared.score, <<1, 1>>) <=> Contained(e, a)
           /\ e.t = "text" /\ a.t = "text" =>
                 Distance(e.s, a.s) = Least({Edits(e.s, a.s, A) : A \in Alignments(e.s, a.s)})

\* An output that is the one expected, as a whole, is so in each line, and one
\* that is in each line has the lines of the one expected, whether that makes it
\* right or, negated, wrong (evaluate_lines, build_line_by_line_result); a CSV
\* file's first row is right exactly if the file is, and all are right only if
\* there are as many as expected.
LinesMatchWhole ==
    /\ compared.of = "lines" /\ compared.score # Error =>
          LET cased(text) == Cased(Lines(text), compared.sensitive)
              same == IF compared.negated THEN <<0, 1>> ELSE <<1, 1>>
          IN  /\ compared.whole = same /\ Lines(compared.expected) # <<>> => Equals(compared.score, same)
              /\ Equals(compared.score, same) => cased(compared.expected) = cased(compared.actual)
    /\ compared.of = "files" /\ compared.score # Error =>
          LET e == Lines(compared.expected)
              a == Lines(compared.actual)
          IN  /\ compared.whole = <<1, 1>> => compared.score[1] > 0
              /\ compared.whole # Error /\ compared.score[1] = compared.score[2] =>
                    /\ compared.whole = <<1, 1>>
                    /\ Len(e) = Len(a) /\ \A i \in 2 .. Len(e) : Column[e[i]] = Column[a[i]]

\* Not so in the code: an output that is right as a whole is right line by line,
\* wherever it is, and negated or not.
RightIsRight == compared.of = "lines" /\ compared.whole = <<1, 1>> => Equals(compared.score, <<1, 1>>)

===============================================================================
