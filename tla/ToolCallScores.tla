---------------------------- MODULE ToolCallScores ----------------------------
(***************************************************************************)
(* The evaluators of an agent's tool calls: of their order, how many there *)
(* are, with which arguments and with which outputs                        *)
(* (uipath/eval/_helpers/evaluators_helpers.py and the evaluators of       *)
(* tool_call_*_evaluator.py).  The agent calls tools; then evaluators      *)
(* compare what it called with what is expected.                           *)
(*                                                                         *)
(* A call is of a tool, which may have an id, and has a content: its       *)
(* arguments, or to the evaluator of outputs its output.  A name may be    *)
(* spelled as it is shown or as the runtime sanitizes it.  A score is how  *)
(* many of the expected calls count for it.                                *)
(*                                                                         *)
(* A definition marked `variant' is a plausible mistake in the one below   *)
(* it; no action uses it.                                                  *)
(***************************************************************************)
EXTENDS Naturals, FiniteSets, SequencesExt

CONSTANTS
    Tools,     \* calls an agent may make: [name, id, content]
    ExpectedCalls, \* calls that may be expected: the same, the id may be the name
    None,      \* no id
    Sanitized, \* what a name or an id is sanitized to
    MaxCalls,  \* bound: of calls made
    MaxWanted  \* bound: of calls expected

\* _sanitize_tool_name: twice is once.
ScoresAssumption ==
    /\ MaxCalls \in Nat /\ MaxWanted \in Nat /\ IsFiniteSet(ExpectedCalls)
    /\ \A k \in DOMAIN Sanitized : Sanitized[k] \in DOMAIN Sanitized /\ Sanitized[Sanitized[k]] = Sanitized[k]

VARIABLES
    made,   \* the calls the agent made, in their order
    score   \* what an evaluator made of them

vars == <<made, score>>

NoScore == [of |-> "nothing"]
Init == made = <<>> /\ score = NoScore

Call == score = NoScore /\ Len(made) < MaxCalls /\ \E c \in Tools : made' = Append(made, c) /\ UNCHANGED score

\* extract_tool_calls, count_tool_calls_by_name_and_id: what a call goes by.
Key(c) == IF c.id # None THEN c.id ELSE c.name

\* _match_key and _calls_match: an expected call may give the id as its name;
\* without an id, names are those that sanitizing leaves.
MatchKey(c, key) == IF c.id # None THEN key = c.id ELSE Sanitized[key] = Sanitized[c.name]
CallsMatch(c, w) == IF c.id # None THEN c.id = Key(w) ELSE Sanitized[c.name] = Sanitized[w.name]

Expectations == SeqOf(ExpectedCalls, MaxWanted)

\* A score, of so many expectations: to have called nothing is as good as can
\* be if nothing is expected, and as bad whatever else is.
Value(hits, n) ==
    IF made = <<>> /\ n = 0 THEN <<1, 1>>
    ELSE IF made = <<>> \/ n = 0 THEN <<0, 1>> ELSE <<hits, n>>
Scored(kind, wanted, strict, pairs) ==
    [of |-> kind, wanted |-> wanted, strict |-> strict, pairs |-> pairs,
     value |-> Value(Cardinality(pairs), Len(wanted))]

\* Strictly, all or nothing.
AllOf(wanted, strict, pairs) == IF strict /\ Cardinality(pairs) # Len(wanted) THEN {} ELSE pairs

-------------------------------------------------------------------------------
(***************************************************************************)
(* The order of the calls.                                                 *)
(***************************************************************************)
\* _build_lcs_dp
Table(keys) ==
    LET dp[p \in (0 .. Len(made)) \X (0 .. Len(keys))] ==
           IF p[1] = 0 \/ p[2] = 0 THEN 0
           ELSE IF MatchKey(made[p[1]], keys[p[2]]) THEN dp[<<p[1] - 1, p[2] - 1>>] + 1
           ELSE IF dp[<<p[1] - 1, p[2]>>] > dp[<<p[1], p[2] - 1>>]
                THEN dp[<<p[1] - 1, p[2]>>] ELSE dp[<<p[1], p[2] - 1>>]
    IN  dp

\* variant: of two ways that are as good the shorter list of calls
UpInstead(above, left) == above < left
\* _reconstruct_lcs: whether the way back goes up the table, else to the left.
Up(above, left) == above > left

\* The pairs of a call and a key on the way back.
Way(keys) ==
    LET dp == Table(keys)
        way[p \in (0 .. Len(made)) \X (0 .. Len(keys))] ==
           IF p[1] = 0 \/ p[2] = 0 THEN {}
           ELSE IF MatchKey(made[p[1]], keys[p[2]]) THEN {p} \cup way[<<p[1] - 1, p[2] - 1>>]
           ELSE IF Up(dp[<<p[1] - 1, p[2]>>], dp[<<p[1], p[2] - 1>>])
                THEN way[<<p[1] - 1, p[2]>>] ELSE way[<<p[1], p[2] - 1>>]
    IN  way[<<Len(made), Len(keys)>>]

KeysOf(wanted) == [i \in DOMAIN wanted |-> Key(wanted[i])]

\* _strict_order_score, tool_calls_order_score_with_ids
InOrder(keys) == Len(made) = Len(keys) /\ \A i \in DOMAIN keys : MatchKey(made[i], keys[i])
OrderPairs(keys, strict) ==
    IF ~strict THEN Way(keys) ELSE IF InOrder(keys) THEN {<<i, i>> : i \in DOMAIN keys} ELSE {}

Order ==
    \E wanted \in Expectations, strict \in BOOLEAN :
       score' = Scored("order", wanted, strict, OrderPairs(KeysOf(wanted), strict))

-------------------------------------------------------------------------------
(***************************************************************************)
(* How many calls there are, and their arguments and outputs.              *)
(***************************************************************************)
\* Calls are counted by what they go by, a name as it was called.
Called(key) == Cardinality({i \in DOMAIN made : Key(made[i]) = key})
\* An expected key as it is, else, where no call goes by it, sanitized.
Times(key) == IF Called(key) > 0 THEN Called(key) ELSE Called(Sanitized[key])
Compared(cmp, m, n) ==
    CASE cmp = "=" -> m = n [] cmp = ">" -> m > n [] cmp = "<" -> m < n
      [] cmp = "!=" -> m # n [] cmp = ">=" -> m >= n [] cmp = "<=" -> m <= n

\* tool_calls_count_score: how often each key is called; the same comparison
\* for all of them.
Counts == UNION {[K -> 0 .. MaxCalls] : K \in SUBSET {Key(w) : w \in ExpectedCalls}}
Count ==
    \E expected \in Counts, cmp \in {"=", ">", "<", "!=", ">=", "<="}, strict \in BOOLEAN :
       LET keys == DOMAIN expected
           right == {k \in keys : Compared(cmp, Times(k), expected[k])}
           counted == IF strict /\ right # keys THEN {} ELSE right
       IN  score' = [of |-> "count", expected |-> expected, cmp |-> cmp, right |-> right,
                     value |-> Value(Cardinality(counted), Cardinality(keys))]

\* Both kinds of args_check come to this: a missing key is no match.
Fits(c, w) == \A k \in DOMAIN w.content : k \in DOMAIN c.content /\ c.content[k] = w.content[k]

Least(S) == CHOOSE i \in S : \A j \in S : i <= j

\* visited: the calls that count for an expectation already.
Visited(taken) == {p[1] : p \in taken}

\* tool_calls_args_score: each expectation takes the first call left that fits.
ArgsPairs(wanted) ==
    LET taken[n \in 0 .. Len(wanted)] ==
           IF n = 0 THEN {}
           ELSE LET left == {i \in DOMAIN made \ Visited(taken[n - 1]) :
                                CallsMatch(made[i], wanted[n]) /\ Fits(made[i], wanted[n])}
                IN  taken[n - 1] \cup IF left = {} THEN {} ELSE {<<Least(left), n>>}
    IN  taken[Len(wanted)]

Args ==
    \E wanted \in Expectations, strict, subset \in BOOLEAN :
       LET taken == ArgsPairs(wanted)
           pairs == AllOf(wanted, strict, taken)
       IN  score' = [of |-> "args", wanted |-> wanted, strict |-> strict, subset |-> subset, taken |-> taken,
                     pairs |-> pairs, value |-> Value(Cardinality(pairs), Len(wanted))]

\* tool_calls_output_score: when strict, the first call left of the tool must
\* have the output, and what does not ends it.
Equal(c, w) == c.content = w.content
OutputPairs(wanted, strict) ==
    LET taken[n \in 0 .. Len(wanted)] ==
           IF n = 0 THEN {}
           ELSE LET left == {i \in DOMAIN made \ Visited(taken[n - 1]) : CallsMatch(made[i], wanted[n])}
                    open == IF strict /\ left # {} THEN {Least(left)} ELSE left
                    equal == {i \in open : Equal(made[i], wanted[n])}
                IN  taken[n - 1] \cup IF equal = {} THEN {} ELSE {<<Least(equal), n>>}
    IN  taken[Len(wanted)]

Output ==
    \E wanted \in Expectations, strict \in BOOLEAN :
       score' = Scored("output", wanted, strict, AllOf(wanted, strict, OutputPairs(wanted, strict)))

Evaluate == score = NoScore /\ (Order \/ Count \/ Args \/ Output) /\ UNCHANGED made
Next == Call \/ Evaluate
Spec == Init /\ [][Next]_vars

-------------------------------------------------------------------------------
\* Some calls for the expectations S, one each, and in their order if need be.
Assignments(S, match(_, _), ordered) ==
    {f \in [S -> DOMAIN made] :
        \A n \in S : /\ match(made[f[n]], score.wanted[n])
                     /\ \A o \in S : o < n => f[o] # f[n] /\ (ordered => f[o] < f[n])}
\* How many expectations there can be calls for.
Best(match(_, _), ordered) ==
    LET possible == {S \in SUBSET DOMAIN score.wanted : Assignments(S, match, ordered) # {}}
    IN  CHOOSE n \in 0 .. Len(score.wanted) :
           /\ \E S \in possible : Cardinality(S) = n
           /\ \A S \in possible : Cardinality(S) <= n

Hits == Cardinality(score.pairs)
Full == score.value[1] = score.value[2]

\* The score of the order is the longest common subsequence, and what is said
\* to be it is one; strictly, all or nothing (_build_lcs_dp, _reconstruct_lcs).
LongestFound ==
    score.of = "order" =>
       LET match(c, w) == MatchKey(c, Key(w)) IN
       IF score.strict THEN Hits \in {0, Len(score.wanted)} /\ (Full <=> InOrder(KeysOf(score.wanted)))
       ELSE /\ Hits = Best(match, TRUE)
            /\ \A p, q \in score.pairs :
                  match(made[p[1]], score.wanted[p[2]]) /\ (p[1] < q[1] <=> p[2] < q[2])

\* Each call counts once, and no call is left that an expectation which counts
\* none could have; strictly, all or nothing (tool_calls_args_score).
NothingOverlooked ==
    score.of = "args" =>
       /\ \A p, q \in score.taken : p # q => p[1] # q[1] /\ p[2] # q[2]
       /\ \A i \in DOMAIN made, n \in DOMAIN score.wanted :
             CallsMatch(made[i], score.wanted[n]) /\ Fits(made[i], score.wanted[n])
                => \E p \in score.taken : p[1] = i \/ p[2] = n
       /\ score.strict => Hits \in {0, Len(score.wanted)}

\* Where all the calls have ids or none has, the outputs counted are as many as
\* can be, whatever the order of the calls; strictly, no more than those
\* (tool_calls_output_score).
OutputsCounted ==
    score.of = "output" /\ (\A i, j \in DOMAIN made : made[i].id = None <=> made[j].id = None) =>
       LET match(c, w) == CallsMatch(c, w) /\ Equal(c, w) IN
       IF score.strict THEN Hits <= Best(match, FALSE) ELSE Hits = Best(match, FALSE)

\* What was called in exactly the order expected was called as often as that, if
\* what was called goes by a sanitized name and what is expected has one spelling
\* (count_tool_calls_by_name_and_id, _match_key, tool_calls_count_score).
CountsAsOrdered(keys) ==
    /\ InOrder(keys) /\ keys # <<>>
    /\ \A k \in DOMAIN score.expected : score.expected[k] = Cardinality({n \in DOMAIN keys : keys[n] = k})
OneSpelling(keys) ==
    \A k, l \in DOMAIN score.expected \cup Range(keys) : Sanitized[k] = Sanitized[l] => k = l
OrderImpliesCount ==
    score.of = "count" /\ score.cmp = "=" /\ score.expected # <<>> =>
       \A wanted \in Expectations :
          LET keys == KeysOf(wanted) IN
          CountsAsOrdered(keys) /\ OneSpelling(keys)
          /\ (\A i \in DOMAIN made : Sanitized[Key(made[i])] = Key(made[i]))
             => Full

\* Not so in the code: whatever the spelling of what was called ...
SpellingsAgree ==
    score.of = "count" /\ score.cmp = "=" /\ score.expected # <<>> =>
       \A wanted \in Expectations :
          LET keys == KeysOf(wanted) IN CountsAsOrdered(keys) /\ OneSpelling(keys) => Full

\* ... without subset, arguments are the expected ones ...
ExactIsExact ==
    score.of = "args" /\ ~score.subset =>
       \A p \in score.pairs : made[p[1]].content = score.wanted[p[2]].content

\* ... the order of calls does not matter to their arguments ...
ArgsCounted ==
    score.of = "args" /\ ~score.strict =>
       LET match(c, w) == CallsMatch(c, w) /\ Fits(c, w) IN Hits = Best(match, FALSE)

\* ... strictly, outputs count unless not all are matched ...
StrictIsAll ==
    score.of = "output" /\ score.strict /\ score.wanted # <<>> =>
       (Full <=> Cardinality(OutputPairs(score.wanted, FALSE)) = Len(score.wanted))

\* ... and counts are full if each is right.
RightIsFull == score.of = "count" /\ score.right = DOMAIN score.expected /\ score.right # {} => Full

===============================================================================
