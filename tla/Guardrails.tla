------------------------------ MODULE Guardrails -------------------------------
(***************************************************************************)
(* Guardrails around a call.                                               *)
(*                                                                         *)
(* Of a function that is decorated with several, the outer ones look at    *)
(* its arguments before the inner ones and at its value after them         *)
(* (uipath/platform/guardrails: decorators, validators, service).  And a   *)
(* guardrail of rules is asked before a call about its input and after it  *)
(* about its input and output (uipath/core/guardrails).                    *)
(*                                                                         *)
(* Data is clean, bad or redacted; what a check that can say so calls a    *)
(* violation is that something is bad.  A definition marked `variant' is a *)
(* plausible mistake in the one below it; no action uses it.               *)
(***************************************************************************)
EXTENDS Naturals, FiniteSets, Sequences

CONSTANTS
    Guards,      \* what a function may be decorated with: [stage, check, action]
    MaxGuards,   \* bound: of them on one function
    Signatures,  \* sets of parameters, those that are not excluded
    Excluded,    \* parameters with GuardrailExclude
    InFields,    \* of the input of a call that rules are about
    OutFields,   \* of its output
    Contents,    \* of a field: [array, values], the values being [type, bad]
    MaxRules     \* bound: of rules of one guardrail

Stages == {"pre", "post", "pre_and_post"}
\* A rule of one or two parameters, one that raises, and the service.
Checks == {"rule", "pair", "raising", "service"}
\* None, an exception, the data redacted as a dict, and a text.
Actions == {"log", "block", "redact", "text"}

GuardrailsAssumption ==
    /\ Guards \subseteq [stage : Stages, check : Checks, action : Actions]
    /\ MaxGuards \in Nat /\ MaxRules \in Nat
    /\ \A s \in Signatures : s # {} /\ s \cap Excluded = {} /\ IsFiniteSet(s)
    /\ IsFiniteSet(Excluded)
    /\ InFields \cap OutFields = {}

VARIABLES
    guarded,  \* the decorated function: [guards, params, resolved], and the arguments given
    bound,    \* the arguments each guardrail entered lets through, outer first
    returned, \* how far the call is, and what it returns: [at, layer, kind, data, by]
    asked,    \* the guardrails that were asked, in their order: <<guardrail, stage>>
    ruled     \* or a guardrail of rules and the call it is about

cvars == <<guarded, bound, returned, asked>>
vars == <<cvars, ruled>>

SeqsUpTo(S, n) == UNION {[1 .. m -> S] : m \in 0 .. n}
NoRules == [phase |-> "none"]
Unasked == [phase |-> "unasked"]
Calls ==
    UNION {[guards : SeqsUpTo(Guards, MaxGuards), params : {s}, resolved : BOOLEAN,
            given : [s \cup Excluded -> {"clean", "bad"}]] : s \in Signatures}

Entering == [at |-> "entering", layer |-> 0, kind |-> "none", data |-> "clean", by |-> {}]
Init ==
    /\ bound = <<>> /\ asked = <<>>
    /\ \/ guarded \in Calls /\ returned = Entering /\ ruled = NoRules
       \/ guarded = [guards |-> <<>>] /\ returned = [Entering EXCEPT !.at = "never"] /\ ruled = Unasked

-------------------------------------------------------------------------------
(***************************************************************************)
(* The decorated function.                                                 *)
(***************************************************************************)
\* _get_excluded_params: none if the hints of the function cannot be resolved.
Collected == IF guarded.resolved THEN guarded.params ELSE guarded.params \cup Excluded

Of(stage, guard) == guard.stage \in {stage, "pre_and_post"}

\* CustomValidator.evaluate, evaluate_guardrail and _parse_result: a rule of two
\* parameters says nothing without an output; one that raises passes; and the
\* service may not be entitled, disabled or fail, which is no violation, or say
\* what is unknown, which is one.
Verdicts(guard, stage, input, output) ==
    CASE guard.check = "rule" -> {IF stage = "pre" THEN input ELSE output}
      [] guard.check = "pair" -> {stage = "post" /\ input /\ output}
      [] guard.check = "raising" -> {FALSE}
      [] guard.check = "service" -> BOOLEAN

Redacted(data) == IF data = "bad" THEN "redacted" ELSE data
Bad(args) == \E p \in Collected : args[p] = "bad"

\* variant: a text replaces every parameter
TextForAll(args) == [p \in DOMAIN args |-> IF p \in Collected THEN "redacted" ELSE args[p]]
\* _apply_pre_modification: it replaces the one there is.
TextFor(args) ==
    IF Cardinality(Collected) # 1 THEN args
    ELSE [p \in DOMAIN args |-> IF p \in Collected THEN "redacted" ELSE args[p]]
Modified(action, args) ==
    CASE action = "redact" -> [p \in DOMAIN args |-> IF p \in Collected THEN Redacted(args[p]) ELSE args[p]]
      [] action = "text" -> TextFor(args)
      [] OTHER -> args

Entered == Len(bound)
Arguments(layer) == IF layer = 0 THEN guarded.given ELSE bound[layer]

\* _wrapped until the function, _run_pre: arguments are checked, and changed
\* only where they fail.
Enter ==
    /\ returned.at = "entering" /\ Entered < Len(guarded.guards)
    /\ LET guard == guarded.guards[Entered + 1]
           args == Arguments(Entered)
       IN  IF ~Of("pre", guard) THEN bound' = Append(bound, args) /\ UNCHANGED <<asked, returned>>
           ELSE /\ asked' = Append(asked, <<Entered + 1, "pre">>)
                /\ \E failed \in Verdicts(guard, "pre", Bad(args), FALSE) :
                      IF failed /\ guard.action = "block"
                      THEN returned' = [returned EXCEPT !.at = "blocked"] /\ UNCHANGED bound
                      ELSE /\ bound' = Append(bound, IF failed THEN Modified(guard.action, args) ELSE args)
                           /\ UNCHANGED returned
    /\ UNCHANGED <<guarded, ruled>>

\* The function returns a plain value, a dict, a model, or an object an adapter
\* recognizes, or raises.
Kinds == {"plain", "dict", "model", "adapted"}
Call ==
    /\ returned.at = "entering" /\ Entered = Len(guarded.guards)
    /\ \/ \E kind \in Kinds, data \in {"clean", "bad"} :
             /\ kind = "adapted" => data = "clean"
             /\ returned' = [at |-> "leaving", layer |-> Entered, kind |-> kind, data |-> data, by |-> {}]
       \/ returned' = [returned EXCEPT !.at = "raised"]
    /\ UNCHANGED <<guarded, bound, asked, ruled>>

\* _reconstruct_output: a model is one again if it can be, what else there is
\* becomes what the action made of it.
KindsAfter(action, kind) ==
    CASE action = "redact" -> IF kind = "model" THEN {"model", "dict"} ELSE {"dict"}
      [] action = "text" -> {"plain"}
      [] OTHER -> {kind}
DataAfter(action, data) ==
    CASE action = "text" -> "redacted" [] action = "redact" -> Redacted(data) [] OTHER -> data

\* _dispatch_return: what an adapter recognizes is wrapped, and may be
\* recognized again.
Dispatch ==
    /\ returned.at = "leaving" /\ returned.layer > 0
    /\ IF returned.kind # "adapted" THEN returned' = [returned EXCEPT !.at = "checking"]
       ELSE \E kind \in {"adapted", "plain"} :
               returned' = [returned EXCEPT !.at = "checking", !.kind = kind, !.by = @ \cup {returned.layer}]
    /\ UNCHANGED <<guarded, bound, asked, ruled>>

\* variant: the value is left to those that were not asked about the arguments
ChecksPostOnly(guard) == guard.stage = "post" /\ returned.kind # "adapted"
\* _wrapped after the function, _run_post.
ChecksPost(guard) == Of("post", guard) /\ returned.kind # "adapted"
Leave ==
    /\ returned.at = "checking"
    /\ LET guard == guarded.guards[returned.layer]
           left == [returned EXCEPT !.at = "leaving", !.layer = @ - 1]
       IN  IF ~ChecksPost(guard) THEN returned' = left /\ UNCHANGED asked
           ELSE /\ asked' = Append(asked, <<returned.layer, "post">>)
                /\ \E failed \in Verdicts(guard, "post", Bad(Arguments(returned.layer)), returned.data = "bad") :
                      IF ~failed THEN returned' = left
                      ELSE IF guard.action = "block" THEN returned' = [returned EXCEPT !.at = "blocked"]
                      ELSE \E kind \in KindsAfter(guard.action, returned.kind) :
                              returned' = [left EXCEPT !.kind = kind, !.data = DataAfter(guard.action, @)]
    /\ UNCHANGED <<guarded, bound, ruled>>

-------------------------------------------------------------------------------
(***************************************************************************)
(* A guardrail of rules: about fields, all of a source or some by their    *)
(* path, or about every call.                                              *)
(***************************************************************************)
Types == {"word", "number"}
Sources == {"input", "output"}
FieldRules ==
    [type : Types, all : (SUBSET Sources) \ {{}}, fields : {{}}]
    \cup [type : Types, all : {{}}, fields : (SUBSET (InFields \cup OutFields)) \ {{}}]
Always == [type : {"always"}, of : {"input", "output", "both"}]
Rules == FieldRules \cup Always

\* get_fields_from_selector, extract_field_value: a path goes through an array,
\* all fields are taken as they are.
ValuesOf(rule, input, output) ==
    LET whole(c) == IF c.array THEN {[type |-> "array", bad |-> FALSE]} ELSE c.values
        all(data) == UNION {whole(data[f]) : f \in DOMAIN data}
        of(data) == UNION {data[f].values : f \in rule.fields \cap DOMAIN data}
    IN  (IF "input" \in rule.all THEN all(input) ELSE {})
        \cup (IF "output" \in rule.all THEN all(output) ELSE {})
        \cup of(input) \cup of(output)

\* variant: one value that is bad is enough
ViolatedByOne(rule, input, output) ==
    \E v \in ValuesOf(rule, input, output) : v.type = rule.type /\ v.bad
\* evaluate_word_rule and evaluate_number_rule: a rule passes without fields,
\* or for a value of its type that is no violation.
Violated(rule, input, output) ==
    LET values == ValuesOf(rule, input, output) IN
    values # {} /\ \A v \in values : v.type = rule.type => v.bad
\* evaluate_universal_rule: without an output it takes a call not to be over.
Enforced(rule, output) ==
    CASE rule.of = "input" -> output = <<>> [] rule.of = "output" -> output # <<>> [] rule.of = "both" -> TRUE

\* _has_output_dependent_rule
Dependent(rule, of) ==
    IF rule.type = "always" THEN rule.of \in of ELSE "output" \in rule.all \/ rule.fields \cap OutFields # {}
OutputRule(rules, of) == \E i \in DOMAIN rules : Dependent(rules[i], of)

\* _evaluate_deterministic_guardrail: only if all rules are violated.
AllViolated(rules, input, output) ==
    \A i \in DOMAIN rules :
       IF rules[i].type = "always" THEN Enforced(rules[i], output) ELSE Violated(rules[i], input, output)

\* evaluate_pre_deterministic_guardrail and evaluate_post_deterministic_guardrail
FailsPre(rules, input) == ~OutputRule(rules, {"output"}) /\ AllViolated(rules, input, <<>>)
FailsPost(rules, input, output) == OutputRule(rules, {"output", "both"}) /\ AllViolated(rules, input, output)

DataOf(fields) == UNION {[F -> Contents] : F \in SUBSET fields}
AskBefore ==
    /\ ruled = Unasked
    /\ \E rules \in SeqsUpTo(Rules, MaxRules), input \in DataOf(InFields) :
          ruled' = [phase |-> "pre", rules |-> rules, input |-> input, failed |-> FailsPre(rules, input)]
    /\ UNCHANGED cvars
AskAfter ==
    /\ ruled.phase = "pre" /\ ~ruled.failed
    /\ \E output \in DataOf(OutFields) :
          ruled' = [phase |-> "post", rules |-> ruled.rules, input |-> ruled.input, output |-> output,
                    failed |-> FailsPost(ruled.rules, ruled.input, output)]
    /\ UNCHANGED cvars

Next == Enter \/ Call \/ Dispatch \/ Leave \/ AskBefore \/ AskAfter
Spec == Init /\ [][Next]_vars

-------------------------------------------------------------------------------
GuardsOf(stage) == {i \in DOMAIN guarded.guards : Of(stage, guarded.guards[i])}
Called ==
    returned.at \in {"leaving", "checking", "raised"} \/ (returned.at = "blocked" /\ returned.kind # "none")

\* Parameters that are excluded reach the function as they were given, if its
\* hints can be resolved, and so does what is clean, but for the only parameter
\* there is; and what is bad among the others reaches it only past guardrails
\* that could not tell or do not replace it (_run_pre, _apply_pre_modification).
NothingBadPasses ==
    Called =>
       LET args == Arguments(Entered) IN
       /\ guarded.resolved => \A p \in Excluded : args[p] = guarded.given[p]
       /\ Cardinality(Collected) > 1 => \A p \in Collected : guarded.given[p] = "clean" => args[p] = "clean"
       /\ Bad(args) =>
             \A i \in GuardsOf("pre") :
                LET guard == guarded.guards[i] IN
                \/ guard.check # "rule" \/ guard.action = "log"
                \/ guard.action = "text" /\ Cardinality(Collected) > 1

\* So with the value that is returned, unless it was wrapped (_run_post).
NothingBadReturns ==
    returned.at = "leaving" /\ returned.layer = 0 /\ returned.data = "bad" =>
       \A i \in GuardsOf("post") :
          LET guard == guarded.guards[i] IN
          guard.action # "log" => guard.check # "rule" /\ (guard.check = "pair" => ~Bad(Arguments(i)))

\* The askings that are due, and which of two comes first.
Due == {<<i, "pre">> : i \in GuardsOf("pre")} \cup {<<i, "post">> : i \in GuardsOf("post")}
Earlier(a, b) ==
    CASE a[2] = b[2] -> IF a[2] = "pre" THEN a[1] < b[1] ELSE a[1] > b[1]
      [] OTHER -> a[2] = "pre"
Asked == {asked[k] : k \in DOMAIN asked}

\* Guardrails are asked once at each of their stages, outer ones first about the
\* arguments and last about the value, none of them before an earlier one nor
\* after one that blocks, and about no value that an adapter wraps; then each of
\* them wraps it (_wrapped, _dispatch_return).
AskedInOrder ==
    /\ \A k, l \in DOMAIN asked : k < l => Earlier(asked[k], asked[l])
    /\ returned.by = {} => Asked \subseteq Due /\ \A b \in Asked, a \in Due : Earlier(a, b) => a \in Asked
    /\ returned.at = "leaving" /\ returned.layer = 0 =>
          /\ returned.by = {} => Asked = Due
          /\ returned.kind = "adapted" =>
                returned.by = 1 .. Len(guarded.guards) /\ \A a \in Asked : a[2] = "pre"

\* Over a whole call, a guardrail with one more rule fails only if it fails
\* without it, whichever of the two decides before the call and which after it;
\* one of rules about fields fails exactly if all of them are violated by the
\* whole data; and none fails over a value that one of its rules lets pass
\* (_has_output_dependent_rule, _evaluate_deterministic_guardrail).
RulesOnlyExcuse ==
    ruled.phase = "post" \/ (ruled.phase = "pre" /\ ruled.failed) =>
       LET outputs == IF ruled.phase = "post" THEN {ruled.output} ELSE DataOf(OutFields)
           fails(rules, output) == FailsPre(rules, ruled.input) \/ FailsPost(rules, ruled.input, output)
       IN  \A output \in outputs :
             /\ ~ruled.failed /\ ruled.rules # <<>> =>
                   \A more \in Rules : ~fails(Append(ruled.rules, more), output)
             /\ ruled.rules # <<>> /\ (\A i \in DOMAIN ruled.rules : ruled.rules[i].type # "always") =>
                   (ruled.failed <=> AllViolated(ruled.rules, ruled.input, output))
             /\ ruled.failed => \A i \in DOMAIN ruled.rules : ruled.rules[i].type # "always" =>
                   ~\E v \in ValuesOf(ruled.rules[i], ruled.input, output) : v.type = ruled.rules[i].type /\ ~v.bad

\* Not so in the code: an action leaves a value what it was, a plain one, a dict
\* or a model ...
TypeKept ==
    [][returned.at = "checking" /\ returned'.at = "leaving" => returned'.kind = returned.kind]_vars
\* ... and a rule that finds no value of its type passes.
SkippedIsPassed ==
    ruled.phase = "post" /\ ruled.failed =>
       \A i \in DOMAIN ruled.rules : ruled.rules[i].type # "always" =>
          \E v \in ValuesOf(ruled.rules[i], ruled.input, ruled.output) : v.type = ruled.rules[i].type

===============================================================================
