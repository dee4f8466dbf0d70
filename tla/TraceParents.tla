----------------------------- MODULE TraceParents -----------------------------
(***************************************************************************)
(* Functions and generators decorated with traced start a span when they   *)
(* are called and end it when they are over (uipath/core/tracing/          *)
(* decorators.py).  Its parent is OpenTelemetry's current span or that of  *)
(* another framework, whichever is deeper by what a registry has seen of   *)
(* them (span_utils.py).  A generator that waits between two items leaves  *)
(* its span current to its caller: context variables are of the thread or  *)
(* the task, not of the generator.                                         *)
(*                                                                         *)
(* One thread or task.  The synchronous, asynchronous and generating       *)
(* wrappers do the same around the call.  OpenTelemetry is external: its   *)
(* sampler follows the parent, and a span it does not sample has no record *)
(* of its parent.  So is the other framework, whose spans follow each      *)
(* other or OpenTelemetry's current one.                                   *)
(*                                                                         *)
(* A definition marked `variant' is a plausible mistake in the one below   *)
(* it; no action uses it.                                                  *)
(***************************************************************************)
EXTENDS Naturals, FiniteSets, SequencesExt

CONSTANTS
    MaxSpans,  \* bound: of spans started
    MaxOpen    \* bound: of frames at a time

TraceAssumption == MaxSpans \in Nat /\ MaxOpen \in Nat

\* Spans are numbered as they start.  No span is 0, as is the parent of a span
\* that is not recorded and has none; a span without a record of a parent has
\* Untold.
Untold == MaxSpans + 1
Spans == 1 .. MaxSpans

VARIABLES
    span,      \* the spans, by number
    registry,  \* the parents the registry knows
    current,   \* OpenTelemetry's current span
    external,  \* the open spans of the other framework, innermost last
    frames,    \* the functions and generators that run, innermost last
    waiting,   \* generators between two items
    astray,    \* history: one was over before another begun after it
    last       \* history: what the span started last had to choose from

vars == <<span, registry, current, external, frames, waiting, astray, last>>

NoChoice == [offered |-> 0, theirs |-> {}]

Init ==
    /\ span = <<>> /\ registry = <<>> /\ current = 0 /\ external = <<>>
    /\ frames = <<>> /\ waiting = {} /\ astray = FALSE /\ last = NoChoice

-------------------------------------------------------------------------------
(***************************************************************************)
(* The parent of a new span.                                               *)
(***************************************************************************)
\* variant: the other framework's only
TheirsOnly(c, e) == Range(external)
\* What the registry learns when both the current and the other framework's
\* span are there: these two and the ancestors of the latter.
Seen(c, e) == {c, e} \cup Range(external)

Registered(c, e) ==
    [s \in DOMAIN registry \cup Seen(c, e) |-> IF s \in Seen(c, e) THEN span[s].carried ELSE registry[s]]

\* A span and all above it, by a registry; 0 counts as one.
Line(reg, s) ==
    LET line[x \in 0 .. Len(span)] ==
           IF x \notin DOMAIN reg \/ reg[x] = Untold THEN {x} ELSE {x} \cup line[reg[x]]
    IN  line[s]

\* is_ancestor and calculate_depth
IsAncestor(reg, a, s) == a \in Line(reg, s)
Depth(reg, s) == Cardinality(Line(reg, s)) - 1

\* _get_bottom_most_span
BottomMost(reg, c, e) ==
    IF IsAncestor(reg, e, c) THEN c
    ELSE IF IsAncestor(reg, c, e) THEN e
    ELSE IF Depth(reg, c) > Depth(reg, e) THEN c ELSE e

\* get_parent_context
Parent(c, e) ==
    IF c = 0 THEN e ELSE IF e = 0 THEN c ELSE BottomMost(Registered(c, e), c, e)
AfterChoice(c, e) == IF c = 0 \/ e = 0 THEN registry ELSE Registered(c, e)

-------------------------------------------------------------------------------
(***************************************************************************)
(* Spans start.                                                            *)
(***************************************************************************)
Sampled(p) == p = 0 \/ span[p].sampled

\* `under' is the parent, `carried' what the span tells of it; `beside' the span
\* that was current, and `asked' whether there was a choice.
Recorded(p, asked) ==
    [under |-> p, sampled |-> Sampled(p), silent |-> FALSE, beside |-> current, asked |-> asked,
     carried |-> IF Sampled(p) /\ p # 0 THEN p ELSE Untold]
Silent(p, asked) ==
    [under |-> p, sampled |-> FALSE, silent |-> TRUE, beside |-> current, asked |-> asked, carried |-> p]

New == Len(span) + 1
Room == New <= MaxSpans /\ Len(frames) + Cardinality(waiting) < MaxOpen

Enter(generates) ==
    /\ frames' = Append(frames, [span |-> New, saved |-> current, generates |-> generates])
    /\ current' = New

\* The other framework's span, or none: its provider may raise.
Offered == IF external = <<>> THEN {0} ELSE {0, Last(external)}

\* A traced function or generator is called; `recording' is the decorator's.
Call ==
    /\ Room
    /\ \E e \in Offered, recording, generates \in BOOLEAN :
       LET p == Parent(current, e)
           asked == current # 0 /\ e # 0
       IN  /\ span' = Append(span, IF recording THEN Recorded(p, asked) ELSE Silent(p, asked))
           /\ registry' = IF recording THEN AfterChoice(current, e)
                          ELSE [s \in DOMAIN AfterChoice(current, e) \cup {New} |->
                                   IF s = New THEN p ELSE AfterChoice(current, e)[s]]
           /\ last' = [offered |-> e, theirs |-> Range(external)]
           /\ Enter(generates)
    /\ UNCHANGED <<external, waiting, astray>>

\* A span is started by OpenTelemetry alone, as the runtimes do.
Plain ==
    /\ Room
    /\ span' = Append(span, Recorded(current, FALSE))
    /\ last' = NoChoice
    /\ Enter(FALSE)
    /\ UNCHANGED <<registry, external, waiting, astray>>

\* The other framework starts a span and ends its innermost.
Begin ==
    /\ New <= MaxSpans
    /\ \E p \in {current} \cup IF external = <<>> THEN {} ELSE {Last(external)} :
          span' = Append(span, Recorded(p, FALSE))
    /\ external' = Append(external, New) /\ last' = NoChoice
    /\ UNCHANGED <<registry, current, frames, waiting, astray>>
End ==
    /\ external # <<>> /\ external' = Front(external)
    /\ UNCHANGED <<span, registry, current, frames, waiting, astray, last>>

-------------------------------------------------------------------------------
(***************************************************************************)
(* Frames wait and are over.                                               *)
(***************************************************************************)
Live == Range(frames) \cup waiting
Youngest(f) == \A g \in Live : g.span <= f.span

\* The context is what it was when the frame began, whatever it is now.
Over(f) ==
    /\ current' = f.saved
    /\ astray' = (astray \/ ~Youngest(f))

Return ==
    /\ frames # <<>> /\ Over(Last(frames)) /\ frames' = Front(frames)
    /\ UNCHANGED <<span, registry, external, waiting, last>>

\* A generator yields an item, is asked for another, or is given up.
Yield ==
    /\ frames # <<>> /\ Last(frames).generates
    /\ frames' = Front(frames) /\ waiting' = waiting \cup {Last(frames)}
    /\ UNCHANGED <<span, registry, current, external, astray, last>>
Resume ==
    /\ \E g \in waiting : frames' = Append(frames, g) /\ waiting' = waiting \ {g}
    /\ UNCHANGED <<span, registry, current, external, astray, last>>
Close ==
    /\ \E g \in waiting : Over(g) /\ waiting' = waiting \ {g}
    /\ UNCHANGED <<span, registry, external, frames, last>>

Next ==
    \/ Call \/ Plain \/ Begin \/ End
    \/ Return \/ Yield \/ Resume \/ Close

Spec == Init /\ [][Next]_vars

-------------------------------------------------------------------------------
\* As long as what began last is over first, the current span is that of the
\* frame begun last, and none once all are over (use_span in the wrappers).
YoungestIsCurrent ==
    ~astray => IF Live = {} THEN current = 0
               ELSE \A f \in Live : Youngest(f) => current = f.span

\* The line as it is; a span above another, and those between the two.
Truth == [x \in DOMAIN span |-> span[x].under]
Above(low, high) == low # high /\ IsAncestor(Truth, high, low)
Between(low, high) == Line(Truth, low) \ (Line(Truth, high) \cup {low})

\* Of two spans on one line the lower one is the parent, if all between them
\* tell of their parents and each is the other framework's or was seen when the
\* one below it started (_get_bottom_most_span).
DeeperIsParent ==
    last.offered # 0 /\ span[Len(span)].asked =>
       LET new == span[Len(span)] IN
       \A low, high \in {new.beside, last.offered} :
          LET line == {low} \cup Between(low, high)
              told == \A x \in line : span[x].carried = span[x].under
              seen == \A x \in line \ {low} :
                         \/ x \in last.theirs \/ span[x].silent
                         \/ \E y \in line : span[y].beside = x /\ span[y].asked
          IN  Above(low, high) /\ told /\ seen => new.under = low

\* What a function that is not recorded calls is not recorded either, if the
\* other framework offers nothing and all are over in order; and whatever it
\* offers, what is called beside such a span does not go to the parent of that
\* (traced with recording=False).
SilenceHolds ==
    /\ ~astray => \A n, m \in 1 .. Len(frames) :
          span[frames[n].span].silent /\ n < m /\ frames[n].span < frames[m].span
             => ~span[frames[m].span].sampled \/ \E y \in frames[n].span + 1 .. frames[m].span : span[y].asked
    /\ \A x \in 1 .. Len(span) :
          span[x].asked /\ span[span[x].beside].silent /\ span[x].sampled
             => span[x].under # span[span[x].beside].under

\* Not so in the code: no call beneath a function that is not recorded is ...
AllSilent ==
    \A n, m \in 1 .. Len(frames) :
       span[frames[n].span].silent /\ n < m /\ frames[n].span < frames[m].span
          => ~span[frames[m].span].sampled

\* ... the context is given back ...
GivenBack == Live = {} => current = 0

\* ... and the deeper of two spans on one line is the parent.
AlwaysDeeper ==
    last.offered # 0 /\ span[Len(span)].asked =>
       LET new == span[Len(span)] IN
       \A low, high \in {new.beside, last.offered} : Above(low, high) => new.under = low

===============================================================================
