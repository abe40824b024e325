------------------------------ MODULE SpanTree ------------------------------
(***************************************************************************)
(* What the SDK promises the platform about the spans it publishes,        *)
(* whichever way they were opened (a Tracer block or a LangChain hook): a  *)
(* span starts once, under no parent or under one that the platform has    *)
(* already been told of, and it ends at most once, after its start.        *)
(***************************************************************************)
EXTENDS Naturals

CONSTANT MaxSpans

VARIABLE tree   \* span -> [state, parent]; parent 0 is none

SpanIds == 1 .. MaxSpans

TreeInit == tree = [s \in SpanIds |-> [state |-> "absent", parent |-> 0]]

Known(p) == p = 0 \/ (p \in SpanIds /\ tree[p].state # "absent")

\* span.start: the parent must have started before.
StartSpan(s, p) ==
    /\ tree[s].state = "absent"
    /\ Known(p)
    /\ tree' = [tree EXCEPT ![s] = [state |-> "open", parent |-> p]]

\* span.end: once, and of a span that is open.
EndSpan(s) ==
    /\ tree[s].state = "open"
    /\ tree' = [tree EXCEPT ![s].state = "ended"]

TreeNext ==
    \E s \in SpanIds : EndSpan(s) \/ \E p \in 0 .. MaxSpans : StartSpan(s, p)

TreeSpec == TreeInit /\ [][TreeNext]_tree
=============================================================================
