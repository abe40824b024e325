------------------------------- MODULE TraceView -------------------------------
(***************************************************************************)
(* The call tree of a trace as GET /v1/traces/{id} answers it              *)
(* (api/serializers.py, api/routers/traces.py). Of a span that is in the   *)
(* table: the parent it names, which may have been dropped, trimmed or not *)
(* yet stored, and when it started. The rows of spans that started at one  *)
(* moment have their ids in the order of the span ids.                     *)
(***************************************************************************)
EXTENDS Integers, FiniteSets, Sequences

CONSTANTS
    Top,      \* no parent: the spans at the top
    Unset     \* no started_at: only the end of the span has come

\* The sort key of siblings; the rows come in the same order.
Sooner(spans, a, b) ==
    LET s == spans[a].started
        t == spans[b].started
    IN  IF s = t THEN a < b ELSE t = Unset \/ (s # Unset /\ s < t)

\* Mutant of ParentOf: the name of the parent is taken as it is.
ParentAsNamed(spans, a) == spans[a].parent

\* A parent that is not among the spans is none.
ParentOf(spans, a) == IF spans[a].parent \in DOMAIN spans THEN spans[a].parent ELSE Top

\* Some spans in that order: the n-th has n - 1 before it.
InTime(spans, S) ==
    [n \in 1 .. Cardinality(S) |->
        CHOOSE a \in S : Cardinality({b \in S : Sooner(spans, b, a)}) = n - 1]

AtDepth(depth, ordered) == [i \in DOMAIN ordered |-> [span |-> ordered[i], depth |-> depth]]

ChildrenOf(spans, p) == InTime(spans, {a \in DOMAIN spans : ParentOf(spans, a) = p})

\* order_spans: depth first from the top, then what a circle of parents keeps from it. The
\* n-th call of walk puts the children of the n-th span right behind it.
OrderSpans(spans) ==
    LET walk[n \in 0 .. Cardinality(DOMAIN spans)] ==
          IF n = 0 THEN AtDepth(0, ChildrenOf(spans, Top))
          ELSE LET w == walk[n - 1]
               IN  IF n > Len(w) THEN w
                   ELSE SubSeq(w, 1, n) \o AtDepth(w[n].depth + 1, ChildrenOf(spans, w[n].span))
                        \o SubSeq(w, n + 1, Len(w))
        tree == walk[Cardinality(DOMAIN spans)]
    IN  tree \o AtDepth(0, InTime(spans, DOMAIN spans \ {tree[i].span : i \in DOMAIN tree}))
==============================================================================
