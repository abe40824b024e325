------------------------- MODULE StorageWriter_proofs -------------------------
(***************************************************************************)
(* Theorems about StorageWriter, for every set of replicas, every log of   *)
(* events and every batch size.                                            *)
(***************************************************************************)
EXTENDS StorageWriter, WellFoundedInduction, TLAPS

-----------------------------------------------------------------------------
(* Least and greatest elements                                             *)

\* A set of naturals that is not empty has a least element.
LEMMA LeastElement ==
  ASSUME NEW S \in SUBSET Nat, S # {}
  PROVE  \E x \in S : \A y \in S : x <= y
<1> DEFINE R == {p \in Nat \X Nat : p[1] < p[2]}
<1>1. IsWellFoundedOn(R, Nat)
  BY NatLessThanWellFounded DEF OpToRel
<1>2. \A x, y \in S : y < x => <<y, x>> \in R
  OBVIOUS
<1>3. PICK x \in S : \A y \in S : <<y, x>> \notin R
  <2> HIDE DEF R
  <2> QED
    BY <1>1, WFMin
<1>4. \A y \in S : ~(y < x)
  BY <1>2, <1>3
<1>5. \A y \in S : x <= y
  <2> HIDE DEF R
  <2> QED
    BY <1>4
<1> QED
  BY <1>5

\* A set of naturals that is not empty and has a bound has a greatest element,
\* and LastOf is that element.
LEMMA LastOfIsGreatest ==
  ASSUME NEW S \in SUBSET Nat, S # {}, NEW n \in Nat, \A x \in S : x <= n
  PROVE  LastOf(S) \in S /\ \A x \in S : x <= LastOf(S)
<1> DEFINE T == {k \in Nat : \A x \in S : x <= k}
<1>1. PICK k \in T : \A j \in T : k <= j
  <2>1. n \in T /\ T \in SUBSET Nat
    OBVIOUS
  <2> QED
    BY <2>1, LeastElement
<1>2. k \in S
  <2> SUFFICES ASSUME k \notin S PROVE FALSE
    OBVIOUS
  <2>1. PICK x \in S : TRUE
    OBVIOUS
  <2>2. k \in Nat /\ \A y \in S : y \in Nat /\ y <= k /\ y # k
    OBVIOUS
  <2>3. k - 1 \in Nat /\ \A y \in S : y <= k - 1
    BY <2>1, <2>2
  <2>4. k - 1 \in T
    BY <2>3
  <2> QED
    BY <2>2, <2>4, <1>1
<1>3. \E e \in S : \A f \in S : f <= e
  BY <1>2
<1> QED
  BY <1>3 DEF LastOf

\* A bound of the first k - 1 values of a function gives one of the first k.
LEMMA BoundOneMore ==
  ASSUME NEW n \in Nat, NEW f \in [1..n -> Nat], NEW k \in 1..n,
         NEW b \in Nat, \A e \in 1..(k - 1) : f[e] <= b
  PROVE  \E c \in Nat : \A e \in 1..k : f[e] <= c
<1>1. f[k] \in Nat /\ b + f[k] \in Nat
  OBVIOUS
<1>2. ASSUME NEW e \in 1..k
      PROVE  f[e] <= b + f[k]
  <2>1. CASE e = k
    BY <1>1, <2>1
  <2>2. CASE e # k
    <3>1. e \in 1..(k - 1) /\ e \in 1..n
      BY <2>2
    <3>2. f[e] <= b /\ f[e] \in Nat
      BY <3>1
    <3> QED
      BY <1>1, <3>2
  <2> QED
    BY <2>1, <2>2
<1> QED
  BY <1>1, <1>2

\* The naturals a function gives to 1..n have a bound.
LEMMA ImageIsBounded ==
  ASSUME NEW n \in Nat, NEW f \in [1..n -> Nat]
  PROVE  \E b \in Nat : \A e \in 1..n : f[e] <= b
<1> DEFINE Bounded(k) == \E b \in Nat : \A e \in 1..k : f[e] <= b
           Bad == {k \in 0..n : ~Bounded(k)}
<1>1. Bad = {}
  <2> SUFFICES ASSUME Bad # {} PROVE FALSE
    OBVIOUS
  <2>1. PICK k \in Bad : \A j \in Bad : k <= j
    <3>1. Bad \in SUBSET Nat
      OBVIOUS
    <3> HIDE DEF Bad
    <3> QED
      BY <3>1, LeastElement
  <2>2. k # 0
    <3>1. Bounded(0)
      <4>1. 0 \in Nat /\ \A e \in 1..0 : f[e] <= 0
        OBVIOUS
      <4> QED
        BY <4>1
    <3> QED
      BY <3>1
  <2>3. k - 1 \in 0..n /\ k \in 1..n /\ ~(k <= k - 1)
    BY <2>2
  <2>4. PICK b \in Nat : \A e \in 1..(k - 1) : f[e] <= b
    <3>1. k - 1 \notin Bad
      BY <2>1, <2>3
    <3>2. Bounded(k - 1)
      BY <2>3, <3>1
    <3> QED
      BY <3>2
  <2>5. Bounded(k)
    BY <2>3, <2>4, BoundOneMore
  <2> HIDE DEF Bounded
  <2> QED
    BY <2>5
<1>2. Bounded(n)
  <2>1. n \in 0..n
    OBVIOUS
  <2> HIDE DEF Bounded
  <2> QED
    BY <1>1, <2>1
<1> QED
  BY <1>2

-----------------------------------------------------------------------------
(* The log, and what _merge_trace makes of it                              *)

\* The fields of an event.
LEMMA EventFacts ==
  /\ Len(Log) \in Nat
  /\ Ids \in SUBSET Nat
  /\ None \notin Ids
  /\ \A e \in Ids : /\ Log[e].type \in Types
                    /\ Log[e].trace \in Traces
                    /\ Log[e].status \in Statuses
                    /\ Log[e].started \in Nat
                    /\ Log[e].ended \in Nat
                    /\ Log[e].span # None => Log[e].span \in Spans
<1>1. /\ Len(Log) \in Nat
      /\ \A e \in 1..Len(Log) : Log[e] \in Events
  BY LogAssumption
<1> QED
  BY <1>1, LogAssumption DEF Ids, Events

\* Of a set of events that is not empty, the last one is one of them.
LEMMA LastOfEvents ==
  ASSUME NEW S \in SUBSET Ids, S # {}
  PROVE  LastOf(S) \in S
<1>1. S \in SUBSET Nat /\ Len(Log) \in Nat /\ \A x \in S : x <= Len(Log)
  BY EventFacts DEF Ids
<1> QED
  BY <1>1, LastOfIsGreatest

\* Of a set of naturals that is not empty, the first one is one of them.
LEMMA FirstOfNaturals ==
  ASSUME NEW S \in SUBSET Nat, S # {}
  PROVE  FirstOf(S) \in S
BY LeastElement DEF FirstOf

\* The worst of some statuses is one of them, and no other is worse.
LEMMA WorstIsGreatest ==
  ASSUME NEW S \in SUBSET Statuses, S # {}
  PROVE  Worst(S) \in S /\ \A x \in S : Rank[x] <= Rank[Worst(S)]
<1>1. \E x \in S : \A y \in S : Rank[y] <= Rank[x]
  BY DEF Statuses, Rank
<1> QED
  BY <1>1 DEF Worst

\* The earliest of some times: 0 when there is none.
LEMMA EarliestTime ==
  ASSUME NEW S \in SUBSET Nat
  PROVE  /\ Earliest(S) = 0 \/ Earliest(S) \in S
         /\ Earliest(S) \in Nat
         /\ \A x \in S : x # 0 => Earliest(S) # 0 /\ Earliest(S) <= x
<1>1. S \ {0} \in SUBSET Nat
  OBVIOUS
<1>2. S \ {0} # {} =>
        FirstOf(S \ {0}) \in S \ {0} /\ \A x \in S \ {0} : FirstOf(S \ {0}) <= x
  BY <1>1, LeastElement DEF FirstOf
<1> QED
  BY <1>1, <1>2 DEF Earliest

\* The latest of some events' times and of another.
LEMMA LatestTime ==
  ASSUME NEW b \in SUBSET Ids, NEW ended \in Nat
  PROVE  LET S == {ended} \cup {Log[e].ended : e \in b}
         IN  Latest(S) \in S /\ Latest(S) \in Nat /\ \A x \in S : x <= Latest(S)
<1> DEFINE S == {ended} \cup {Log[e].ended : e \in b}
<1>1. PICK m \in Nat : \A e \in Ids : Log[e].ended <= m
  <2> DEFINE f == [e \in 1..Len(Log) |-> Log[e].ended]
  <2>1. Len(Log) \in Nat /\ f \in [1..Len(Log) -> Nat]
    BY EventFacts DEF Ids
  <2>2. \E m \in Nat : \A e \in 1..Len(Log) : f[e] <= m
    <3> HIDE DEF f
    <3> QED
      BY <2>1, ImageIsBounded
  <2> QED
    BY <2>2 DEF Ids
<1>2. S \in SUBSET Nat /\ S # {}
  BY EventFacts
<1>3. \E n \in Nat : \A x \in S : x <= n
  <2>1. m + ended \in Nat /\ \A x \in S : x <= m + ended
    BY <1>1, EventFacts
  <2> QED
    BY <2>1
<1>4. LastOf(S) \in S /\ \A x \in S : x <= LastOf(S)
  <2> HIDE DEF S
  <2> QED
    BY <1>2, <1>3, LastOfIsGreatest
<1> HIDE DEF S
<1>5. Latest(S) \in S /\ Latest(S) \in Nat /\ \A x \in S : x <= Latest(S)
  BY <1>2, <1>4 DEF Latest
<1> QED
  BY <1>5 DEF S

\* The times a merge computes are times.
LEMMA MergedTimes ==
  ASSUME NEW b \in SUBSET Ids, NEW started \in Nat, NEW ended \in Nat
  PROVE  /\ Earliest({started} \cup {Log[e].started : e \in b}) \in Nat
         /\ Latest({ended} \cup {Log[e].ended : e \in b}) \in Nat
<1>1. {started} \cup {Log[e].started : e \in b} \in SUBSET Nat
  BY EventFacts
<1> QED
  BY <1>1, EarliestTime, LatestTime

\* Folding events into a row gives a row, and leaves the rollups alone.
LEMMA MergeIsRow ==
  ASSUME NEW t \in Traces, NEW b \in SUBSET Ids, NEW current \in Row
  PROVE  Merge(t, b, current) \in Row
<1>1. MergedStatus(b, current) \in Statuses
  <2> DEFINE S == {current.status}
                    \cup {Log[e].status : e \in {f \in b : Log[f].type = "trace.end"}}
                    \cup {Log[e].status : e \in {f \in b : Log[f].status = "error"}}
  <2>1. S \in SUBSET Statuses /\ S # {}
    BY EventFacts DEF Row
  <2>2. Worst(S) \in Statuses
    <3> HIDE DEF S
    <3> QED
      BY <2>1, WorstIsGreatest
  <2> QED
    BY <2>2 DEF MergedStatus, Statuses
<1>2. MergedInput(b, current) \in Ids \cup {None}
  <2> DEFINE carrying == {e \in b : Log[e].input}
             envelope == {e \in carrying : Log[e].span = None}
  <2>1. carrying \in SUBSET Ids /\ envelope \in SUBSET Ids
    OBVIOUS
  <2>2. envelope # {} => LastOf(envelope) \in Ids
    <3> HIDE DEF envelope
    <3> QED
      BY <2>1, LastOfEvents
  <2>3. carrying # {} => FirstOf(carrying) \in Ids
    <3> HIDE DEF carrying
    <3> QED
      BY <2>1, FirstOfNaturals, EventFacts
  <2> QED
    BY <2>2, <2>3 DEF MergedInput, Row
<1>3. MergedEval(t, b, current) \in {"not_sampled", "pending"}
  BY DEF MergedEval, Row
<1>4. /\ Earliest({current.started} \cup {Log[e].started : e \in b}) \in Nat
      /\ Latest({current.ended} \cup {Log[e].ended : e \in b}) \in Nat
  BY MergedTimes DEF Row
<1> QED
  BY <1>1, <1>2, <1>3, <1>4 DEF Merge, Row

-----------------------------------------------------------------------------
(* Type correctness                                                        *)

\* The UPDATE of the rollups changes nothing else in the row.
LEMMA RollupReplaced ==
  ASSUME NEW r \in Row, NEW x \in SUBSET Ids
  PROVE  /\ [r EXCEPT !.rollup = x] \in Row
         /\ [r EXCEPT !.rollup = x].rollup = x
BY DEF Row

\* There is no row, no span and no transaction to begin with.
LEMMA InitTypeOK == Init => TypeOK
BY DEF Init, TypeOK, NoSpans, NoRows, NoAgg, NewRow, Row, Statuses, Places

\* A statement writes only what its kind of row may hold.
LEMMA StepTypeOK ==
  ASSUME TypeOK, NEW w \in Writers, Statement(w)
  PROVE  TypeOK'
<1> USE DEF TypeOK, Goto, Places
<1>1. CASE Begin(w)
  BY <1>1 DEF Begin
<1>2. CASE InsertStarts(w)
  <2>1. \A s \in StartsIn(batch[w]) :
          StartRow(batch[w], s) \in Ids \cup {None}
    <3>1. \A s \in StartsIn(batch[w]) :
            /\ OfSpan(batch[w], s, "span.start") \in SUBSET Ids
            /\ OfSpan(batch[w], s, "span.start") # {}
      BY DEF StartsIn, OfSpan
    <3> QED
      BY <3>1, LastOfEvents DEF StartRow
  <2> QED
    BY <1>2, <2>1 DEF InsertStarts
<1>3. CASE UpsertEnds(w)
  <2>1. \A s \in EndsIn(batch[w]) : EndRow(batch[w], s) \in Ids \cup {None}
    <3>1. \A s \in EndsIn(batch[w]) :
            /\ OfSpan(batch[w], s, "span.end") \in SUBSET Ids
            /\ OfSpan(batch[w], s, "span.end") # {}
      BY DEF EndsIn, OfSpan
    <3> QED
      BY <3>1, LastOfEvents DEF EndRow
  <2> QED
    BY <1>3, <2>1 DEF UpsertEnds
<1>4. CASE ReadTraces(w)
  BY <1>4 DEF ReadTraces
<1>5. CASE UpsertTraces(w)
  <2>1. \A t \in Traces :
          [Merge(t, OfTrace(batch[w], t), seen[w][t]) EXCEPT
             !.rollup = rows[t].rollup] \in Row
    <3>1. \A t \in Traces :
            /\ OfTrace(batch[w], t) \in SUBSET Ids
            /\ seen[w][t] \in Row
            /\ rows[t].rollup \in SUBSET Ids
      BY DEF OfTrace, Row
    <3>2. \A t \in Traces : Merge(t, OfTrace(batch[w], t), seen[w][t]) \in Row
      BY <3>1, MergeIsRow
    <3> QED
      BY <3>1, <3>2 DEF Row
  <2>2. NewRow \in Row
    BY DEF NewRow, Row, Statuses
  <2>3. merged' \in [Writers -> [Traces -> Row]]
    BY <1>5, <2>1, <2>2 DEF UpsertTraces
  <2>4. raced' \subseteq Traces
    BY <1>5, EventFacts DEF UpsertTraces, TracesOf
  <2> QED
    BY <1>5, <2>3, <2>4 DEF UpsertTraces
<1>6. CASE Aggregate(w)
  <2>1. \A t \in Traces : Rollup(w, t) \in SUBSET Ids
    BY DEF Rollup, RowsOf, Visible, SpansOf
  <2> QED
    BY <1>6, <2>1 DEF Aggregate
<1>7. CASE Commit(w)
  <2>1. /\ NoSpans \in [Spans -> Ids \cup {None}]
        /\ NoRows \in [Traces -> Row]
        /\ NoAgg \in [Traces -> SUBSET Ids]
    BY DEF NoSpans, NoRows, NoAgg, NewRow, Row, Statuses
  <2>2. /\ spans' \in [Spans -> Ids \cup {None}]
        /\ applied' \subseteq Ids
    BY <1>7 DEF Commit, Visible
  <2>3. \A t \in Traces :
          [merged[w][t] EXCEPT !.rollup = agg[w][t]] \in Row
    <3>1. \A t \in Traces : merged[w][t] \in Row /\ agg[w][t] \in SUBSET Ids
      OBVIOUS
    <3> QED
      BY <3>1, RollupReplaced
  <2>4. rows' \in [Traces -> Row]
    BY <1>7, <2>3 DEF Commit
  <2> QED
    BY <1>7, <2>1, <2>2, <2>4 DEF Commit, Forget
<1>8. CASE Abort(w)
  <2>1. /\ NoSpans \in [Spans -> Ids \cup {None}]
        /\ NoRows \in [Traces -> Row]
        /\ NoAgg \in [Traces -> SUBSET Ids]
    BY DEF NoSpans, NoRows, NoAgg, NewRow, Row, Statuses
  <2> QED
    BY <1>8, <2>1 DEF Abort, Forget
<1> QED
  BY <1>1, <1>2, <1>3, <1>4, <1>5, <1>6, <1>7, <1>8 DEF Statement

\* Whatever the log, the tables and the transactions keep their types.
THEOREM TypeCorrect == Spec => []TypeOK
<1>1. TypeOK /\ [Next]_vars => TypeOK'
  <2> SUFFICES ASSUME TypeOK, [Next]_vars PROVE TypeOK'
    OBVIOUS
  <2>1. CASE Next
    BY <2>1, StepTypeOK DEF Next
  <2>2. CASE UNCHANGED vars
    BY <2>2 DEF vars, TypeOK
  <2> QED
    BY <2>1, <2>2
<1> QED
  BY InitTypeOK, <1>1, PTL DEF Spec

-----------------------------------------------------------------------------
(* The row locks                                                           *)

\* A transaction leaves the others' alone.
LEMMA OthersUnchanged ==
  ASSUME TypeOK, NEW w \in Writers, Statement(w), NEW v \in Writers, v # w
  PROVE  /\ pc'[v] = pc[v]
         /\ batch'[v] = batch[v]
         /\ own'[v] = own[v]
         /\ merged'[v] = merged[v]
         /\ agg'[v] = agg[v]
<1> USE DEF TypeOK, Goto, Forget
<1>1. CASE Begin(w) \/ InsertStarts(w) \/ UpsertEnds(w) \/ ReadTraces(w)
  BY <1>1 DEF Begin, InsertStarts, UpsertEnds, ReadTraces
<1>2. CASE UpsertTraces(w) \/ Aggregate(w)
  BY <1>2 DEF UpsertTraces, Aggregate
<1>3. CASE Commit(w) \/ Abort(w)
  BY <1>3 DEF Commit, Abort
<1> QED
  BY <1>1, <1>2, <1>3 DEF Statement

\* A trace row is held by one transaction at a time, a span row is written by
\* one transaction at a time, and what a transaction has written is of the
\* spans of its batch.
TraceLocks ==
  \A v, w \in Writers, t \in Traces : v # w => ~(Holds(v, t) /\ Holds(w, t))

SpanLocks ==
  /\ \A v, w \in Writers, s \in Spans :
       v # w => own[v][s] = None \/ own[w][s] = None
  /\ \A w \in Writers, s \in Spans : own[w][s] # None =>
       /\ pc[w] \notin {"idle", "starts"}
       /\ \E e \in batch[w] : Log[e].span = s

\* No statement lets two transactions hold one trace row.
LEMMA TraceLocksStep ==
  ASSUME TypeOK, TraceLocks, NEW w \in Writers, Statement(w)
  PROVE  TraceLocks'
<1>1. \A v \in Writers \ {w}, t \in Traces : Holds(v, t)' = Holds(v, t)
  BY OthersUnchanged DEF Holds, TracesOf
<1>2. \A t \in Traces : Holds(w, t)' =>
        \A v \in Writers \ {w} : ~Holds(v, t)
  <2>1. CASE UpsertTraces(w)
    <3>1. \A v \in Writers \ {w}, t \in TracesOf(batch[w]) : ~Holds(v, t)
      BY <2>1 DEF UpsertTraces
    <3>2. batch' = batch
      BY <2>1 DEF UpsertTraces
    <3>3. \A t \in Traces : Holds(w, t)' => t \in TracesOf(batch[w])
      BY <3>2 DEF Holds, TracesOf
    <3> QED
      BY <3>1, <3>3
  <2>2. CASE Aggregate(w)
    BY <2>2 DEF Aggregate, Holds, TracesOf, TraceLocks
  <2>3. CASE ~(UpsertTraces(w) \/ Aggregate(w))
    <3>1. pc'[w] \notin {"aggregate", "commit"}
      BY <2>3 DEF Statement, Begin, InsertStarts, UpsertEnds, ReadTraces,
                  Commit, Abort, Forget, Goto, TypeOK
    <3> QED
      BY <3>1 DEF Holds
  <2> QED
    BY <2>1, <2>2, <2>3
<1> QED
  BY <1>1, <1>2 DEF TraceLocks

\* No statement lets two transactions write one span row, and a transaction
\* writes spans of its batch only.
LEMMA SpanLocksStep ==
  ASSUME TypeOK, SpanLocks, NEW w \in Writers, Statement(w)
  PROVE  SpanLocks'
<1>1. ASSUME NEW s \in Spans, own'[w][s] # None
      PROVE  /\ \A v \in Writers \ {w} : own[v][s] = None
             /\ pc'[w] \notin {"idle", "starts"}
             /\ \E e \in batch'[w] : Log[e].span = s
  <2>1. CASE Begin(w) \/ Commit(w) \/ Abort(w)
    <3>1. \/ own'[w][s] = own[w][s] /\ pc[w] = "idle"
         \/ own'[w] = NoSpans
      BY <2>1 DEF Begin, Commit, Abort, Forget, TypeOK
    <3> QED
      BY <1>1, <3>1 DEF SpanLocks, NoSpans
  <2>2. CASE InsertStarts(w)
    <3>1. /\ s \in StartsIn(batch[w])
          /\ pc'[w] = "ends"
          /\ batch'[w] = batch[w]
      BY <1>1, <2>2 DEF InsertStarts, Goto, TypeOK
    <3>2. \E e \in batch[w] : Log[e].span = s
      BY <3>1 DEF StartsIn, OfSpan
    <3>3. \A v \in Writers \ {w} : own[v][s] = None
      BY <2>2, <3>1 DEF InsertStarts, SpansFree
    <3> QED
      BY <3>1, <3>2, <3>3
  <2>3. CASE UpsertEnds(w)
    <3>1. /\ s \in EndsIn(batch[w]) \/ own[w][s] # None
          /\ pc'[w] = "read"
          /\ batch'[w] = batch[w]
      BY <1>1, <2>3 DEF UpsertEnds, Goto, TypeOK
    <3>2. CASE s \in EndsIn(batch[w])
      <4>1. \E e \in batch[w] : Log[e].span = s
        BY <3>2 DEF EndsIn, OfSpan
      <4>2. \A v \in Writers \ {w} : own[v][s] = None
        BY <2>3, <3>2 DEF UpsertEnds, SpansFree
      <4> QED
        BY <3>1, <4>1, <4>2
    <3>3. CASE own[w][s] # None
      BY <3>1, <3>3 DEF SpanLocks
    <3> QED
      BY <3>1, <3>2, <3>3
  <2>4. CASE ReadTraces(w) \/ UpsertTraces(w) \/ Aggregate(w)
    <3>1. /\ own' = own /\ batch' = batch
          /\ pc'[w] \notin {"idle", "starts"}
      BY <2>4 DEF ReadTraces, UpsertTraces, Aggregate, Goto, TypeOK
    <3> QED
      BY <1>1, <3>1 DEF SpanLocks
  <2> QED
    BY <2>1, <2>2, <2>3, <2>4 DEF Statement
<1>2. \A v \in Writers \ {w} :
        own'[v] = own[v] /\ pc'[v] = pc[v] /\ batch'[v] = batch[v]
  BY OthersUnchanged
<1> QED
  BY <1>1, <1>2 DEF SpanLocks

\* A transaction writes no span of a trace it has no event of.
LEMMA ForeignSpans ==
  ASSUME TypeOK, SpanLocks, NEW w \in Writers, NEW t \in Traces,
         t \notin TracesOf(batch[w])
  PROVE  \A s \in SpansOf(t) : own[w][s] = None
<1> SUFFICES ASSUME NEW s \in SpansOf(t), own[w][s] # None PROVE FALSE
  OBVIOUS
<1>1. PICK e \in batch[w] : Log[e].span = s
  BY DEF SpanLocks, SpansOf
<1>2. PICK f \in Ids : Log[f].span = s /\ Log[f].trace = t
  BY DEF SpansOf
<1>3. e \in Ids /\ s # None
  BY EventFacts, LogAssumption DEF TypeOK, SpansOf, Spans
<1>4. Log[e].trace = t
  BY <1>1, <1>2, <1>3, LogAssumption
<1> QED
  BY <1>1, <1>4 DEF TracesOf

-----------------------------------------------------------------------------
(* The rollups                                                             *)

\* The writer that holds a trace row keeps its rollups until it commits, and
\* the aggregate it has taken stays what its transaction sees: nobody commits
\* a span of the trace meanwhile, for that takes the trace row.
Held ==
  \A w \in Writers, t \in Traces : Holds(w, t) =>
    /\ merged[w][t].rollup = rows[t].rollup
    /\ pc[w] = "commit" => agg[w][t] = Rollup(w, t)

\* The rows of a trace depend on its own spans only.
LEMMA RowsOfSame ==
  ASSUME NEW f, NEW g, NEW t, \A s \in SpansOf(t) : f[s] = g[s]
  PROVE  RowsOf(f, t) = RowsOf(g, t)
BY DEF RowsOf

\* A commit changes no row of a trace it has no event of.
LEMMA CommitIsLocal ==
  ASSUME TypeOK, SpanLocks, NEW w \in Writers, Commit(w),
         NEW t \in Traces, t \notin TracesOf(batch[w])
  PROVE  rows'[t] = rows[t] /\ \A s \in SpansOf(t) : spans'[s] = spans[s]
<1>1. \A s \in SpansOf(t) : s \in Spans /\ own[w][s] = None
  BY ForeignSpans DEF SpansOf
<1> QED
  BY <1>1 DEF Commit, Visible

\* What a transaction sees of a trace it holds does not change until it writes
\* or commits.
LEMMA RollupUnchanged ==
  ASSUME NEW w \in Writers, NEW t \in Traces, own'[w] = own[w],
         \A s \in SpansOf(t) : spans'[s] = spans[s]
  PROVE  Rollup(w, t)' = Rollup(w, t)
<1> DEFINE after == [s \in Spans |-> IF own'[w][s] # None THEN own'[w][s]
                                     ELSE spans'[s]]
<1>1. \A s \in SpansOf(t) : after[s] = Visible(w)[s]
  BY DEF Visible, SpansOf
<1>2. RowsOf(after, t) = RowsOf(Visible(w), t)
  <2> HIDE DEF after
  <2> QED
    BY <1>1, RowsOfSame
<1>3. Rollup(w, t)' = RowsOf(after, t)
  BY DEF Rollup, Visible, RowsOf
<1> QED
  BY <1>2, <1>3 DEF Rollup

\* The transaction that commits computed the roll-ups of its traces from what is
\* then in the spans table, and touches no other trace.
LEMMA CommitKeepsRollups ==
  ASSUME TypeOK, TraceLocks, SpanLocks, RollupExact, Held,
         NEW w \in Writers, Commit(w)
  PROVE  RollupExact'
<1> SUFFICES ASSUME NEW t \in Traces
             PROVE  rows'[t].rollup = RowsOf(spans', t)
  BY DEF RollupExact, RowsOf
<1>1. CASE t \notin TracesOf(batch[w])
  <2>1. rows'[t] = rows[t] /\ \A s \in SpansOf(t) : spans'[s] = spans[s]
    BY <1>1, CommitIsLocal
  <2>2. RowsOf(spans', t) = RowsOf(spans, t)
    BY <2>1, RowsOfSame
  <2> QED
    BY <2>1, <2>2 DEF RollupExact
<1>2. CASE t \in TracesOf(batch[w])
  <2>1. /\ spans' = Visible(w)
        /\ rows'[t] = IF agg[w][t] = {} THEN merged[w][t]
                      ELSE [merged[w][t] EXCEPT !.rollup = agg[w][t]]
    BY <1>2 DEF Commit
  <2>2. /\ agg[w][t] = RowsOf(spans', t)
        /\ merged[w][t].rollup = RowsOf(spans, t)
    BY <1>2, <2>1 DEF Commit, Held, RollupExact, Holds, Rollup
  <2>3. CASE agg[w][t] = {}
    <3>1. \A s \in SpansOf(t) : s \in Spans /\ spans'[s] = None
      BY <2>2, <2>3 DEF RowsOf, SpansOf
    <3>2. \A s \in SpansOf(t) : spans[s] = None
      BY <2>1, <3>1 DEF Visible
    <3>3. RowsOf(spans, t) = {}
      BY <3>2 DEF RowsOf
    <3> QED
      BY <2>1, <2>2, <2>3, <3>3
  <2>4. CASE agg[w][t] # {}
    <3>1. merged[w][t] \in Row
      BY DEF TypeOK
    <3>2. rows'[t] = [merged[w][t] EXCEPT !.rollup = agg[w][t]]
      BY <2>1, <2>4
    <3> QED
      BY <2>2, <3>1, <3>2 DEF Row
  <2> QED
    BY <2>3, <2>4
<1> QED
  BY <1>1, <1>2

\* While a transaction holds a trace row, the roll-up it read stays the one in
\* the table, and the one it computed stays the one of the spans.
LEMMA HeldStep ==
  ASSUME TypeOK, TraceLocks, SpanLocks, Held, NEW w \in Writers, Statement(w)
  PROVE  Held'
<1> SUFFICES ASSUME NEW v \in Writers, NEW t \in Traces, Holds(v, t)'
             PROVE  /\ merged'[v][t].rollup = rows'[t].rollup
                    /\ pc'[v] = "commit" => agg'[v][t] = Rollup(v, t)'
  BY DEF Held
<1>1. CASE v # w
  <2>1. /\ pc'[v] = pc[v] /\ batch'[v] = batch[v] /\ own'[v] = own[v]
        /\ merged'[v] = merged[v] /\ agg'[v] = agg[v]
    BY <1>1, OthersUnchanged
  <2>2. Holds(v, t)
    BY <2>1 DEF Holds, TracesOf
  <2>3. rows'[t] = rows[t] /\ \A s \in SpansOf(t) : spans'[s] = spans[s]
    <3>1. CASE Commit(w)
      <4>1. t \notin TracesOf(batch[w])
        BY <1>1, <2>2, <3>1 DEF TraceLocks, Holds, Commit
      <4> QED
        BY <3>1, <4>1, CommitIsLocal
    <3>2. CASE ~Commit(w)
      BY <3>2 DEF Statement, Begin, InsertStarts, UpsertEnds, ReadTraces,
                  UpsertTraces, Aggregate, Abort
    <3> QED
      BY <3>1, <3>2
  <2>4. Rollup(v, t)' = Rollup(v, t)
    BY <2>1, <2>3, RollupUnchanged
  <2> QED
    BY <2>1, <2>2, <2>3, <2>4 DEF Held
<1>2. CASE v = w /\ UpsertTraces(w)
  <2>1. /\ pc'[w] = "aggregate" /\ batch' = batch /\ rows' = rows
    BY <1>2 DEF UpsertTraces, Goto, TypeOK
  <2>2. t \in TracesOf(batch[w])
    BY <1>2, <2>1 DEF Holds, TracesOf
  <2>3. merged'[w][t] = [Merge(t, OfTrace(batch[w], t), seen[w][t]) EXCEPT
                           !.rollup = rows[t].rollup]
    BY <1>2, <2>2 DEF UpsertTraces, TypeOK
  <2>4. merged'[w][t].rollup = rows[t].rollup
    BY <2>3 DEF Merge
  <2> QED
    BY <1>2, <2>1, <2>4
<1>3. CASE v = w /\ Aggregate(w)
  <2>1. /\ pc[w] = "aggregate" /\ batch' = batch
        /\ UNCHANGED <<spans, rows, own, merged>>
    BY <1>3 DEF Aggregate
  <2>2. Holds(w, t) /\ t \in TracesOf(batch[w])
    BY <1>3, <2>1 DEF Holds, TracesOf
  <2>3. agg'[w][t] = Rollup(w, t)
    BY <1>3, <2>2 DEF Aggregate, TypeOK
  <2>4. Rollup(w, t)' = Rollup(w, t)
    BY <2>1, RollupUnchanged
  <2> QED
    BY <1>3, <2>1, <2>2, <2>3, <2>4 DEF Held
<1>4. CASE v = w /\ ~(UpsertTraces(w) \/ Aggregate(w))
  <2>1. pc'[w] \notin {"aggregate", "commit"}
    BY <1>4 DEF Statement, Begin, InsertStarts, UpsertEnds, ReadTraces,
                Commit, Abort, Forget, Goto, TypeOK
  <2> QED
    BY <1>4, <2>1 DEF Holds
<1> QED
  BY <1>1, <1>2, <1>3, <1>4

RollupInv == TypeOK /\ TraceLocks /\ SpanLocks /\ RollupExact /\ Held

\* The invariant under which the roll-ups are exact.
LEMMA RollupInvCorrect == Spec => []RollupInv
<1>1. Init => RollupInv
  <2>1. Init => TraceLocks /\ SpanLocks /\ Held
    BY DEF Init, TraceLocks, SpanLocks, Held, Holds, NoSpans
  <2>2. Init => RollupExact
    BY DEF Init, RollupExact, RowsOf, NoSpans, NoRows, NewRow, SpansOf
  <2> QED
    BY <2>1, <2>2, InitTypeOK DEF RollupInv
<1>2. RollupInv /\ [Next]_vars => RollupInv'
  <2> SUFFICES ASSUME RollupInv, [Next]_vars PROVE RollupInv'
    OBVIOUS
  <2>1. CASE Next
    <3>1. PICK w \in Writers : Statement(w)
      BY <2>1 DEF Next
    <3>2. TypeOK'
      BY <3>1, StepTypeOK DEF RollupInv
    <3>3. TraceLocks' /\ SpanLocks' /\ Held'
      BY <3>1, TraceLocksStep, SpanLocksStep, HeldStep DEF RollupInv
    <3>4. RollupExact'
      <4>1. CASE Commit(w)
        BY <4>1, CommitKeepsRollups DEF RollupInv
      <4>2. CASE ~Commit(w)
        <5>1. UNCHANGED <<spans, rows>>
          BY <3>1, <4>2 DEF Statement, Begin, InsertStarts, UpsertEnds,
                            ReadTraces, UpsertTraces, Aggregate, Abort
        <5> QED
          BY <5>1 DEF RollupInv, RollupExact, RowsOf
      <4> QED
        BY <4>1, <4>2
    <3> QED
      BY <3>2, <3>3, <3>4 DEF RollupInv
  <2>2. CASE UNCHANGED vars
    <3>1. TypeOK' /\ SpanLocks'
      BY <2>2 DEF vars, RollupInv, TypeOK, SpanLocks
    <3>2. TraceLocks'
      BY <2>2 DEF vars, RollupInv, TraceLocks, Holds, TracesOf
    <3>3. RollupExact'
      BY <2>2 DEF vars, RollupInv, RollupExact, RowsOf
    <3>4. \A w \in Writers, t \in Traces : Rollup(w, t)' = Rollup(w, t)
      BY <2>2, RollupUnchanged DEF vars
    <3>5. Held'
      BY <2>2, <3>4 DEF vars, RollupInv, Held, Holds, TracesOf
    <3> QED
      BY <3>1, <3>2, <3>3, <3>5 DEF RollupInv
  <2> QED
    BY <2>1, <2>2
<1> QED
  BY <1>1, <1>2, PTL DEF Spec

\* However many replicas store the halves of a trace, its committed rollups are
\* those of its committed spans (storage_writer.py, rule 3 of the docstring).
THEOREM RollupsAreExact == Spec => []RollupExact
BY RollupInvCorrect, PTL DEF RollupInv

-----------------------------------------------------------------------------
(* The spans                                                               *)

\* A start is written only where there is no row, and nobody else can commit
\* one before this transaction does.
Written ==
  \A w \in Writers, s \in Spans : own[w][s] # None =>
    spans[s] = None \/ Log[own[w][s]].type = "span.end"

\* What the statements done so far have put in the table or found there.
Stored ==
  \A w \in Writers :
    /\ pc[w] \notin {"idle", "starts"} =>
         \A s \in StartsIn(batch[w]) : own[w][s] # None \/ spans[s] # None
    /\ pc[w] \notin {"idle", "starts", "ends"} =>
         \A s \in EndsIn(batch[w]) :
           own[w][s] # None /\ Log[own[w][s]].type = "span.end"

\* A row that is there stays, and what has ended stays ended.
SpansGrow ==
  \A s \in Spans : spans[s] # None =>
    /\ spans'[s] # None
    /\ Log[spans[s]].type = "span.end" => Log[spans'[s]].type = "span.end"

\* No statement takes a span out of the table, or its end back.
LEMMA SpansGrowStep ==
  ASSUME TypeOK, Written, NEW w \in Writers, Statement(w)
  PROVE  SpansGrow
<1>1. CASE Commit(w)
  BY <1>1 DEF Commit, Visible, Written, SpansGrow
<1>2. CASE ~Commit(w)
  <2>1. spans' = spans
    BY <1>2 DEF Statement, Begin, InsertStarts, UpsertEnds, ReadTraces,
                UpsertTraces, Aggregate, Abort
  <2> QED
    BY <2>1 DEF SpansGrow
<1> QED
  BY <1>1, <1>2

\* The rows that two statements write are starts and ends of the spans they
\* are written to.
LEMMA WrittenRows ==
  ASSUME TypeOK, NEW w \in Writers
  PROVE  /\ \A s \in StartsIn(batch[w]) :
              /\ s \in Spans /\ s \notin EndsIn(batch[w])
              /\ spans[s] = None => StartRow(batch[w], s) # None
              /\ StartRow(batch[w], s) # None => spans[s] = None
         /\ \A s \in EndsIn(batch[w]) :
              /\ s \in Spans /\ s \notin StartsIn(batch[w])
              /\ EndRow(batch[w], s) # None
              /\ Log[EndRow(batch[w], s)].type = "span.end"
<1>1. ASSUME NEW s \in StartsIn(batch[w])
      PROVE  LastOf(OfSpan(batch[w], s, "span.start")) \in Ids
  <2>1. /\ OfSpan(batch[w], s, "span.start") \in SUBSET Ids
        /\ OfSpan(batch[w], s, "span.start") # {}
    BY DEF StartsIn, OfSpan, TypeOK
  <2> QED
    BY <2>1, LastOfEvents
<1>2. ASSUME NEW s \in EndsIn(batch[w])
      PROVE  /\ EndRow(batch[w], s) \in Ids
             /\ Log[EndRow(batch[w], s)].type = "span.end"
  <2>1. /\ OfSpan(batch[w], s, "span.end") \in SUBSET Ids
        /\ OfSpan(batch[w], s, "span.end") # {}
    BY DEF EndsIn, OfSpan, TypeOK
  <2>2. EndRow(batch[w], s) \in OfSpan(batch[w], s, "span.end")
    BY <2>1, LastOfEvents DEF EndRow
  <2> QED
    BY <2>1, <2>2 DEF OfSpan
<1> QED
  BY <1>1, <1>2, EventFacts DEF StartRow, StartsIn, EndsIn

\* What a transaction has written over a span there already is an end.
LEMMA WrittenStep ==
  ASSUME TypeOK, SpanLocks, Written, NEW w \in Writers, Statement(w)
  PROVE  Written'
<1> SUFFICES ASSUME NEW v \in Writers, NEW s \in Spans, own'[v][s] # None
             PROVE  spans'[s] = None \/ Log[own'[v][s]].type = "span.end"
  BY DEF Written
<1>1. CASE InsertStarts(w)
  <2>1. spans' = spans
    BY <1>1 DEF InsertStarts
  <2>2. CASE v = w
    <3>1. s \in StartsIn(batch[w]) /\ own'[w][s] = StartRow(batch[w], s)
      BY <1>1, <2>2 DEF InsertStarts, TypeOK
    <3> QED
      BY <2>1, <2>2, <3>1, WrittenRows
  <2>3. CASE v # w
    BY <2>1, <2>3, OthersUnchanged DEF Written
  <2> QED
    BY <2>2, <2>3
<1>2. CASE UpsertEnds(w)
  <2>1. spans' = spans
    BY <1>2 DEF UpsertEnds
  <2>2. CASE v = w
    <3>1. own'[w][s] = IF s \in EndsIn(batch[w]) THEN EndRow(batch[w], s)
                       ELSE own[w][s]
      BY <1>2, <2>2 DEF UpsertEnds, TypeOK
    <3> QED
      BY <2>1, <2>2, <3>1, WrittenRows DEF Written
  <2>3. CASE v # w
    BY <2>1, <2>3, OthersUnchanged DEF Written
  <2> QED
    BY <2>2, <2>3
<1>3. CASE Commit(w)
  <2>1. v # w
    BY <1>3 DEF Commit, Forget, NoSpans, TypeOK
  <2>2. own'[v] = own[v]
    BY <2>1, OthersUnchanged
  <2>3. own[w][s] = None
    BY <2>1, <2>2 DEF SpanLocks
  <2>4. spans'[s] = spans[s]
    BY <1>3, <2>3 DEF Commit, Visible
  <2> QED
    BY <2>2, <2>4 DEF Written
<1>4. CASE ~(InsertStarts(w) \/ UpsertEnds(w) \/ Commit(w))
  <2>1. CASE Abort(w)
    <3>1. spans' = spans /\ own' = [own EXCEPT ![w] = NoSpans]
      BY <2>1 DEF Abort, Forget
    <3>2. own'[v][s] = own[v][s]
      BY <3>1 DEF NoSpans, TypeOK
    <3> QED
      BY <3>1, <3>2 DEF Written
  <2>2. CASE ~Abort(w)
    <3>1. spans' = spans /\ own' = own
      BY <1>4, <2>2 DEF Statement, Begin, ReadTraces, UpsertTraces, Aggregate
    <3> QED
      BY <3>1 DEF Written
  <2> QED
    BY <2>1, <2>2
<1> QED
  BY <1>1, <1>2, <1>3, <1>4

\* A transaction past a span statement has written, or found, the spans of its
\* batch.
LEMMA StoredStep ==
  ASSUME TypeOK, Written, Stored, NEW w \in Writers, Statement(w)
  PROVE  Stored'
<1>1. \A s \in Spans : spans[s] # None => spans'[s] # None
  BY SpansGrowStep DEF SpansGrow
<1>2. ASSUME NEW v \in Writers, v # w
      PROVE  /\ pc'[v] = pc[v] /\ batch'[v] = batch[v] /\ own'[v] = own[v]
  BY <1>2, OthersUnchanged
<1> SUFFICES ASSUME NEW v \in Writers
             PROVE  /\ pc'[v] \notin {"idle", "starts"} =>
                         \A s \in StartsIn(batch'[v]) :
                           own'[v][s] # None \/ spans'[s] # None
                    /\ pc'[v] \notin {"idle", "starts", "ends"} =>
                         \A s \in EndsIn(batch'[v]) :
                           own'[v][s] # None /\ Log[own'[v][s]].type = "span.end"
  BY DEF Stored, StartsIn, EndsIn, OfSpan
<1>3. \A b : StartsIn(b) \subseteq Spans /\ EndsIn(b) \subseteq Spans
  BY DEF StartsIn, EndsIn
<1>4. CASE v # w
  <2>1. /\ pc'[v] = pc[v] /\ batch'[v] = batch[v] /\ own'[v] = own[v]
    BY <1>2, <1>4
  <2>2. /\ pc[v] \notin {"idle", "starts"} =>
             \A s \in StartsIn(batch[v]) : own[v][s] # None \/ spans[s] # None
        /\ pc[v] \notin {"idle", "starts", "ends"} =>
             \A s \in EndsIn(batch[v]) :
               own[v][s] # None /\ Log[own[v][s]].type = "span.end"
    BY DEF Stored
  <2> QED
    BY <1>1, <1>3, <2>1, <2>2
<1>5. CASE v = w /\ InsertStarts(w)
  <2>1. /\ pc'[w] = "ends" /\ batch' = batch /\ spans' = spans
        /\ \A s \in StartsIn(batch[w]) : own'[w][s] = StartRow(batch[w], s)
    BY <1>3, <1>5 DEF InsertStarts, Goto, TypeOK
  <2> QED
    BY <1>5, <2>1, WrittenRows
<1>6. CASE v = w /\ UpsertEnds(w)
  <2>1. /\ pc[w] = "ends" /\ batch' = batch /\ spans' = spans
        /\ \A s \in EndsIn(batch[w]) : own'[w][s] = EndRow(batch[w], s)
        /\ \A s \in StartsIn(batch[w]) : own'[w][s] = own[w][s]
    BY <1>3, <1>6, WrittenRows DEF UpsertEnds, Goto, TypeOK
  <2> QED
    BY <1>6, <2>1, WrittenRows DEF Stored
<1>7. CASE v = w /\ (ReadTraces(w) \/ UpsertTraces(w) \/ Aggregate(w))
  <2>1. /\ batch' = batch /\ spans' = spans /\ own' = own
        /\ pc[w] \notin {"idle", "starts", "ends"}
    BY <1>7 DEF ReadTraces, UpsertTraces, Aggregate
  <2> QED
    BY <1>7, <2>1 DEF Stored
<1>8. CASE v = w /\ (Begin(w) \/ Commit(w) \/ Abort(w))
  <2>1. pc'[w] \in {"idle", "starts"}
    BY <1>8 DEF Begin, Commit, Abort, Forget, Goto, TypeOK
  <2> QED
    BY <1>8, <2>1
<1> QED
  BY <1>4, <1>5, <1>6, <1>7, <1>8 DEF Statement

\* The events of a batch that commits are in the table.
LEMMA CommitCompletes ==
  ASSUME TypeOK, Written, Stored, SpansComplete, NEW w \in Writers, Statement(w)
  PROVE  SpansComplete'
<1> SUFFICES ASSUME NEW e \in applied', Log[e].span # None
             PROVE  /\ spans'[Log[e].span] # None
                    /\ Log[e].type = "span.end" =>
                         Log[spans'[Log[e].span]].type = "span.end"
  BY DEF SpansComplete
<1>1. e \in applied \/ (Commit(w) /\ e \in batch[w])
  BY DEF Statement, Begin, InsertStarts, UpsertEnds, ReadTraces, UpsertTraces,
         Aggregate, Commit, Abort
<1>2. e \in Ids
  BY <1>1 DEF TypeOK
<1>3. /\ Log[e].span \in Spans
      /\ Log[e].type \in {"span.start", "span.end"}
  BY <1>2, EventFacts, LogAssumption DEF Types
<1>4. CASE e \in applied
  BY <1>3, <1>4, SpansGrowStep DEF SpansGrow, SpansComplete
<1>5. CASE Commit(w) /\ e \in batch[w]
  <2>1. /\ spans' = Visible(w)
        /\ pc[w] = "commit"
    BY <1>5 DEF Commit
  <2>2. CASE Log[e].span \in EndsIn(batch[w])
    <3>1. /\ own[w][Log[e].span] # None
          /\ Log[own[w][Log[e].span]].type = "span.end"
      BY <2>1, <2>2 DEF Stored
    <3> QED
      BY <1>3, <2>1, <3>1 DEF Visible
  <2>3. CASE Log[e].span \notin EndsIn(batch[w])
    <3>1. Log[e].type # "span.end"
      BY <1>3, <1>5, <2>3 DEF EndsIn, OfSpan
    <3>2. Log[e].span \in StartsIn(batch[w])
      BY <1>3, <1>5, <2>3, <3>1 DEF StartsIn, OfSpan
    <3>3. own[w][Log[e].span] # None \/ spans[Log[e].span] # None
      BY <2>1, <3>2 DEF Stored
    <3> QED
      BY <1>3, <2>1, <3>1, <3>3 DEF Visible
  <2> QED
    BY <2>2, <2>3
<1> QED
  BY <1>1, <1>4, <1>5

SpanInv == RollupInv /\ Written /\ Stored /\ SpansComplete

\* The invariant under which the spans are complete.
LEMMA SpanInvCorrect == Spec => []SpanInv
<1>1. Init => Written /\ Stored /\ SpansComplete
  BY DEF Init, Written, Stored, SpansComplete, NoSpans
<1>2. RollupInv /\ SpanInv /\ [Next]_vars => (Written /\ Stored /\ SpansComplete)'
  <2> SUFFICES ASSUME SpanInv, [Next]_vars
               PROVE  (Written /\ Stored /\ SpansComplete)'
    OBVIOUS
  <2>1. CASE Next
    <3>1. PICK w \in Writers : Statement(w)
      BY <2>1 DEF Next
    <3> QED
      BY <3>1, WrittenStep, StoredStep, CommitCompletes DEF SpanInv, RollupInv
  <2>2. CASE UNCHANGED vars
    BY <2>2 DEF vars, SpanInv, Written, Stored, SpansComplete, StartsIn, EndsIn,
                OfSpan
  <2> QED
    BY <2>1, <2>2
<1> QED
  BY <1>1, <1>2, RollupInvCorrect, PTL DEF Spec, SpanInv

\* No committed event is lost from the spans table, and the end of a span wins
\* over its start in whatever order they come (rules 1 and 2).
THEOREM SpansAreComplete == Spec => []SpansComplete
BY SpanInvCorrect, PTL DEF SpanInv

\* No step of any replica takes a span back to running.
THEOREM EndsAreFinal == Spec => EndedStaysEnded
<1> DEFINE Stays == \A s \in Spans :
             spans[s] # None /\ Log[spans[s]].type = "span.end" =>
               spans'[s] # None /\ Log[spans'[s]].type = "span.end"
<1>1. SpanInv /\ [Next]_vars => [Stays]_spans
  <2> SUFFICES ASSUME SpanInv, Next PROVE Stays \/ spans' = spans
    BY DEF vars
  <2>1. PICK w \in Writers : Statement(w)
    BY DEF Next
  <2> QED
    BY <2>1, SpansGrowStep DEF SpanInv, RollupInv, SpansGrow
<1>2. [][Stays]_spans => EndedStaysEnded
  BY PTL DEF EndedStaysEnded
<1> HIDE DEF Stays
<1> QED
  BY <1>1, <1>2, SpanInvCorrect, PTL DEF Spec

-----------------------------------------------------------------------------
(* Convergence                                                             *)

Ended(b) == {e \in b : Log[e].type = "trace.end"}

\* What events say of the status: an end that brings none but running says ok.
Said(b) ==
  {"running"} \cup {Log[e].status : e \in Ended(b) \cup {f \in b : Log[f].status = "error"}}
  \cup (IF Ended(b) = {} THEN {} ELSE {"ok"})

\* What a row says once events were folded into it, in whatever batches: the worst
\* status, the first and the last time, whether there is an input, and the sampling.
Folded(t, r, b) ==
  /\ r.status \in Said(b) /\ \A x \in Said(b) : Rank[x] <= Rank[r.status]
  /\ r.started = 0 \/ \E e \in b : Log[e].started = r.started
  /\ \A e \in b : Log[e].started # 0 => r.started # 0 /\ r.started <= Log[e].started
  /\ r.ended = 0 \/ \E e \in b : Log[e].ended = r.ended
  /\ \A e \in b : Log[e].ended <= r.ended
  /\ r.input = None <=> \A e \in b : ~Log[e].input
  /\ r.eval = IF Ended(b) # {} /\ t \in Sampled THEN "pending" ELSE "not_sampled"

\* A committed row has what is committed of its trace folded in, and one that is not has
\* its transaction's events too.
ConvergeInv ==
  /\ \A t \in Traces \ raced : Folded(t, rows[t], OfTrace(applied, t))
  /\ \A w \in Writers, t \in Traces \ raced :
       Holds(w, t) => Folded(t, merged[w][t], OfTrace(applied \cup batch[w], t))

LEMMA Ranks ==
  /\ \A x \in Statuses : Rank[x] \in Nat
  /\ \A x, y \in Statuses : Rank[x] = Rank[y] => x = y
  /\ Rank["running"] = 0 /\ Rank["ok"] = 1
BY DEF Statuses, Rank

LEMMA SaidStatuses ==
  ASSUME NEW b \in SUBSET Ids
  PROVE  Said(b) \in SUBSET Statuses
<1>1. \A e \in b : Log[e].status \in Statuses
  BY EventFacts
<1> QED
  BY <1>1 DEF Said, Ended, Statuses

\* More events fold into the status as they would have at once.
LEMMA FoldStatus ==
  ASSUME NEW a \in SUBSET Ids, NEW b \in SUBSET Ids, NEW current,
         current.status \in Said(a), \A x \in Said(a) : Rank[x] <= Rank[current.status]
  PROVE  LET status == MergedStatus(b, current)
         IN  status \in Said(a \cup b) /\ \A x \in Said(a \cup b) : Rank[x] <= Rank[status]
<1> DEFINE ends == Ended(b)
           new == {Log[e].status : e \in ends \cup {f \in b : Log[f].status = "error"}}
           S == {current.status} \cup {Log[e].status : e \in ends}
                  \cup {Log[e].status : e \in {f \in b : Log[f].status = "error"}}
           worst == Worst(S)
           status == MergedStatus(b, current)
<1>1. Said(a) \in SUBSET Statuses /\ Said(b) \in SUBSET Statuses
      /\ Said(a \cup b) \in SUBSET Statuses
  BY SaidStatuses
<1>2. S \in SUBSET Statuses /\ S # {}
  <2>1. \A e \in b : Log[e].status \in Statuses
    BY EventFacts
  <2> QED
    BY <1>1, <2>1 DEF Ended
<1>3. worst \in S /\ \A x \in S : Rank[x] <= Rank[worst]
  <2> HIDE DEF S
  <2> QED
    BY <1>2, WorstIsGreatest
<1>4. status = IF ends # {} /\ worst = "running" THEN "ok" ELSE worst
  BY DEF MergedStatus, Ended
<1>5. Said(a \cup b) = Said(a) \cup Said(b)
  BY DEF Said, Ended
<1>6. Said(b) = {"running"} \cup new \cup (IF ends = {} THEN {} ELSE {"ok"})
  BY DEF Said
<1>7. S = {current.status} \cup new
  OBVIOUS
<1>8. "running" \in Said(a)
  BY DEF Said
<1> HIDE DEF ends, new, S, worst
<1>9. status \in Said(a \cup b)
  BY <1>3, <1>4, <1>5, <1>6, <1>7
<1>10. Rank[current.status] <= Rank[worst] /\ Rank[worst] <= Rank[status]
       /\ worst \in Statuses /\ status \in Statuses /\ current.status \in Statuses
  <2>1. worst \in Statuses /\ status \in Statuses /\ current.status \in Statuses
    BY <1>1, <1>2, <1>3, <1>4 DEF Statuses
  <2>2. Rank[current.status] <= Rank[worst]
    BY <1>3, <1>7
  <2>3. Rank[worst] <= Rank[status]
    BY <1>4, <2>1, Ranks
  <2> QED
    BY <2>1, <2>2, <2>3
<1>11. ASSUME NEW x \in Said(a \cup b)
       PROVE  Rank[x] <= Rank[status]
  <2> x \in Statuses
    BY <1>1
  <2>1. CASE x \in Said(a)
    <3>1. Rank[x] <= Rank[current.status]
      BY <2>1
    <3> QED
      BY <1>10, <3>1, Ranks
  <2>2. CASE x \in new
    <3>1. Rank[x] <= Rank[worst]
      BY <1>3, <1>7, <2>2
    <3> QED
      BY <1>10, <3>1, Ranks
  <2>3. CASE x = "ok" /\ ends # {}
    <3>1. status # "running"
      BY <1>4, <2>3
    <3>2. Rank[status] # 0 /\ Rank[status] \in Nat /\ Rank[x] = 1
      BY <1>10, <2>3, <3>1, Ranks DEF Statuses
    <3> QED
      BY <3>2
  <2>4. CASE x = "running"
    BY <1>8, <2>1, <2>4
  <2> QED
    BY <1>5, <1>6, <2>1, <2>2, <2>3, <2>4
<1> QED
  BY <1>9, <1>11

\* Folding in two batches is folding in one.
LEMMA FoldTwice ==
  ASSUME NEW t, NEW a \in SUBSET Ids, NEW b \in SUBSET Ids, NEW current \in Row,
         Folded(t, current, a)
  PROVE  Folded(t, Merge(t, b, current), a \cup b)
<1> DEFINE row == Merge(t, b, current)
           starts == {current.started} \cup {Log[e].started : e \in b}
           finals == {current.ended} \cup {Log[e].ended : e \in b}
<1>1. /\ row.status = MergedStatus(b, current) /\ row.started = Earliest(starts)
      /\ row.ended = Latest(finals) /\ row.input = MergedInput(b, current)
      /\ row.eval = MergedEval(t, b, current)
  BY DEF Merge
<1>2. current.started \in Nat /\ current.ended \in Nat
  BY DEF Row
<1>3. row.status \in Said(a \cup b) /\ \A x \in Said(a \cup b) : Rank[x] <= Rank[row.status]
  <2>1. current.status \in Said(a) /\ \A x \in Said(a) : Rank[x] <= Rank[current.status]
    BY DEF Folded
  <2> QED
    BY <1>1, <2>1, FoldStatus
<1>4. /\ row.started = 0 \/ \E e \in a \cup b : Log[e].started = row.started
      /\ \A e \in a \cup b :
           Log[e].started # 0 => row.started # 0 /\ row.started <= Log[e].started
  <2>1. starts \in SUBSET Nat
    BY <1>2, EventFacts
  <2>2. /\ row.started = 0 \/ row.started \in starts
        /\ row.started \in Nat
        /\ \A x \in starts : x # 0 => row.started # 0 /\ row.started <= x
    <3> HIDE DEF starts, row
    <3> QED
      BY <1>1, <2>1, EarliestTime
  <2>3. /\ current.started = 0 \/ \E e \in a : Log[e].started = current.started
        /\ \A e \in a :
             Log[e].started # 0 => current.started # 0 /\ current.started <= Log[e].started
    BY DEF Folded
  <2>4. \A e \in a \cup b : Log[e].started \in Nat
    BY EventFacts
  <2> HIDE DEF row
  <2>5. row.started = 0 \/ \E e \in a \cup b : Log[e].started = row.started
    BY <2>2, <2>3
  <2>6. ASSUME NEW e \in a, Log[e].started # 0
        PROVE  row.started # 0 /\ row.started <= Log[e].started
    BY <1>2, <2>2, <2>3, <2>4, <2>6
  <2>7. ASSUME NEW e \in b, Log[e].started # 0
        PROVE  row.started # 0 /\ row.started <= Log[e].started
    BY <2>2, <2>7
  <2> QED
    BY <2>5, <2>6, <2>7
<1>5. /\ row.ended = 0 \/ \E e \in a \cup b : Log[e].ended = row.ended
      /\ \A e \in a \cup b : Log[e].ended <= row.ended
  <2>1. row.ended \in finals /\ row.ended \in Nat /\ \A x \in finals : x <= row.ended
    <3> HIDE DEF row
    <3> QED
      BY <1>1, <1>2, LatestTime
  <2>2. /\ current.ended = 0 \/ \E e \in a : Log[e].ended = current.ended
        /\ \A e \in a : Log[e].ended <= current.ended
    BY DEF Folded
  <2>3. \A e \in a \cup b : Log[e].ended \in Nat
    BY EventFacts
  <2> HIDE DEF row
  <2>4. row.ended = 0 \/ \E e \in a \cup b : Log[e].ended = row.ended
    BY <2>1, <2>2
  <2>5. current.ended <= row.ended
    BY <2>1
  <2>6. ASSUME NEW e \in a PROVE Log[e].ended <= row.ended
    BY <1>2, <2>1, <2>2, <2>3, <2>5, <2>6
  <2>7. ASSUME NEW e \in b PROVE Log[e].ended <= row.ended
    BY <2>1, <2>7
  <2> QED
    BY <2>4, <2>6, <2>7
<1>6. row.input = None <=> \A e \in a \cup b : ~Log[e].input
  <2> DEFINE carrying == {e \in b : Log[e].input}
             envelope == {e \in carrying : Log[e].span = None}
  <2>1. carrying \in SUBSET Ids /\ envelope \in SUBSET Ids /\ envelope \subseteq carrying
    OBVIOUS
  <2>2. envelope # {} => LastOf(envelope) # None
    <3> HIDE DEF envelope
    <3> QED
      BY <2>1, LastOfEvents, EventFacts
  <2>3. carrying # {} => FirstOf(carrying) # None
    <3> HIDE DEF carrying
    <3> QED
      BY <2>1, FirstOfNaturals, EventFacts
  <2>4. row.input = IF envelope # {} THEN LastOf(envelope)
                    ELSE IF current.input = None /\ carrying # {} THEN FirstOf(carrying)
                    ELSE current.input
    BY <1>1 DEF MergedInput
  <2>5. current.input = None <=> \A e \in a : ~Log[e].input
    BY DEF Folded
  <2>6. carrying = {} <=> \A e \in b : ~Log[e].input
    OBVIOUS
  <2> HIDE DEF carrying, envelope, row
  <2>7. row.input = None <=> current.input = None /\ carrying = {}
    BY <2>1, <2>2, <2>3, <2>4
  <2> QED
    BY <2>5, <2>6, <2>7
<1>7. row.eval = IF Ended(a \cup b) # {} /\ t \in Sampled THEN "pending" ELSE "not_sampled"
  <2>1. current.eval = IF Ended(a) # {} /\ t \in Sampled THEN "pending" ELSE "not_sampled"
    BY DEF Folded
  <2>2. row.eval = IF Ended(b) # {}
                   THEN IF t \in Sampled THEN "pending" ELSE "not_sampled"
                   ELSE current.eval
    BY <1>1, <2>1 DEF MergedEval, Ended
  <2>3. Ended(a \cup b) = Ended(a) \cup Ended(b)
    BY DEF Ended
  <2> QED
    BY <2>1, <2>2, <2>3
<1> HIDE DEF row
<1>8. Folded(t, row, a \cup b)
  BY <1>3, <1>4, <1>5, <1>6, <1>7 DEF Folded
<1> QED
  BY <1>8 DEF row

\* The row there is before any event.
LEMMA FoldNothing ==
  ASSUME NEW t
  PROVE  Folded(t, NewRow, {}) /\ NewRow \in Row
<1>1. Said({}) = {"running"} /\ Ended({}) = {}
  BY DEF Said, Ended
<1>2. NewRow \in Row
  BY DEF NewRow, Row, Statuses
<1>3. /\ NewRow.status = "running" /\ NewRow.started = 0 /\ NewRow.ended = 0
      /\ NewRow.input = None /\ NewRow.eval = "not_sampled"
  BY DEF NewRow
<1> QED
  BY <1>1, <1>2, <1>3, Ranks DEF Folded

\* Two rows with the same events folded in agree.
LEMMA FoldedAgree ==
  ASSUME NEW t, NEW b \in SUBSET Ids, NEW r \in Row, NEW q \in Row,
         Folded(t, r, b), Folded(t, q, b)
  PROVE  /\ r.status = q.status /\ r.started = q.started /\ r.ended = q.ended
         /\ r.eval = q.eval /\ (r.input = None <=> q.input = None)
<1>1. r.status = q.status
  <2>1. r.status \in Statuses /\ q.status \in Statuses
    BY DEF Row
  <2>2. Rank[r.status] <= Rank[q.status] /\ Rank[q.status] <= Rank[r.status]
    BY DEF Folded
  <2> QED
    BY <2>1, <2>2, Ranks
<1>2. r.started = q.started
  <2>1. r.started \in Nat /\ q.started \in Nat
    BY DEF Row
  <2>2. ASSUME NEW u \in Row, NEW v \in Row, Folded(t, u, b), Folded(t, v, b), u.started # 0
        PROVE  v.started # 0 /\ v.started <= u.started
    BY <2>2 DEF Folded
  <2>3. r.started # 0 => q.started # 0 /\ q.started <= r.started
    BY <2>2
  <2>4. q.started # 0 => r.started # 0 /\ r.started <= q.started
    BY <2>2
  <2> QED
    BY <2>1, <2>3, <2>4
<1>3. r.ended = q.ended
  <2>1. r.ended \in Nat /\ q.ended \in Nat
    BY DEF Row
  <2>2. ASSUME NEW u \in Row, NEW v \in Row, Folded(t, u, b), Folded(t, v, b)
        PROVE  u.ended <= v.ended
    <3>1. u.ended \in Nat /\ v.ended \in Nat
      BY DEF Row
    <3>2. u.ended = 0 \/ \E e \in b : Log[e].ended = u.ended
      BY <2>2 DEF Folded
    <3>3. \A e \in b : Log[e].ended <= v.ended
      BY <2>2 DEF Folded
    <3> QED
      BY <3>1, <3>2, <3>3
  <2>3. r.ended <= q.ended /\ q.ended <= r.ended
    BY <2>2
  <2> QED
    BY <2>1, <2>3
<1> QED
  BY <1>1, <1>2, <1>3 DEF Folded

\* The rollups are not among what is folded.
LEMMA FoldedKeeps ==
  ASSUME NEW t, NEW b, NEW r \in Row, NEW x
  PROVE  Folded(t, [r EXCEPT !.rollup = x], b) <=> Folded(t, r, b)
<1> DEFINE q == [r EXCEPT !.rollup = x]
<1>1. /\ q.status = r.status /\ q.started = r.started /\ q.ended = r.ended
      /\ q.input = r.input /\ q.eval = r.eval
  BY DEF Row
<1> HIDE DEF q
<1>2. Folded(t, q, b) <=> Folded(t, r, b)
  BY <1>1 DEF Folded
<1> QED
  BY <1>2 DEF q

LEMMA OfTraceUnion ==
  ASSUME NEW a, NEW b, NEW t
  PROVE  /\ OfTrace(a \cup b, t) = OfTrace(a, t) \cup OfTrace(b, t)
         /\ t \notin TracesOf(b) => OfTrace(b, t) = {}
BY DEF OfTrace, TracesOf

\* A row is merged from the one in the table, or its trace is raced.
LEMMA UpsertFolds ==
  ASSUME TypeOK, ConvergeInv, NEW w \in Writers, UpsertTraces(w),
         NEW t \in Traces \ raced', t \in TracesOf(batch[w])
  PROVE  Folded(t, merged'[w][t], OfTrace(applied \cup batch[w], t))
<1> DEFINE new == Merge(t, OfTrace(batch[w], t), seen[w][t])
<1>1. t \notin raced /\ ~Changed(w, t)
  BY DEF UpsertTraces
<1>2. seen[w][t] \in Row /\ rows[t] \in Row /\ applied \subseteq Ids /\ batch[w] \subseteq Ids
  BY DEF TypeOK
<1>3. Folded(t, rows[t], OfTrace(applied, t))
  BY <1>1 DEF ConvergeInv
<1>4. [seen[w][t] EXCEPT !.rollup = rows[t].rollup] = rows[t]
  BY <1>1 DEF Changed
<1>5. Folded(t, seen[w][t], OfTrace(applied, t))
  BY <1>2, <1>3, <1>4, FoldedKeeps
<1>6. OfTrace(applied, t) \in SUBSET Ids /\ OfTrace(batch[w], t) \in SUBSET Ids
  BY <1>2 DEF OfTrace
<1>7. new \in Row /\ Folded(t, new, OfTrace(applied \cup batch[w], t))
  BY <1>2, <1>5, <1>6, MergeIsRow, FoldTwice, OfTraceUnion
<1>8. merged'[w][t] = [new EXCEPT !.rollup = rows[t].rollup]
  BY DEF UpsertTraces, TypeOK
<1> HIDE DEF new
<1> QED
  BY <1>7, <1>8, FoldedKeeps

\* A transaction commits the rows it has merged, and nobody else's.
LEMMA CommitFolds ==
  ASSUME TypeOK, SpanLocks, ConvergeInv, NEW w \in Writers, Commit(w), NEW t \in Traces \ raced
  PROVE  /\ Folded(t, rows'[t], OfTrace(applied', t))
         /\ t \notin TracesOf(batch[w]) => OfTrace(applied', t) = OfTrace(applied, t)
<1>1. applied' = applied \cup batch[w]
  BY DEF Commit
<1>2. CASE t \notin TracesOf(batch[w])
  <2>1. rows'[t] = rows[t]
    BY <1>2, CommitIsLocal
  <2>2. OfTrace(applied \cup batch[w], t) = OfTrace(applied, t)
    BY <1>2 DEF OfTrace, TracesOf
  <2>3. OfTrace(applied', t) = OfTrace(applied, t)
    BY <1>1, <2>2
  <2>4. Folded(t, rows[t], OfTrace(applied, t))
    BY DEF ConvergeInv
  <2> QED
    BY <2>1, <2>3, <2>4
<1>3. CASE t \in TracesOf(batch[w])
  <2>1. Holds(w, t)
    BY <1>3 DEF Commit, Holds
  <2>2. merged[w][t] \in Row /\ Folded(t, merged[w][t], OfTrace(applied', t))
    BY <1>1, <2>1 DEF TypeOK, ConvergeInv
  <2>3. rows'[t] = merged[w][t] \/ rows'[t] = [merged[w][t] EXCEPT !.rollup = agg[w][t]]
    BY <1>3 DEF Commit
  <2> QED
    BY <1>3, <2>2, <2>3, FoldedKeeps
<1> QED
  BY <1>2, <1>3

LEMMA ConvergeStep ==
  ASSUME TypeOK, TraceLocks, SpanLocks, ConvergeInv, NEW w \in Writers, Statement(w)
  PROVE  ConvergeInv'
<1>1. raced \subseteq raced'
  BY DEF Statement, Begin, InsertStarts, UpsertEnds, ReadTraces, UpsertTraces, Aggregate,
         Commit, Abort
<1>2. ASSUME ~Commit(w) PROVE rows' = rows /\ applied' = applied
  BY <1>2 DEF Statement, Begin, InsertStarts, UpsertEnds, ReadTraces, UpsertTraces,
              Aggregate, Abort
<1>3. ASSUME NEW t \in Traces \ raced'
      PROVE  Folded(t, rows'[t], OfTrace(applied', t))
  <2>1. CASE Commit(w)
    BY <1>1, <1>3, <2>1, CommitFolds
  <2>2. CASE ~Commit(w)
    BY <1>1, <1>2, <1>3, <2>2 DEF ConvergeInv
  <2> QED
    BY <2>1, <2>2
<1>4. ASSUME NEW v \in Writers, NEW t \in Traces \ raced', Holds(v, t)'
      PROVE  Folded(t, merged'[v][t], OfTrace(applied' \cup batch'[v], t))
  <2> t \in Traces /\ t \notin raced
    BY <1>1
  <2>1. CASE v # w
    <3>1. /\ pc'[v] = pc[v] /\ batch'[v] = batch[v] /\ merged'[v] = merged[v]
      BY <2>1, OthersUnchanged
    <3>2. Holds(v, t)
      BY <1>4, <3>1 DEF Holds, TracesOf
    <3>3. OfTrace(applied', t) = OfTrace(applied, t)
      <4>1. CASE Commit(w)
        <5>1. t \notin TracesOf(batch[w])
          BY <2>1, <3>2, <4>1 DEF TraceLocks, Holds, Commit
        <5> QED
          BY <4>1, <5>1, CommitFolds
      <4>2. CASE ~Commit(w)
        BY <1>2, <4>2
      <4> QED
        BY <4>1, <4>2
    <3>4. OfTrace(applied' \cup batch[v], t) = OfTrace(applied \cup batch[v], t)
      BY <3>3 DEF OfTrace
    <3>5. Folded(t, merged[v][t], OfTrace(applied \cup batch[v], t))
      BY <3>2 DEF ConvergeInv
    <3> QED
      BY <3>1, <3>4, <3>5
  <2>2. CASE v = w /\ UpsertTraces(w)
    <3>1. batch' = batch /\ applied' = applied
      BY <2>2 DEF UpsertTraces
    <3>2. t \in TracesOf(batch[w])
      BY <1>4, <2>2, <3>1 DEF Holds, TracesOf
    <3> QED
      BY <1>4, <2>2, <3>1, <3>2, UpsertFolds
  <2>3. CASE v = w /\ Aggregate(w)
    <3>1. pc[w] = "aggregate" /\ UNCHANGED <<batch, applied, merged>>
      BY <2>3 DEF Aggregate
    <3>2. Holds(w, t)
      BY <1>4, <2>3, <3>1 DEF Holds, TracesOf
    <3> QED
      BY <2>3, <3>1, <3>2 DEF ConvergeInv
  <2>4. CASE v = w /\ ~(UpsertTraces(w) \/ Aggregate(w))
    <3>1. pc'[w] \notin {"aggregate", "commit"}
      BY <2>4 DEF Statement, Begin, InsertStarts, UpsertEnds, ReadTraces,
                  Commit, Abort, Forget, Goto, TypeOK
    <3> QED
      BY <1>4, <2>4, <3>1 DEF Holds
  <2> QED
    BY <2>1, <2>2, <2>3, <2>4
<1> QED
  BY <1>3, <1>4 DEF ConvergeInv, OfTrace, Holds, TracesOf

\* Once everything is stored, a row has every event of its trace folded in.
LEMMA ConvergeEnough ==
  ASSUME TypeOK, ConvergeInv
  PROVE  TraceConverges
<1> SUFFICES ASSUME Settled, NEW t \in Traces \ raced PROVE ConvergesFor(t)
  BY DEF TraceConverges
<1>1. Folded(t, rows[t], OfTrace(Ids, t)) /\ rows[t] \in Row
  BY DEF ConvergeInv, Settled, TypeOK
<1>2. OfTrace(Ids, t) \in SUBSET Ids /\ {} \in SUBSET Ids /\ {} \cup OfTrace(Ids, t) = OfTrace(Ids, t)
  BY DEF OfTrace
<1>3. Reference(t) \in Row /\ Folded(t, Reference(t), OfTrace(Ids, t))
  BY <1>2, FoldNothing, FoldTwice, MergeIsRow DEF Reference
<1> HIDE DEF Reference
<1> QED
  BY <1>1, <1>2, <1>3, FoldedAgree DEF ConvergesFor

\* Batches, redeliveries and rollbacks of any number of replicas, in any order, end with
\* the status, the times and the sampling decision of the whole trace, but for a trace
\* that was merged into a row another replica had changed (storage_writer.py:298-300).
THEOREM TracesConverge == Spec => []TraceConverges
<1>1. Init => ConvergeInv
  <2> SUFFICES ASSUME Init PROVE ConvergeInv
    OBVIOUS
  <2>1. \A t \in Traces : rows[t] = NewRow /\ OfTrace(applied, t) = {}
    BY DEF Init, NoRows, OfTrace
  <2>2. \A w \in Writers, t \in Traces : ~Holds(w, t)
    BY DEF Init, Holds
  <2> QED
    BY <2>1, <2>2, FoldNothing DEF ConvergeInv
<1>2. RollupInv /\ ConvergeInv /\ [Next]_vars => ConvergeInv'
  <2> SUFFICES ASSUME RollupInv, ConvergeInv, [Next]_vars PROVE ConvergeInv'
    OBVIOUS
  <2>1. CASE Next
    BY <2>1, ConvergeStep DEF Next, RollupInv
  <2>2. CASE UNCHANGED vars
    BY <2>2 DEF vars, ConvergeInv, Holds, TracesOf, OfTrace
  <2> QED
    BY <2>1, <2>2
<1>3. RollupInv /\ ConvergeInv => TraceConverges
  BY ConvergeEnough DEF RollupInv
<1> QED
  BY <1>1, <1>2, <1>3, RollupInvCorrect, PTL DEF Spec
==============================================================================
