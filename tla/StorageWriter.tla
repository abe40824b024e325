----------------------------- MODULE StorageWriter -----------------------------
(***************************************************************************)
(* workers/storage_writer.py: what the replicas of the storage consumer do *)
(* to the spans and traces tables.  process() is one transaction at READ   *)
(* COMMITTED: a statement sees what was committed before it and what its   *)
(* own transaction wrote, and a write waits for the transaction that holds *)
(* the row.  The transactions of the replicas interleave at every          *)
(* statement.  StreamConsumer delivers the events: each at least once, in  *)
(* batches and in an order that redelivery makes arbitrary.                *)
(*                                                                         *)
(* A span row is the event that supplied it, and a rollup the set of span  *)
(* rows its eight aggregates were computed from.  A trace without a row    *)
(* has the values _merge_trace takes for a missing one.                    *)
(***************************************************************************)
EXTENDS Naturals, Sequences, FiniteSets

CONSTANTS
  Writers,        \* the replicas of the role
  Log,            \* the events, in the order they were emitted
  Sampled,        \* the traces should_sample() selects
  MaxBatch,       \* bound: messages of one batch
  None            \* no span row, no value

Ids    == 1..Len(Log)
Traces == {Log[e].trace : e \in Ids}
Spans  == {Log[e].span : e \in Ids} \ {None}

Types    == {"trace.start", "trace.end", "span.start", "span.end"}
Statuses == {"running", "ok", "error"}
Events   == [type : Types, trace : Traces, span : Spans \cup {None},
             status : Statuses, started : Nat, ended : Nat, input : BOOLEAN]

\* Times are positive, 0 for an event that does not carry one; span ids are
\* unique across traces.
ASSUME LogAssumption ==
  /\ Log \in Seq(Events)
  /\ None \notin Ids
  /\ \A e \in Ids : Log[e].span = None <=> Log[e].type \in {"trace.start", "trace.end"}
  /\ \A e, f \in Ids :
       Log[e].span = Log[f].span /\ Log[e].span # None =>
         Log[e].trace = Log[f].trace
  /\ MaxBatch \in Nat \ {0}

VARIABLES
  spans,          \* committed: the row of each span
  rows,           \* committed: the row of each trace
  pc, batch,      \* each writer: its next statement, and the events it stores
  own,            \* each writer: the span rows it has not committed
  seen,           \* each writer: the trace rows it read
  merged,         \* each writer: the trace rows it has not committed
  agg,            \* each writer: the span rows its rollups were computed from
  applied,        \* history: the events of the committed batches
  raced           \* history: the traces merged into a row that had changed

vars == <<spans, rows, pc, batch, own, seen, merged, agg, applied, raced>>

Places == {"idle", "starts", "ends", "read", "upsert", "aggregate", "commit"}

NewRow == [status |-> "running", started |-> 0, ended |-> 0, input |-> None,
           eval |-> "not_sampled", rollup |-> {}]

NoSpans == [s \in Spans |-> None]
NoRows  == [t \in Traces |-> NewRow]
NoAgg   == [t \in Traces |-> {}]

Init ==
  /\ spans = NoSpans
  /\ rows = NoRows
  /\ pc = [w \in Writers |-> "idle"]
  /\ batch = [w \in Writers |-> {}]
  /\ own = [w \in Writers |-> NoSpans]
  /\ seen = [w \in Writers |-> NoRows]
  /\ merged = [w \in Writers |-> NoRows]
  /\ agg = [w \in Writers |-> NoAgg]
  /\ applied = {}
  /\ raced = {}

Goto(w, place) == pc' = [pc EXCEPT ![w] = place]

LastOf(S)  == CHOOSE e \in S : \A f \in S : f <= e
FirstOf(S) == CHOOSE e \in S : \A f \in S : e <= f

TracesOf(b)  == {Log[e].trace : e \in b}
SpansOf(t)   == {s \in Spans : \E e \in Ids : Log[e].span = s /\ Log[e].trace = t}
OfSpan(b, s, type) == {e \in b : Log[e].span = s /\ Log[e].type = type}

-----------------------------------------------------------------------------
(* _merge_trace                                                            *)

Rank == [running |-> 0, ok |-> 1, error |-> 2]
Worst(S) == CHOOSE x \in S : \A y \in S : Rank[y] <= Rank[x]

\* The earliest, the latest, of the times that are there.
Earliest(S) == IF S \ {0} = {} THEN 0 ELSE FirstOf(S \ {0})
Latest(S)   == LastOf(S)

\* MUTANT: the status of the envelope replaces the one in the row.
EnvelopeStatus(b, current) ==
  LET ends == {e \in b : Log[e].type = "trace.end"}
  IN  IF ends # {} THEN Log[LastOf(ends)].status
      ELSE Worst({current.status} \cup {Log[e].status : e \in {f \in b : Log[f].status = "error"}})

\* trace.end brings its status, any other event only an error; a trace that
\* has ended does not stay running.
MergedStatus(b, current) ==
  LET ends  == {e \in b : Log[e].type = "trace.end"}
      worst == Worst({current.status} \cup {Log[e].status : e \in ends}
                     \cup {Log[e].status : e \in {f \in b : Log[f].status = "error"}})
  IN  IF ends # {} /\ worst = "running" THEN "ok" ELSE worst

\* The envelope's input is authoritative, the last one to come winning; without
\* one the row keeps what it has, or takes the first span's.
MergedInput(b, current) ==
  LET carrying == {e \in b : Log[e].input}
      envelope == {e \in carrying : Log[e].span = None}
  IN  IF envelope # {} THEN LastOf(envelope)
      ELSE IF current.input = None /\ carrying # {} THEN FirstOf(carrying)
      ELSE current.input

\* Sampling is decided when the trace has ended, and never undoes a verdict.
MergedEval(t, b, current) ==
  IF /\ \E e \in b : Log[e].type = "trace.end"
     /\ current.eval \in {"not_sampled", "pending"}
  THEN IF t \in Sampled THEN "pending" ELSE "not_sampled"
  ELSE current.eval

\* The events b of trace t folded into its row.
Merge(t, b, current) ==
  [status  |-> MergedStatus(b, current),
   started |-> Earliest({current.started} \cup {Log[e].started : e \in b}),
   ended   |-> Latest({current.ended} \cup {Log[e].ended : e \in b}),
   input   |-> MergedInput(b, current),
   eval    |-> MergedEval(t, b, current),
   rollup  |-> current.rollup]

OfTrace(b, t) == {e \in b : Log[e].trace = t}

-----------------------------------------------------------------------------
(* process(), statement by statement                                       *)

\* A batch is delivered, for the first time or again.
Begin(w) ==
  /\ pc[w] = "idle"
  /\ \E b \in SUBSET Ids \ {{}} :
       /\ Cardinality(b) <= MaxBatch
       /\ batch' = [batch EXCEPT ![w] = b]
  /\ Goto(w, "starts")
  /\ UNCHANGED <<spans, rows, own, seen, merged, agg, applied, raced>>

\* A start is dropped when the batch ends the span too.
EndsIn(b)   == {s \in Spans : OfSpan(b, s, "span.end") # {}}
StartsIn(b) == {s \in Spans : OfSpan(b, s, "span.start") # {}} \ EndsIn(b)

\* The rows of S that another transaction has written are waited for.
SpansFree(w, S) == \A v \in Writers \ {w}, s \in S : own[v][s] = None

\* MUTANT: a start replaces the row that is there.
StartOverwrites(b, s) == LastOf(OfSpan(b, s, "span.start"))

\* ON CONFLICT DO NOTHING.
StartRow(b, s) ==
  IF spans[s] = None THEN LastOf(OfSpan(b, s, "span.start")) ELSE None

InsertStarts(w) ==
  /\ pc[w] = "starts"
  /\ SpansFree(w, StartsIn(batch[w]))
  /\ own' = [own EXCEPT ![w] = [s \in Spans |->
       IF s \in StartsIn(batch[w]) THEN StartRow(batch[w], s) ELSE None]]
  /\ Goto(w, "ends")
  /\ UNCHANGED <<spans, rows, batch, seen, merged, agg, applied, raced>>

\* MUTANT: an end does not replace the row that is there.
EndDoesNothing(b, s) ==
  IF spans[s] = None THEN LastOf(OfSpan(b, s, "span.end")) ELSE None

\* ON CONFLICT DO UPDATE.
EndRow(b, s) == LastOf(OfSpan(b, s, "span.end"))

UpsertEnds(w) ==
  /\ pc[w] = "ends"
  /\ SpansFree(w, EndsIn(batch[w]))
  /\ own' = [own EXCEPT ![w] = [s \in Spans |->
       IF s \in EndsIn(batch[w]) THEN EndRow(batch[w], s) ELSE own[w][s]]]
  /\ Goto(w, "read")
  /\ UNCHANGED <<spans, rows, batch, seen, merged, agg, applied, raced>>

\* The rows are read without a lock.
ReadTraces(w) ==
  /\ pc[w] = "read"
  /\ seen' = [seen EXCEPT ![w] = rows]
  /\ Goto(w, "upsert")
  /\ UNCHANGED <<spans, rows, batch, own, merged, agg, applied, raced>>

\* A writer holds the rows of its traces from its upsert to its commit.
Holds(w, t) == pc[w] \in {"aggregate", "commit"} /\ t \in TracesOf(batch[w])

\* Another transaction has written what this one read of the row of trace t.
Changed(w, t) == [seen[w][t] EXCEPT !.rollup = rows[t].rollup] # rows[t]

\* The merge was made from the rows read before the lock; the rollup columns
\* are not among those the upsert sets.
UpsertTraces(w) ==
  /\ pc[w] = "upsert"
  /\ \A v \in Writers \ {w}, t \in TracesOf(batch[w]) : ~Holds(v, t)
  /\ merged' = [merged EXCEPT ![w] = [t \in Traces |->
       IF t \in TracesOf(batch[w])
       THEN [Merge(t, OfTrace(batch[w], t), seen[w][t]) EXCEPT
               !.rollup = rows[t].rollup]
       ELSE NewRow]]
  /\ raced' = raced \cup {t \in TracesOf(batch[w]) : Changed(w, t)}
  /\ Goto(w, "aggregate")
  /\ UNCHANGED <<spans, rows, batch, own, seen, agg, applied>>

\* What a statement of w sees of the spans table.
Visible(w) == [s \in Spans |-> IF own[w][s] # None THEN own[w][s] ELSE spans[s]]

\* The span rows of trace t in a table.
RowsOf(table, t) == {table[s] : s \in SpansOf(t)} \ {None}

\* MUTANT: the aggregate runs in a session of its own.
RollupOfCommitted(w, t) == RowsOf(spans, t)

Rollup(w, t) == RowsOf(Visible(w), t)

Aggregate(w) ==
  /\ pc[w] = "aggregate"
  /\ agg' = [agg EXCEPT ![w] = [t \in Traces |->
       IF t \in TracesOf(batch[w]) THEN Rollup(w, t) ELSE {}]]
  /\ Goto(w, "commit")
  /\ UNCHANGED <<spans, rows, batch, own, seen, merged, applied, raced>>

Forget(w) ==
  /\ batch' = [batch EXCEPT ![w] = {}]
  /\ own' = [own EXCEPT ![w] = NoSpans]
  /\ seen' = [seen EXCEPT ![w] = NoRows]
  /\ merged' = [merged EXCEPT ![w] = NoRows]
  /\ agg' = [agg EXCEPT ![w] = NoAgg]
  /\ Goto(w, "idle")

\* UPDATE of the rollups of the traces that have spans, and COMMIT.
Commit(w) ==
  /\ pc[w] = "commit"
  /\ spans' = Visible(w)
  /\ rows' = [t \in Traces |->
       IF t \notin TracesOf(batch[w]) THEN rows[t]
       ELSE IF agg[w][t] = {} THEN merged[w][t]
       ELSE [merged[w][t] EXCEPT !.rollup = agg[w][t]]]
  /\ applied' = applied \cup batch[w]
  /\ Forget(w)
  /\ UNCHANGED raced

\* The database or the process fails: the transaction is rolled back, the
\* messages stay pending.
Abort(w) ==
  /\ pc[w] # "idle"
  /\ Forget(w)
  /\ UNCHANGED <<spans, rows, applied, raced>>

Statement(w) ==
  \/ Begin(w) \/ InsertStarts(w) \/ UpsertEnds(w) \/ ReadTraces(w)
  \/ UpsertTraces(w) \/ Aggregate(w) \/ Commit(w) \/ Abort(w)

Next == \E w \in Writers : Statement(w)

Spec == Init /\ [][Next]_vars

-----------------------------------------------------------------------------
(* Properties                                                              *)

Row == [status : Statuses, started : Nat, ended : Nat, input : Ids \cup {None},
        eval : {"not_sampled", "pending"}, rollup : SUBSET Ids]

TypeOK ==
  /\ spans \in [Spans -> Ids \cup {None}]
  /\ rows \in [Traces -> Row]
  /\ pc \in [Writers -> Places]
  /\ batch \in [Writers -> SUBSET Ids]
  /\ own \in [Writers -> [Spans -> Ids \cup {None}]]
  /\ seen \in [Writers -> [Traces -> Row]]
  /\ merged \in [Writers -> [Traces -> Row]]
  /\ agg \in [Writers -> [Traces -> SUBSET Ids]]
  /\ applied \subseteq Ids
  /\ raced \subseteq Traces

\* However many replicas store the halves of a trace, and however often, its
\* committed rollups are those of its committed spans: the aggregate is taken
\* after the upsert has locked the trace row, so no span of the trace can be
\* committed between the two (storage_writer.py, rule 3 of the docstring).
RollupExact == \A t \in Traces : rows[t].rollup = RowsOf(spans, t)

\* No committed event is lost from the spans table, and a span whose end was
\* stored is ended for good, whatever order the events came in and however
\* often (rules 1 and 2 of the docstring).
SpansComplete ==
  \A e \in applied :
    LET s == Log[e].span
    IN  s # None =>
          /\ spans[s] # None
          /\ Log[e].type = "span.end" => Log[spans[s]].type = "span.end"

\* A replayed start or a late batch never takes a span back to running.
EndedStaysEnded ==
  [][\A s \in Spans : spans[s] # None /\ Log[spans[s]].type = "span.end" =>
       spans'[s] # None /\ Log[spans'[s]].type = "span.end"]_spans

\* Every event has been stored and nothing is in flight.
Settled == applied = Ids /\ \A w \in Writers : pc[w] = "idle"

\* The row that one batch of all its events gives a trace.
Reference(t) == Merge(t, OfTrace(Ids, t), NewRow)

ConvergesFor(t) ==
  /\ rows[t].status = Reference(t).status
  /\ rows[t].started = Reference(t).started
  /\ rows[t].ended = Reference(t).ended
  /\ rows[t].eval = Reference(t).eval
  /\ rows[t].input = None <=> Reference(t).input = None

\* Batches, redeliveries and rollbacks of any number of replicas, in any order,
\* end with the status, the times and the sampling decision of the whole trace,
\* but for a trace that was merged into a row another replica had changed.
TraceConverges == Settled => \A t \in Traces \ raced : ConvergesFor(t)

\* storage_writer.py:298-300 says of the merge "Convergent by construction
\* [...] Two replicas processing different halves of a trace therefore agree";
\* docs/ARCHITECTURE.md:79 says the same.  Each merges into the row it read
\* before it waited for the other's lock.
ReplicasAgree == Settled => \A t \in Traces : ConvergesFor(t)
==============================================================================
