------------------------------ MODULE Guardrail ------------------------------
(***************************************************************************)
(* workers/guardrail_scanner.py, with what shares its rows: the storage    *)
(* writer, which locks the same traces; jobs/retention.py, which deletes   *)
(* them; the alerts the API lets an operator acknowledge. A transaction is *)
(* at READ COMMITTED: a statement sees what is committed and its own       *)
(* writes, and a write waits for the transaction that holds its row.       *)
(* StreamConsumer delivers each event at least once; Deliveries bounds how *)
(* often.                                                                  *)
(***************************************************************************)
EXTENDS GuardrailEngine, SequencesExt

CONSTANTS
    Scanners, Writers,   \* the replicas of the two consumer groups
    Log,                 \* the events: trace, span, type, input, output, broken
    Traces,              \* numbers, in the order of the trace ids
    Expired,             \* the traces the retention window has passed
    Floor,               \* alert_severity_floor
    PurgeBatch,          \* retention_batch_size
    MaxBatch,            \* bound: the events of a batch
    Deliveries,          \* bound: how often events are handed to the scanners, in all
    StoreBatches         \* bound: the batches the storage writer is handed

Ids == 1 .. Len(Log)
Procs == Scanners \cup Writers

\* broken: an event the engine raises on.
ASSUME GuardrailAssumption ==
    /\ Traces \subseteq Nat /\ IsFiniteSet(Traces) /\ Expired \subseteq Traces
    /\ Scanners \cap Writers = {}
    /\ Len(Log) \in Nat
    /\ \A e \in Ids : /\ Log[e].trace \in Traces /\ Log[e].broken \in BOOLEAN
                       /\ IsText(Log[e].input) /\ IsText(Log[e].output)
    /\ Floor \in Severity \ {0}
    /\ {PurgeBatch, MaxBatch, Deliveries} \subseteq Nat \ {0}
    /\ StoreBatches \subseteq (SUBSET Ids) \ {{}}

VARIABLES
    findings,    \* committed: the guardrail_findings, each with its trace and span
    rows,        \* committed: trace -> its row, of the traces that have one
    alerts,      \* committed: <<trace, detector, type>> -> its alert
    pc,          \* each process: where its transaction is
    batch,       \* each process: the events it was handed
    todo,        \* each process: the traces its transaction has still to lock
    seen,        \* each scanner: the flags it read of its next trace
    own,         \* each scanner: what it has inserted, upserted and raised
    purge,       \* the retention job: the traces of its batch, and what it deleted of them
    delivered,   \* events handed to the scanners so far
    settled,     \* events acked or dead-lettered
    swept,       \* traces the retention job has deleted
    raced        \* history: traces written by one transaction while another was on them

vars == <<findings, rows, alerts, pc, batch, todo, seen, own, purge, delivered,
          settled, swept, raced>>

\* A finding in its table; the dedupe constraint is on all of it but the weights.
Stored(e, f) == [trace |-> Log[e].trace, span |-> Log[e].span, detector |-> f.detector,
                 type |-> f.type, field |-> f.field, start |-> f.start,
                 severity |-> f.severity]
KeyOf(s) == <<s.trace, s.span, s.detector, s.type, s.field, s.start>>
StoredOf(e) == {Stored(e, f) : f \in ScanEvent(Log[e])}

Row == [status : {"pending", "clean", "flagged"}, flags : Flags]
FreshRow == [status |-> "pending", flags |-> NoFlags]
Alert == [severity : Severity, status : {"open", "resolved"}, acknowledged : BOOLEAN]
AlertKey(t, f) == <<t, f.detector, f.type>>

NothingOwn == [stored |-> {}, rows |-> <<>>, alerts |-> <<>>]
NoPurge == [at |-> "idle", ids |-> {}, doomed |-> {}]

\* A trace that has expired has its row from when it was stored.
Init ==
    /\ findings = {} /\ alerts = <<>>
    /\ rows = [t \in Expired |-> FreshRow]
    /\ pc = [p \in Procs |-> "idle"] /\ batch = [p \in Procs |-> {}]
    /\ todo = [p \in Procs |-> {}] /\ seen = [s \in Scanners |-> NoFlags]
    /\ own = [s \in Scanners |-> NothingOwn]
    /\ purge = NoPurge
    /\ delivered = 0
    /\ settled = {} /\ swept = {} /\ raced = {}

-------------------------------------------------------------------------------
Lowest(T) == CHOOSE t \in T : \A u \in T : t <= u

TracesOf(b) == {Log[e].trace : e \in b}
Scannable(b) == {e \in b : ~Log[e].broken}
OfTrace(b, t) == {e \in Scannable(b) : Log[e].trace = t}

FirstOf(b, t) == CHOOSE e \in b : Log[e].trace = t /\ \A f \in b : Log[f].trace = t => e <= f

\* Mutant of NextTrace: the traces in the order their events came.
ArrivalOrder(p) ==
    CHOOSE t \in todo[p] : \A u \in todo[p] : FirstOf(batch[p], t) <= FirstOf(batch[p], u)

\* The loop over sorted(per_trace), in the scanner as in the storage writer.
NextTrace(p) == Lowest(todo[p])

\* The traces a transaction has upserted are locked until it ends.
Locked(p) ==
    IF pc[p] = "idle" THEN {}
    ELSE TracesOf(IF p \in Scanners THEN Scannable(batch[p]) ELSE batch[p]) \ todo[p]
Free(p, t) == \A q \in Procs \ {p} : t \notin Locked(q)

Hand(p, b) ==
    /\ pc[p] = "idle"
    /\ b # {} /\ Cardinality(b) <= MaxBatch
    /\ b \cap settled = {}
    /\ delivered + Cardinality(b) <= Deliveries
    /\ delivered' = delivered + Cardinality(b)

\* process, to the scan: an event the scan fails on is dead-lettered with its batch's
\* outcome, at once when nothing else is left to persist.
Begin(s, b) ==
    /\ Hand(s, b)
    /\ IF Scannable(b) = {}
       THEN settled' = settled \cup b /\ UNCHANGED <<pc, batch, todo>>
       ELSE /\ pc' = [pc EXCEPT ![s] = "read"]
            /\ batch' = [batch EXCEPT ![s] = b]
            /\ todo' = [todo EXCEPT ![s] = TracesOf(Scannable(b))]
            /\ UNCHANGED settled
    /\ UNCHANGED <<findings, rows, alerts, seen, own, purge, swept, raced>>

\* What the events of trace t in the batch store: of two findings with one key the first.
FindingsOf(b, t) ==
    UNION {{f \in StoredOf(e) : \A d \in OfTrace(b, t) :
               d < e => \A g \in StoredOf(d) : KeyOf(g) # KeyOf(f)} : e \in OfTrace(b, t)}

\* A key that another transaction has inserted or deleted and not committed is waited for.
KeysFree(s, F) ==
    \A x \in UNION {own[r].stored : r \in Scanners \ {s}} \cup purge.doomed, f \in F :
        KeyOf(x) # KeyOf(f)

\* ON CONFLICT DO NOTHING.
NewOf(F) == {f \in F : \A x \in findings : KeyOf(x) # KeyOf(f)}

FlagsOf(t) == IF t \in DOMAIN rows THEN rows[t].flags ELSE NoFlags

\* _persist: the findings of the next trace, and its flags, read without a lock.
Read(s) ==
    /\ pc[s] = "read"
    /\ LET t == NextTrace(s)
           F == FindingsOf(batch[s], t)
       IN  /\ KeysFree(s, F)
           /\ own' = [own EXCEPT ![s].stored = @ \cup NewOf(F)]
           /\ seen' = [seen EXCEPT ![s] = FlagsOf(t)]
    /\ pc' = [pc EXCEPT ![s] = "upsert"]
    /\ UNCHANGED <<findings, rows, alerts, batch, todo, purge, delivered, settled, swept, raced>>

\* The events of trace t, one summary after the other.
Combined(b, t) ==
    LET merged[e \in 0 .. Len(Log)] ==
          IF e = 0 THEN NoFlags
          ELSE IF e \in OfTrace(b, t) THEN MergeFlags(merged[e - 1], Summarize(ScanEvent(Log[e])))
          ELSE merged[e - 1]
    IN  merged[Len(Log)]

MergedRow(old, new) ==
    LET merged == MergeFlags(old, new)
    IN  [status |-> IF merged.findings > 0 THEN "flagged" ELSE "clean", flags |-> merged]

\* Mutant of SeriousOf: the floor is exclusive.
AboveFloor(b, t) == {f \in UNION {ScanEvent(Log[e]) : e \in OfTrace(b, t)} : f.severity > Floor}

SeriousOf(b, t) == {f \in UNION {ScanEvent(Log[e]) : e \in OfTrace(b, t)} : f.severity >= Floor}

Graver(f, g) == f.severity > g.severity \/ (f.severity = g.severity /\ f.score >= g.score)

\* _maybe_alert: one alert, for the worst of what the batch found in the trace.
AlertsFor(b, t) ==
    LET serious == SeriousOf(b, t)
        worst == CHOOSE f \in serious : \A g \in serious : Graver(f, g)
    IN  IF serious = {} THEN <<>> ELSE [k \in {AlertKey(t, worst)} |-> worst.severity]

\* The rows of a table after some of them were written.
Over(new, old) ==
    [k \in DOMAIN new \cup DOMAIN old |-> IF k \in DOMAIN new THEN new[k] ELSE old[k]]

\* _persist, the upsert of the row under its lock, from the row that was read.
Upsert(s) ==
    /\ pc[s] = "upsert"
    /\ LET t == NextTrace(s)
       IN  /\ Free(s, t)
           /\ own' = [own EXCEPT
                         ![s].rows = Over([u \in {t} |-> MergedRow(seen[s], Combined(batch[s], t))], @),
                         ![s].alerts = Over(AlertsFor(batch[s], t), @)]
           /\ raced' = IF FlagsOf(t) = seen[s] THEN raced ELSE raced \cup {t}
    /\ todo' = [todo EXCEPT ![s] = @ \ {NextTrace(s)}]
    /\ seen' = [seen EXCEPT ![s] = NoFlags]
    /\ pc' = [pc EXCEPT ![s] = IF todo[s] = {NextTrace(s)} THEN "commit" ELSE "read"]
    /\ UNCHANGED <<findings, rows, alerts, batch, purge, delivered, settled, swept>>

\* Mutant of Refreshed: the status is among the columns that are updated.
Reopened(old, severity) == [old EXCEPT !.severity = severity, !.status = "open"]

\* raise_alert on a row that exists: its status and its acknowledgement are left alone.
Refreshed(old, severity) == [old EXCEPT !.severity = severity]

Raised(new) ==
    [k \in DOMAIN alerts \cup DOMAIN new |->
        IF k \notin DOMAIN new THEN alerts[k]
        ELSE IF k \in DOMAIN alerts THEN Refreshed(alerts[k], new[k])
        ELSE [severity |-> new[k], status |-> "open", acknowledged |-> FALSE]]

Leave(p) ==
    /\ pc' = [pc EXCEPT ![p] = "idle"]
    /\ batch' = [batch EXCEPT ![p] = {}]
    /\ todo' = [todo EXCEPT ![p] = {}]

\* The transaction commits, and the consumer acks what it can; an ack that is lost leaves
\* the events to be delivered again.
Commit(s, acked) ==
    /\ pc[s] = "commit"
    /\ findings' = findings \cup own[s].stored
    /\ rows' = Over(own[s].rows, rows)
    /\ alerts' = Raised(own[s].alerts)
    /\ settled' = IF acked THEN settled \cup batch[s] ELSE settled
    /\ own' = [own EXCEPT ![s] = NothingOwn]
    /\ Leave(s)
    /\ UNCHANGED <<seen, purge, delivered, swept, raced>>

\* The database or the process fails: nothing is stored, nothing acked.
Abort(s) ==
    /\ pc[s] # "idle"
    /\ own' = [own EXCEPT ![s] = NothingOwn]
    /\ seen' = [seen EXCEPT ![s] = NoFlags]
    /\ Leave(s)
    /\ UNCHANGED <<findings, rows, alerts, purge, delivered, settled, swept, raced>>

-------------------------------------------------------------------------------
(* The storage writer, as far as it shares rows with the scanner.          *)

StoreBegin(w, b) ==
    /\ pc[w] = "idle"
    /\ pc' = [pc EXCEPT ![w] = "upsert"]
    /\ batch' = [batch EXCEPT ![w] = b]
    /\ todo' = [todo EXCEPT ![w] = TracesOf(b)]
    /\ UNCHANGED <<findings, rows, alerts, seen, own, purge, delivered, settled, swept, raced>>

StoreUpsert(w) ==
    /\ pc[w] = "upsert"
    /\ Free(w, NextTrace(w))
    /\ todo' = [todo EXCEPT ![w] = @ \ {NextTrace(w)}]
    /\ pc' = [pc EXCEPT ![w] = IF todo[w] = {NextTrace(w)} THEN "commit" ELSE "upsert"]
    /\ UNCHANGED <<findings, rows, alerts, batch, seen, own, purge, delivered, settled, swept, raced>>

\* The guardrail columns of a row that exists are not among those it updates.
StoreCommit(w) ==
    /\ pc[w] = "commit"
    /\ rows' = Over(rows, [t \in TracesOf(batch[w]) |-> FreshRow])
    /\ Leave(w)
    /\ UNCHANGED <<findings, alerts, seen, own, purge, delivered, settled, swept, raced>>

-------------------------------------------------------------------------------
(* jobs/retention.py and the alerts router                                 *)

\* Rows the cutoff has passed: a row that a late event creates again is new.
Due == (Expired \ swept) \cap DOMAIN rows

\* One batch: its traces are selected, and their children deleted first.
PurgeChildren(ids) ==
    /\ purge.at = "idle"
    /\ ids \subseteq Due
    /\ Cardinality(ids) = IF Cardinality(Due) < PurgeBatch THEN Cardinality(Due) ELSE PurgeBatch
    /\ ids # {}
    /\ purge' = [at |-> "traces", ids |-> ids, doomed |-> {x \in findings : x.trace \in ids}]
    /\ UNCHANGED <<findings, rows, alerts, pc, batch, todo, seen, own, delivered, settled,
                   swept, raced>>

\* Mutant of Doomed: the children are left where they are.
DoomedNone(p) == {}

Doomed(p) == p.doomed

\* The traces, and the commit. A scanner that is on one of them has already inserted
\* findings the delete did not see, or will upsert a row from the one it read.
PurgeTraces ==
    /\ purge.at = "traces"
    /\ \A p \in Procs : Locked(p) \cap purge.ids = {}
    /\ findings' = findings \ Doomed(purge)
    /\ rows' = [t \in DOMAIN rows \ purge.ids |-> rows[t]]
    /\ swept' = swept \cup purge.ids
    /\ raced' = raced \cup {t \in purge.ids :
                    \/ \E x \in findings \ purge.doomed : x.trace = t
                    \/ \E s \in Scanners : pc[s] # "idle" /\ t \in TracesOf(batch[s])}
    /\ purge' = NoPurge
    /\ UNCHANGED <<alerts, pc, batch, todo, seen, own, delivered, settled>>

PurgeAbort ==
    /\ purge.at = "traces"
    /\ purge' = NoPurge
    /\ UNCHANGED <<findings, rows, alerts, pc, batch, todo, seen, own, delivered, settled,
                   swept, raced>>

\* acknowledge: its columns only, once no transaction holds the alert's row.
Acknowledge(k, resolve) ==
    /\ k \in DOMAIN alerts
    /\ \A s \in Scanners : k \notin DOMAIN own[s].alerts
    /\ alerts' = [alerts EXCEPT ![k].acknowledged = TRUE,
                                ![k].status = IF resolve THEN "resolved" ELSE @]
    /\ UNCHANGED <<findings, rows, pc, batch, todo, seen, own, purge, delivered, settled,
                   swept, raced>>

Scan(s) ==
    \/ \E b \in SUBSET Ids : Begin(s, b)
    \/ Read(s) \/ Upsert(s) \/ \E acked \in BOOLEAN : Commit(s, acked)
    \/ Abort(s)

Store(w) == (\E b \in StoreBatches : StoreBegin(w, b)) \/ StoreUpsert(w) \/ StoreCommit(w)

Retain == (\E ids \in SUBSET Traces : PurgeChildren(ids)) \/ PurgeTraces \/ PurgeAbort

Next ==
    \/ \E s \in Scanners : Scan(s)
    \/ \E w \in Writers : Store(w)
    \/ Retain
    \/ \E k \in DOMAIN alerts, resolve \in BOOLEAN : Acknowledge(k, resolve)

Spec == Init /\ [][Next]_vars

-------------------------------------------------------------------------------
(* Properties                                                              *)

OfRow(t) == {x \in findings : x.trace = t}

\* A trace's summary covers every finding stored of it, and flags nothing else, however
\* its events were split into batches, redelivered and rolled back, unless another
\* transaction wrote the row between the read and the lock: a clean last event does not
\* erase what an earlier one found (engine.py:259-264).
FlagsCoverFindings ==
    \A t \in DOMAIN rows \ raced :
        IF OfRow(t) = {} THEN rows[t].status # "flagged"
        ELSE /\ rows[t].status = "flagged"
             /\ rows[t].flags.findings >= Cardinality(OfRow(t))
             /\ rows[t].flags.severity >= Worst(Severities(OfRow(t)))
             /\ rows[t].flags.risk >= SeverityBase[Worst(Severities(OfRow(t))) + 1]
             /\ rows[t].flags.piiTypes = {x.type : x \in OfDetector(OfRow(t), "pii")}

\* An event that is acked has its findings in the table, and a trace with a finding at the
\* floor has an alert at the floor or above, which was committed with it.
SeriousAlerted ==
    /\ \A e \in settled : Log[e].broken \/ Log[e].trace \in swept
                          \/ \A f \in StoredOf(e) : \E x \in findings : KeyOf(x) = KeyOf(f)
    /\ \A x \in findings : x.severity >= Floor =>
          \E k \in DOMAIN alerts : k[1] = x.trace /\ alerts[k].severity >= Floor

\* What an operator has acknowledged or resolved stays so, however often the same finding
\* comes again (alerts.py:69-70).
AcknowledgedStays ==
    [][\A k \in DOMAIN alerts :
        /\ alerts[k].acknowledged => alerts'[k].acknowledged
        /\ alerts[k].status = "resolved" => alerts'[k].status = "resolved"]_alerts

\* p waits for a row, or a key, of a transaction of q.
WaitsFor(p, q) ==
    /\ p # q
    /\ \/ pc[p] = "upsert" /\ NextTrace(p) \in Locked(q)
       \/ /\ {p, q} \subseteq Scanners /\ pc[p] = "read"
          /\ \E x \in own[q].stored, f \in FindingsOf(batch[p], NextTrace(p)) : KeyOf(x) = KeyOf(f)

\* Replicas of the scanner and of the storage writer never wait for each other in a
\* circle: each takes its traces in the order of their ids (guardrail_scanner.py:79-83,
\* storage_writer.py:132-135).
NoLockCycle ==
    \A S \in (SUBSET Procs) \ {{}} : \E p \in S : \A q \in S : ~WaitsFor(p, q)

\* The purge takes a trace whole: no finding outlives its trace (retention.py:67-70), but
\* one that a scanner stored while the purge was under way.
NothingStranded == \A x \in findings : x.trace \in DOMAIN rows \cup raced
==============================================================================
