------------------------------ MODULE EvalScorer ------------------------------
(***************************************************************************)
(* workers/eval_scorer.py and evals/budget.py: the replicas of the eval    *)
(* consumer.  A replica keeps the trace.end messages it is given in a      *)
(* buffer, unacked; a flush takes the whole buffer, and for one tenant     *)
(* after another checks the budget, looks at what the storage writer has   *)
(* stored, has the judge grade what is ready and persists the verdicts;    *)
(* what storage has not stored yet goes back to the buffer.                *)
(*                                                                         *)
(* StreamConsumer delivers the messages: any that is not settled may be    *)
(* delivered again to any replica until it is given up.  StorageWriter     *)
(* appears as the read and the write of one trace row at a time.  Grading  *)
(* one trace costs 1.  All messages are the end of a trace in the sample:  *)
(* any other is acked at once.                                             *)
(***************************************************************************)
EXTENDS Naturals, FiniteSets

CONSTANTS
  Replicas,       \* the replicas of the role
  Msgs,           \* the messages of the stream
  TraceOf,        \* the trace each message ends (the publisher may send twice)
  TenantOf,       \* the tenant each message belongs to
  Gradable,       \* the traces with a question and an answer
  AskedAtEnd,     \* the traces whose one input is that of their trace.end
  ReadSize,       \* settings.consumer_batch_size
  BatchSize,      \* settings.eval_batch_size
  Cap,            \* the tenant's budget, in gradings
  Rewrites,       \* bound: are there batches that bring a row nothing new
  MaxDeliveries,  \* deliveries after which the group gives a message up
  Faults          \* what may go wrong

AllFaults == {"crash", "judge", "database", "xack", "slowStorage", "badVerdict"}

ASSUME EvalAssumption ==
  /\ IsFiniteSet(Msgs)
  /\ TraceOf \in [Msgs -> {TraceOf[m] : m \in Msgs}]
  /\ TenantOf \in [Msgs -> {TenantOf[m] : m \in Msgs}]
  /\ \A m, n \in Msgs : TraceOf[m] = TraceOf[n] => TenantOf[m] = TenantOf[n]
  /\ AskedAtEnd \subseteq {TraceOf[m] : m \in Msgs}
  /\ ReadSize \in Nat \ {0} /\ BatchSize \in Nat \ {0}
  /\ Cap \in Nat /\ Rewrites \in BOOLEAN /\ MaxDeliveries \in Nat \ {0}
  /\ Faults \subseteq AllFaults

Traces  == {TraceOf[m] : m \in Msgs}
Tenants == {TenantOf[m] : m \in Msgs}

\* A buffer entry is one delivery of one message.
Entries == Msgs \X (1..(MaxDeliveries + 1))
Msg(e)    == e[1]
Trace(e)  == TraceOf[e[1]]
Tenant(e) == TenantOf[e[1]]
MsgsOf(E)   == {Msg(e) : e \in E}
TracesOf(E) == {Trace(e) : e \in E}
Of(E, n)    == {e \in E : Tenant(e) = n}
About(E, t) == {e \in E : Trace(e) = t}

VARIABLES
  \* the consumer group
  delivered,      \* deliveries of each message
  settled,        \* acked
  givenUp,        \* dead-lettered by the group
  \* Postgres
  row,            \* each trace: what of it is merged; {} when there is no row
  status,         \* each trace: eval_status
  scored,         \* traces with eval_scores rows
  spend,          \* each tenant: tenant_usage, in gradings
  alerted,        \* tenants with a budget alert
  reading,        \* the row storage has read and not yet written: its status
  \* each replica
  pc,
  buffer,         \* _buffer
  held,           \* _buffered_ids
  batch,          \* entries of the flush not yet looked at
  slice,          \* entries of the tenant being scored
  samples,        \* entries to grade
  waiting,        \* entries to put back
  hopeless,       \* traces to mark not_scorable
  acked,          \* messages the flush may ack
  \* history
  billed,         \* each trace: gradings the judge was asked for
  missed,         \* traces given a bad verdict, or written off half stored
  late            \* calls to the judge by each replica past a tenant's cap

groupVars == <<delivered, settled, givenUp>>
dbVars    == <<row, status, scored, spend, alerted, reading>>
flushVars == <<batch, slice, samples, waiting, hopeless, acked>>
history   == <<billed, missed, late>>
vars == <<groupVars, dbVars, pc, buffer, held, flushVars, history>>

Statuses == {"not_sampled", "pending", "scored", "error", "not_scorable",
             "skipped_budget"}
\* trace.input and trace.output, in the row that the first event makes.
Parts == {"row", "question", "answer"}
Places == {"idle", "tenant", "mark", "judge", "persist"}

Init ==
  /\ delivered = [m \in Msgs |-> 0]
  /\ settled = {}
  /\ givenUp = {}
  /\ row = [t \in Traces |-> {}]
  /\ status = [t \in Traces |-> "not_sampled"]
  /\ scored = {}
  /\ spend = [n \in Tenants |-> 0]
  /\ alerted = {}
  /\ reading = {}
  /\ pc = [r \in Replicas |-> "idle"]
  /\ buffer = [r \in Replicas |-> {}]
  /\ held = [r \in Replicas |-> {}]
  /\ batch = [r \in Replicas |-> {}]
  /\ slice = [r \in Replicas |-> {}]
  /\ samples = [r \in Replicas |-> {}]
  /\ waiting = [r \in Replicas |-> {}]
  /\ hopeless = [r \in Replicas |-> {}]
  /\ acked = [r \in Replicas |-> {}]
  /\ billed = [t \in Traces |-> 0]
  /\ missed = {}
  /\ late = [r \in Replicas |-> [n \in Tenants |-> 0]]

Goto(r, place) == pc' = [pc EXCEPT ![r] = place]

-----------------------------------------------------------------------------
(* The storage writer                                                      *)

\* _write_traces reads the row; one that is not there counts as not_sampled.
StorageReads(t) ==
  /\ reading = {}
  /\ {"question", "answer"} \subseteq row[t] => Rewrites
  /\ reading' = {<<t, status[t]>>}
  /\ UNCHANGED <<groupVars, row, status, scored, spend, alerted, pc, buffer,
                 held, flushVars, history>>

\* It upserts the row with what a batch of events brings, the question, the end
\* with the answer, both or neither, in any order; the status is the one it read,
\* or pending if the batch ends the trace and there was no verdict.
StorageWrites(t, read) ==
  /\ <<t, read>> \in reading
  /\ \E brings \in SUBSET {"question", "answer"} :
       /\ brings \subseteq row[t] => Rewrites
       /\ t \in AskedAtEnd => ("question" \in brings <=> "answer" \in brings)
       /\ row' = [row EXCEPT ![t] = @ \cup {"row"} \cup brings]
       /\ status' = [status EXCEPT ![t] =
            IF "answer" \in brings /\ read \in {"not_sampled", "pending"}
            THEN "pending" ELSE read]
  /\ reading' = {}
  /\ UNCHANGED <<groupVars, scored, spend, alerted, pc, buffer, held, flushVars,
                 history>>

\* UPDATE traces SET eval_status: a row that is not there is not written.
SetStatus(T, value) ==
  [t \in Traces |-> IF t \in T /\ row[t] # {} THEN value ELSE status[t]]

-----------------------------------------------------------------------------
(* Deliveries                                                              *)

\* MUTANT: an entry is buffered whether or not its message is held.
BufferAgain(r, ms) == {<<m, delivered[m] + 1>> : m \in ms}

\* A message that is held already is passed over.
NewEntries(r, ms) == {<<m, delivered[m] + 1>> : m \in ms \ held[r]}

\* process(): the batch is buffered, nothing of it is acked; a buffer that is
\* full is flushed before process() returns.
Process(r) ==
  /\ pc[r] = "idle"
  /\ \E ms \in (SUBSET (Msgs \ settled)) \ {{}} :
       LET full == buffer[r] \cup NewEntries(r, ms)
           due  == Cardinality(full) >= BatchSize
       IN  /\ Cardinality(ms) <= ReadSize
           /\ \A m \in ms : delivered[m] <= MaxDeliveries
           /\ delivered' = [m \in Msgs |->
                IF m \in ms THEN delivered[m] + 1 ELSE delivered[m]]
           /\ held' = [held EXCEPT ![r] = @ \cup ms]
           /\ buffer' = [buffer EXCEPT ![r] = IF due THEN {} ELSE full]
           /\ batch' = [batch EXCEPT ![r] = IF due THEN full ELSE {}]
           /\ Goto(r, IF due THEN "tenant" ELSE "idle")
  /\ UNCHANGED <<settled, givenUp, dbVars, slice, samples, waiting, hopeless,
                 acked, history>>

\* The group's ceiling: dead-lettered and acked, buffered or not.
GiveUp(m) ==
  /\ delivered[m] > MaxDeliveries
  /\ m \notin settled
  /\ \E r \in Replicas : pc[r] = "idle"
  /\ settled' = settled \cup {m}
  /\ givenUp' = givenUp \cup {m}
  /\ UNCHANGED <<delivered, dbVars, pc, buffer, held, flushVars, history>>

-----------------------------------------------------------------------------
(* _flush                                                                  *)

\* _maybe_flush when a timer is due or deferred entries fill the buffer; teardown.
StartFlush(r) ==
  /\ pc[r] = "idle"
  /\ buffer[r] # {}
  /\ batch' = [batch EXCEPT ![r] = buffer[r]]
  /\ buffer' = [buffer EXCEPT ![r] = {}]
  /\ Goto(r, "tenant")
  /\ UNCHANGED <<groupVars, dbVars, held, slice, samples, waiting, hopeless,
                 acked, history>>

\* MUTANT: the check lets any tenant through.
NeverExhausted(n) == FALSE

\* check_budget
Exhausted(n) == spend[n] >= Cap

\* MUTANT: what waits for storage is acked with the rest.
EveryId(r) == MsgsOf(slice[r])

\* The messages that reached a final answer.
FinalIds(r) == MsgsOf(slice[r] \ waiting[r])

Clear(r) ==
  /\ slice' = [slice EXCEPT ![r] = {}]
  /\ samples' = [samples EXCEPT ![r] = {}]
  /\ waiting' = [waiting EXCEPT ![r] = {}]
  /\ hopeless' = [hopeless EXCEPT ![r] = {}]
  /\ Goto(r, "tenant")

\* The tenant's slice is done: what waits goes back to the buffer.
EndTenant(r) ==
  /\ Clear(r)
  /\ buffer' = [buffer EXCEPT ![r] = @ \cup waiting[r]]
  /\ acked' = [acked EXCEPT ![r] = @ \cup FinalIds(r)]

\* The next tenant is over its cap: its traces are skipped and acked.
SkipTenant(r, n) ==
  LET S == Of(batch[r], n)
  IN  /\ pc[r] = "tenant" /\ S # {}
      /\ Exhausted(n)
      /\ status' = SetStatus(TracesOf(S), "skipped_budget")
      /\ alerted' = alerted \cup {n}
      /\ batch' = [batch EXCEPT ![r] = @ \ S]
      /\ acked' = [acked EXCEPT ![r] = @ \cup MsgsOf(S)]
      /\ UNCHANGED <<groupVars, row, scored, spend, reading, pc, buffer, held,
                     slice, samples, waiting, hopeless, history>>

Scorable(t) == {"question", "answer"} \subseteq row[t] /\ t \in Gradable
Early(t)    == ~Scorable(t) /\ (row[t] = {} \/ status[t] = "not_sampled")

\* The end is stored, the question is on its way with another event.
Unasked(t) == t \in Gradable \ AskedAtEnd /\ "answer" \in row[t] /\ ~Scorable(t)

\* The next tenant may spend: _readiness sorts its traces in the same session.
\* abandoned are the early ones whose eval_ready_timeout_seconds are over.  A row
\* with a status and no question is ungradable, be the question on its way or not.
AllowTenant(r, n) ==
  LET S == Of(batch[r], n)
      early == {e \in S : Early(Trace(e))}
      ungradable == {t \in TracesOf(S) : ~Scorable(t) /\ ~Early(t)}
  IN  /\ pc[r] = "tenant" /\ S # {}
      /\ ~Exhausted(n)
      /\ batch' = [batch EXCEPT ![r] = @ \ S]
      /\ slice' = [slice EXCEPT ![r] = S]
      /\ samples' = [samples EXCEPT ![r] = {e \in S : Scorable(Trace(e))}]
      /\ \E abandoned \in SUBSET early :
           /\ abandoned # {} => "slowStorage" \in Faults
           /\ waiting' = [waiting EXCEPT ![r] = early \ abandoned]
           /\ hopeless' = [hopeless EXCEPT ![r] =
                ungradable \cup TracesOf(abandoned)]
           /\ missed' = missed \cup TracesOf(abandoned)
                          \cup {t \in ungradable : Unasked(t)}
      /\ Goto(r, IF hopeless'[r] # {} THEN "mark" ELSE "judge")
      /\ UNCHANGED <<groupVars, dbVars, buffer, held, acked, billed, late>>

\* The ungradable ones, in a transaction of their own.
MarkHopeless(r) ==
  /\ pc[r] = "mark"
  /\ status' = SetStatus(hopeless[r], "not_scorable")
  /\ Goto(r, "judge")
  /\ UNCHANGED <<groupVars, row, scored, spend, alerted, reading, buffer, held,
                 flushVars, history>>

NothingToGrade(r) ==
  /\ pc[r] = "judge"
  /\ samples[r] = {}
  /\ EndTenant(r)
  /\ UNCHANGED <<groupVars, dbVars, held, batch, history>>

\* Whether or not an answer comes, it is paid for.
Bill(r) ==
  /\ billed' = [t \in Traces |-> billed[t] + Cardinality(About(samples[r], t))]
  /\ late' = [late EXCEPT ![r] = [n \in Tenants |->
       IF Of(samples[r], n) # {} /\ spend[n] >= Cap
       THEN late[r][n] + 1 ELSE late[r][n]]]
  /\ UNCHANGED missed

Judge(r) ==
  /\ pc[r] = "judge"
  /\ samples[r] # {}
  /\ Bill(r)
  /\ Goto(r, "persist")
  /\ UNCHANGED <<groupVars, dbVars, buffer, held, flushVars>>

\* MUTANT: the row of the period is replaced, not added to.
OverwriteSpend(r) ==
  spend' = [n \in Tenants |->
    IF Of(samples[r], n) # {} THEN Cardinality(Of(samples[r], n)) ELSE spend[n]]

\* record_spend: the increment is made by the database.
RecordSpend(r) ==
  spend' = [n \in Tenants |-> spend[n] + Cardinality(Of(samples[r], n))]

\* _persist: scores, statuses and spend in one transaction.
Persist(r) ==
  /\ pc[r] = "persist"
  /\ \E failed \in SUBSET samples[r] :
       LET good == TracesOf(samples[r] \ failed)
       IN  /\ failed # {} => "badVerdict" \in Faults
           /\ scored' = scored \cup good
           /\ missed' = missed \cup TracesOf(failed)
           /\ status' = [t \in Traces |->
                IF row[t] = {} THEN status[t]
                ELSE IF t \in TracesOf(failed) THEN "error"
                ELSE IF t \in good THEN "scored" ELSE status[t]]
  /\ RecordSpend(r)
  /\ EndTenant(r)
  /\ UNCHANGED <<groupVars, row, alerted, reading, held, batch, billed, late>>

\* MUTANT: the failed entries stay in the set of what is held.
KeepHeld(r, S) == held[r]

Released(r, S) == held[r] \ MsgsOf(S)

\* An exception anywhere in _score_tenant: the tenant's entries are dropped,
\* unacked, and the other tenants go on.
Drop(r, S) ==
  /\ held' = [held EXCEPT ![r] = Released(r, S)]
  /\ Clear(r)
  /\ UNCHANGED <<groupVars, dbVars, buffer, acked>>

CheckFails(r, n) ==
  /\ "database" \in Faults
  /\ pc[r] = "tenant" /\ Of(batch[r], n) # {}
  /\ Drop(r, Of(batch[r], n))
  /\ batch' = [batch EXCEPT ![r] = @ \ Of(@, n)]
  /\ UNCHANGED history

WriteFails(r) ==
  /\ "database" \in Faults
  /\ pc[r] \in {"mark", "persist"}
  /\ Drop(r, slice[r])
  /\ UNCHANGED <<batch, history>>

\* The call may have been paid for.
JudgeFails(r) ==
  /\ "judge" \in Faults
  /\ pc[r] = "judge"
  /\ samples[r] # {}
  /\ Bill(r) \/ UNCHANGED history
  /\ Drop(r, slice[r])
  /\ UNCHANGED batch

\* _flush is over and its messages are acked.
EndFlush(r) ==
  /\ pc[r] = "tenant"
  /\ batch[r] = {}
  /\ held' = [held EXCEPT ![r] = @ \ acked[r]]
  /\ acked' = [acked EXCEPT ![r] = {}]
  /\ Goto(r, "idle")
  /\ UNCHANGED <<delivered, givenUp, dbVars, buffer, batch, slice, samples,
                 waiting, hopeless, history>>

Ack(r) ==
  /\ EndFlush(r)
  /\ settled' = settled \cup acked[r]

\* The messages will be delivered again.
AckFails(r) ==
  /\ "xack" \in Faults
  /\ EndFlush(r)
  /\ UNCHANGED settled

\* The process dies, between flushes or in one, and another starts with nothing
\* in its hands.
Restart(r) ==
  /\ "crash" \in Faults
  /\ pc' = [pc EXCEPT ![r] = "idle"]
  /\ buffer' = [buffer EXCEPT ![r] = {}]
  /\ held' = [held EXCEPT ![r] = {}]
  /\ batch' = [batch EXCEPT ![r] = {}]
  /\ slice' = [slice EXCEPT ![r] = {}]
  /\ samples' = [samples EXCEPT ![r] = {}]
  /\ waiting' = [waiting EXCEPT ![r] = {}]
  /\ hopeless' = [hopeless EXCEPT ![r] = {}]
  /\ acked' = [acked EXCEPT ![r] = {}]
  /\ UNCHANGED <<groupVars, dbVars, history>>

-----------------------------------------------------------------------------

Storage ==
  \E t \in Traces :
    StorageReads(t) \/ \E read \in Statuses : StorageWrites(t, read)

Flush(r) ==
  \/ StartFlush(r)
  \/ \E n \in Tenants : SkipTenant(r, n) \/ AllowTenant(r, n) \/ CheckFails(r, n)
  \/ MarkHopeless(r) \/ NothingToGrade(r) \/ Judge(r) \/ Persist(r)
  \/ WriteFails(r) \/ JudgeFails(r) \/ Ack(r) \/ AckFails(r)

Next ==
  \/ Storage
  \/ \E m \in Msgs : GiveUp(m)
  \/ \E r \in Replicas : Process(r) \/ Flush(r) \/ Restart(r)

Spec == Init /\ [][Next]_vars

-----------------------------------------------------------------------------
(* Properties                                                              *)

\* eval_scorer.py:103-107 and 208-212: the held set is what the replica has in
\* its hands, each message once.  Were a message in the set and nowhere else, its
\* redeliveries would all be passed over; were it in hand twice, it would be
\* paid for twice.
InHand(r) == buffer[r] \cup batch[r] \cup slice[r]

HeldIsInHand ==
  \A r \in Replicas :
    /\ \A e, f \in InHand(r) : Msg(e) = Msg(f) => e = f
    /\ held[r] = MsgsOf(InHand(r)) \cup acked[r]

\* eval_scorer.py:22-24 and 327-331: a message is settled when its trace has a
\* verdict, its tenant was over its cap, or there is nothing to grade: not before,
\* whatever fails and whichever replica it was delivered to.  A trace in missed had
\* a bad verdict, or was written off: when storage was not there in time, or when
\* its end was stored before the event that brings its question (the trace.end of
\* langchain.py:676-700 has none), which the code takes for an ungradable trace.
\* With its question in its end, a stored trace is never written off.
SettledIsGraded ==
  \A m \in settled \ givenUp :
    \/ TraceOf[m] \in scored \cup missed
    \/ TenantOf[m] \in alerted
    \/ TraceOf[m] \notin Gradable

\* Every verdict stored is in the tenant's total, so the cap binds: two replicas
\* that persist at once do not lose each other's spend (budget.py:161-168), and
\* scores are never stored without their cost; nor is a trace stored, and paid for,
\* more often than its messages were delivered.
ScoresArePaidFor ==
  /\ \A n \in Tenants :
       spend[n] >= Cardinality({t \in scored : \E m \in Msgs :
                                  TraceOf[m] = t /\ TenantOf[m] = n})
  /\ \A t \in Traces :
       billed[t] <= Cardinality({e \in About(Entries, t) : e[2] <= delivered[Msg(e)]})

\* The budget is checked before the call, so once a tenant's recorded spend has
\* reached its cap each replica calls the judge for it at most once more: for
\* the batch that had passed the check.
OneLateCall ==
  \A r \in Replicas : \A n \in Tenants : late[r][n] <= 1

=============================================================================
