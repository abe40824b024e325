---------------------------- MODULE StreamConsumer ----------------------------
(***************************************************************************)
(* workers/base.py: the replicas of one role, reading one Redis stream     *)
(* through one consumer group.  Each replica loops over _tick: when its    *)
(* claim timer is due it looks at the pending entries list, dead-letters   *)
(* and acks what has been delivered too often, claims what has been idle   *)
(* too long; when that gave it nothing it reads new entries; it then       *)
(* processes the batch, dead-letters what can never succeed, and acks.     *)
(*                                                                         *)
(* One action stands between two awaits that touch shared state, so that   *)
(* the replicas interleave, and a replica dies, at each of them.  The      *)
(* handler (process) is one action: its database work is one transaction.  *)
(*                                                                         *)
(* The owner of a pending entry is not modelled: the code never asks for   *)
(* its own pending entries, it claims any that have been idle.             *)
(***************************************************************************)
EXTENDS Naturals, FiniteSets

CONSTANTS
  Consumers,             \* the replicas of the role
  MaxEvents,             \* bound: events ever published
  Malformed,             \* the events whose payload does not parse
  BatchSize,             \* settings.consumer_batch_size
  MaxDeliveryAttempts,   \* settings.max_delivery_attempts
  StreamMaxLen,          \* the publisher's maxlen
  LockConflictRetries,   \* LOCK_CONFLICT_RETRIES
  MaxOutages,            \* bound: crashes, stop requests and flushes
  Faults                 \* what the environment may do to the replicas

AllFaults == {"xpending", "xclaim", "xreadgroup", "xack", "work",
              "lockConflict", "permanentError", "deadLetterWrite",
              "crash", "stop", "flush"}

Ids == 1..MaxEvents

ASSUME ConsumerAssumption ==
  /\ IsFiniteSet(Consumers)
  /\ MaxEvents \in Nat
  /\ Malformed \subseteq Ids
  /\ BatchSize \in Nat \ {0}
  /\ MaxDeliveryAttempts \in Nat \ {0}
  /\ StreamMaxLen \in Nat \ {0}
  /\ LockConflictRetries \in Nat
  /\ MaxOutages \in Nat
  /\ Faults \subseteq AllFaults

VARIABLES
  \* Redis: the stream, the group and its pending entries list
  published, trimmed,    \* the stream holds the events trimmed+1 .. published
  group,                 \* whether the consumer group exists
  cursor,                \* the group's last-delivered id
  pel,                   \* delivered and not acknowledged
  times,                 \* times-delivered of each event
  idle,                  \* pending for at least consumer_claim_min_idle_ms
  acked,                 \* history: removed from pel by XACK
  \* Postgres
  done,                  \* events whose work has been committed
  deadLetters,           \* events with a row in dead_letters
  \* each replica
  pc,                    \* what it is about to do
  stopping,              \* its stop event is set
  claimSupported,        \* _claim_supported
  poison,                \* pending entries delivered too often
  claimable,             \* pending entries to claim
  batch,                 \* the messages being handled
  dead,                  \* outcome.dead
  attempt,               \* immediate retries after a lock conflict
  outages                \* crashes, stops and flushes so far

redisVars == <<published, trimmed, group, cursor, pel, times, idle, acked>>
dbVars    == <<done, deadLetters>>
localVars == <<pc, stopping, claimSupported, poison, claimable, batch, dead,
               attempt>>
vars == <<redisVars, dbVars, localVars, outages>>

Places == {"down", "tick", "poison", "ackPoison", "claim", "read",
           "process", "dead", "ack"}

Init ==
  /\ published = 0
  /\ trimmed = 0
  /\ group = FALSE
  /\ cursor = 0
  /\ pel = {}
  /\ times = [m \in Ids |-> 0]
  /\ idle = {}
  /\ acked = {}
  /\ done = {}
  /\ deadLetters = {}
  /\ pc = [c \in Consumers |-> "down"]
  /\ stopping = [c \in Consumers |-> FALSE]
  /\ claimSupported = [c \in Consumers |-> TRUE]
  /\ poison = [c \in Consumers |-> {}]
  /\ claimable = [c \in Consumers |-> {}]
  /\ batch = [c \in Consumers |-> {}]
  /\ dead = [c \in Consumers |-> {}]
  /\ attempt = [c \in Consumers |-> 0]
  /\ outages = 0

Larger(a, b)  == IF a > b THEN a ELSE b
Smaller(a, b) == IF a < b THEN a ELSE b

\* The n lowest ids of S: XPENDING - + COUNT n returns the oldest entries.
FirstPage(S, n) == {m \in S : Cardinality({k \in S : k < m}) < n}

Goto(c, place) == pc' = [pc EXCEPT ![c] = place]

-----------------------------------------------------------------------------
(* The environment                                                         *)

\* A producer appends an event; XADD MAXLEN ~ may trim down to StreamMaxLen.
Publish ==
  /\ published < MaxEvents
  /\ published' = published + 1
  /\ \E t \in trimmed..published' :
       /\ t = trimmed \/ t + StreamMaxLen <= published'
       /\ trimmed' = t
  /\ UNCHANGED <<group, cursor, pel, times, idle, acked, dbVars, localVars,
                 outages>>

\* A pending entry has not been delivered again for the minimum idle time.
GrowIdle(m) ==
  /\ m \in pel \ idle
  /\ idle' = idle \cup {m}
  /\ UNCHANGED <<published, trimmed, group, cursor, pel, times, acked, dbVars,
                 localVars, outages>>

Outage(kind) ==
  /\ kind \in Faults
  /\ outages < MaxOutages
  /\ outages' = outages + 1

\* The server loses its data: stream, group and pending entries.
FlushRedis ==
  /\ Outage("flush")
  /\ trimmed' = published
  /\ group' = FALSE
  /\ cursor' = 0
  /\ pel' = {}
  /\ idle' = {}
  /\ UNCHANGED <<published, times, acked, dbVars, localVars>>

\* The process dies and its memory with it; the database rolls back what it
\* had not committed, Redis keeps what it had not acked.
Crash(c) ==
  /\ pc[c] # "down"
  /\ Outage("crash")
  /\ Goto(c, "down")
  /\ stopping' = [stopping EXCEPT ![c] = FALSE]
  /\ poison' = [poison EXCEPT ![c] = {}]
  /\ claimable' = [claimable EXCEPT ![c] = {}]
  /\ batch' = [batch EXCEPT ![c] = {}]
  /\ dead' = [dead EXCEPT ![c] = {}]
  /\ attempt' = [attempt EXCEPT ![c] = 0]
  /\ UNCHANGED <<redisVars, dbVars, claimSupported>>

-----------------------------------------------------------------------------
(* Lifecycle                                                               *)

\* MUTANT: a group created again starts at the end of the stream.
EnsureGroupAtTheEnd ==
  /\ group' = TRUE
  /\ cursor' = IF group THEN cursor ELSE published

\* ensure_group: the group is created at id 0, or it is there already.
EnsureGroup ==
  /\ group' = TRUE
  /\ cursor' = IF group THEN cursor ELSE 0

\* run(): up to the first iteration of the loop.
Start(c) ==
  /\ pc[c] = "down"
  /\ EnsureGroup
  /\ Goto(c, "tick")
  /\ claimSupported' = [claimSupported EXCEPT ![c] = TRUE]
  /\ UNCHANGED <<published, trimmed, pel, times, idle, acked, dbVars, stopping,
                 poison, claimable, batch, dead, attempt, outages>>

\* SIGTERM: request_stop only sets the event the loop looks at.
RequestStop(c) ==
  /\ pc[c] # "down"
  /\ ~stopping[c]
  /\ Outage("stop")
  /\ stopping' = [stopping EXCEPT ![c] = TRUE]
  /\ UNCHANGED <<redisVars, dbVars, pc, claimSupported, poison, claimable,
                 batch, dead, attempt>>

\* The loop condition is evaluated between two ticks.
Exit(c) ==
  /\ pc[c] = "tick"
  /\ stopping[c]
  /\ Goto(c, "down")
  /\ stopping' = [stopping EXCEPT ![c] = FALSE]
  /\ UNCHANGED <<redisVars, dbVars, claimSupported, poison, claimable, batch,
                 dead, attempt, outages>>

-----------------------------------------------------------------------------
(* _reclaim_pending                                                        *)

\* The claim timer is due (it may or may not be on any tick).
ClaimDue(c) ==
  /\ pc[c] = "tick"
  /\ ~stopping[c]
  /\ claimSupported[c]

\* MUTANT: the entries at the ceiling are given up too.
ExhaustedAtTheCeiling(page) == {m \in page : times[m] >= MaxDeliveryAttempts}

\* MUTANT: there is no ceiling.
NeverExhausted(page) == {}

Exhausted(page) == {m \in page : times[m] > MaxDeliveryAttempts}

\* The delivery ceiling is looked at before, and instead of, the idle time.
LookAtPending(c) ==
  LET page      == FirstPage(pel, BatchSize)
      exhausted == Exhausted(page)
      stale     == (page \ exhausted) \cap idle
  IN  /\ ClaimDue(c)
      /\ group
      /\ poison' = [poison EXCEPT ![c] = exhausted]
      /\ claimable' = [claimable EXCEPT ![c] = stale]
      /\ Goto(c, IF exhausted # {} THEN "poison"
                 ELSE IF stale # {} THEN "claim" ELSE "read")
      /\ UNCHANGED <<redisVars, dbVars, stopping, claimSupported, batch, dead,
                     attempt, outages>>

\* NOGROUP: the group is created again and nothing is claimed.
LookWithoutGroup(c) ==
  /\ ClaimDue(c)
  /\ ~group
  /\ EnsureGroup
  /\ Goto(c, "read")
  /\ UNCHANGED <<published, trimmed, pel, times, idle, acked, dbVars, stopping,
                 claimSupported, poison, claimable, batch, dead, attempt,
                 outages>>

\* Any error of XPENDING that is not a reply of the server, a lost connection
\* included, is taken for a server that does not know the command.
LookFails(c) ==
  /\ "xpending" \in Faults
  /\ ClaimDue(c)
  /\ claimSupported' = [claimSupported EXCEPT ![c] = FALSE]
  /\ Goto(c, "read")
  /\ UNCHANGED <<redisVars, dbVars, stopping, poison, claimable, batch, dead,
                 attempt, outages>>

\* MUTANT: the rows are built and never inserted.
DropDeadLetters(rows) == UNCHANGED deadLetters

\* _write_dead_letters: a failed write is logged and forgotten.
WriteDeadLetters(rows) ==
  \/ deadLetters' = deadLetters \cup rows
  \/ /\ "deadLetterWrite" \in Faults
     /\ UNCHANGED deadLetters

DeadLetterPoison(c) ==
  /\ pc[c] = "poison"
  /\ WriteDeadLetters(poison[c])
  /\ Goto(c, "ackPoison")
  /\ UNCHANGED <<redisVars, done, stopping, claimSupported, poison, claimable,
                 batch, dead, attempt, outages>>

\* XACK removes the ids from the pending entries list, if they are there.
Xack(ids) ==
  /\ pel' = pel \ ids
  /\ idle' = idle \ ids
  /\ acked' = acked \cup (ids \cap pel)
  /\ UNCHANGED <<published, trimmed, group, cursor, times>>

AfterPoison(c) ==
  /\ pc[c] = "ackPoison"
  /\ poison' = [poison EXCEPT ![c] = {}]
  /\ Goto(c, IF claimable[c] # {} THEN "claim" ELSE "read")
  /\ UNCHANGED <<dbVars, stopping, claimSupported, claimable, batch, dead,
                 attempt, outages>>

AckPoison(c) ==
  /\ AfterPoison(c)
  /\ Xack(poison[c])

AckPoisonFails(c) ==
  /\ "xack" \in Faults
  /\ AfterPoison(c)
  /\ UNCHANGED redisVars

\* MUTANT: XCLAIM ... JUSTID does not count the delivery.
ClaimedJustIds(got) == times

Redelivered(got) == [m \in Ids |-> IF m \in got THEN times[m] + 1 ELSE times[m]]

\* XCLAIM drops the entries trimmed away in the meantime, skips those another
\* replica has claimed or acked, and counts one more delivery of the others.
Claim(c) ==
  LET gone == {m \in claimable[c] \cap pel : m <= trimmed}
      got  == (claimable[c] \cap idle) \ gone
  IN  /\ pc[c] = "claim"
      /\ group
      /\ pel' = pel \ gone
      /\ idle' = idle \ (gone \cup got)
      /\ times' = Redelivered(got)
      /\ claimable' = [claimable EXCEPT ![c] = {}]
      /\ batch' = [batch EXCEPT ![c] = got]
      /\ Goto(c, IF got # {} THEN "process" ELSE "read")
      /\ UNCHANGED <<published, trimmed, group, cursor, acked, dbVars, stopping,
                     claimSupported, poison, dead, attempt, outages>>

\* The exception reaches run(), which backs off and ticks again.
ClaimFails(c) ==
  /\ pc[c] = "claim"
  /\ "xclaim" \in Faults \/ ~group
  /\ claimable' = [claimable EXCEPT ![c] = {}]
  /\ Goto(c, "tick")
  /\ UNCHANGED <<redisVars, dbVars, stopping, claimSupported, poison, batch,
                 dead, attempt, outages>>

-----------------------------------------------------------------------------
(* _read_new                                                               *)

\* Either nothing was reclaimed on this tick, or the timer was not due.
ReadDue(c) == pc[c] = "read" \/ (pc[c] = "tick" /\ ~stopping[c])

ReadNew(c) ==
  LET first == Larger(cursor, trimmed) + 1
      last  == Smaller(published, first + BatchSize - 1)
      new   == first..last
  IN  /\ ReadDue(c)
      /\ group
      /\ cursor' = IF new # {} THEN last ELSE cursor
      /\ pel' = pel \cup new
      /\ times' = [m \in Ids |-> IF m \in new THEN 1 ELSE times[m]]
      /\ batch' = [batch EXCEPT ![c] = new]
      /\ Goto(c, IF new # {} THEN "process" ELSE "tick")
      /\ UNCHANGED <<published, trimmed, group, idle, acked, dbVars, stopping,
                     claimSupported, poison, claimable, dead, attempt, outages>>

ReadWithoutGroup(c) ==
  /\ ReadDue(c)
  /\ ~group
  /\ EnsureGroup
  /\ Goto(c, "tick")
  /\ UNCHANGED <<published, trimmed, pel, times, idle, acked, dbVars, stopping,
                 claimSupported, poison, claimable, batch, dead, attempt,
                 outages>>

ReadFails(c) ==
  /\ "xreadgroup" \in Faults
  /\ ReadDue(c)
  /\ Goto(c, "tick")
  /\ UNCHANGED <<redisVars, dbVars, stopping, claimSupported, poison, claimable,
                 batch, dead, attempt, outages>>

-----------------------------------------------------------------------------
(* _process_batch                                                          *)

\* process() commits the work of every message that parses and asks for the
\* others to be dead-lettered.
Handle(c) ==
  LET bad == batch[c] \cap Malformed
  IN  /\ pc[c] = "process"
      /\ done' = done \cup (batch[c] \ bad)
      /\ dead' = [dead EXCEPT ![c] = bad]
      /\ attempt' = [attempt EXCEPT ![c] = 0]
      /\ Goto(c, IF bad # {} THEN "dead" ELSE "ack")
      /\ UNCHANGED <<redisVars, deadLetters, stopping, claimSupported, poison,
                     claimable, batch, outages>>

\* PermanentError: the whole batch is unusable.
Reject(c) ==
  /\ "permanentError" \in Faults
  /\ pc[c] = "process"
  /\ dead' = [dead EXCEPT ![c] = batch[c]]
  /\ attempt' = [attempt EXCEPT ![c] = 0]
  /\ Goto(c, "dead")
  /\ UNCHANGED <<redisVars, dbVars, stopping, claimSupported, poison, claimable,
                 batch, outages>>

\* MUTANT: the immediate retries are not counted against the limit.
RetryForever(c) ==
  /\ "lockConflict" \in Faults
  /\ pc[c] = "process"
  /\ attempt' = [attempt EXCEPT ![c] = @ + 1]
  /\ UNCHANGED <<redisVars, dbVars, pc, stopping, claimSupported, poison,
                 claimable, batch, dead, outages>>

\* Postgres aborted the transaction to break a lock conflict: again, now.
RetryLockConflict(c) ==
  /\ "lockConflict" \in Faults
  /\ pc[c] = "process"
  /\ attempt[c] < LockConflictRetries
  /\ attempt' = [attempt EXCEPT ![c] = @ + 1]
  /\ UNCHANGED <<redisVars, dbVars, pc, stopping, claimSupported, poison,
                 claimable, batch, dead, outages>>

\* MUTANT: the error is logged and the batch acked all the same.
AckWhatFailed(c) ==
  /\ "work" \in Faults
  /\ pc[c] = "process"
  /\ attempt' = [attempt EXCEPT ![c] = 0]
  /\ Goto(c, "ack")
  /\ UNCHANGED <<redisVars, dbVars, stopping, claimSupported, poison, claimable,
                 batch, dead, outages>>

\* Any other exception leaves the whole batch pending.  The connection may
\* have been lost after the COMMIT as well as before it.
HandleFails(c) ==
  /\ pc[c] = "process"
  /\ \/ "work" \in Faults
     \/ "lockConflict" \in Faults /\ attempt[c] = LockConflictRetries
  /\ \/ UNCHANGED done
     \/ "work" \in Faults /\ done' = done \cup (batch[c] \ Malformed)
  /\ batch' = [batch EXCEPT ![c] = {}]
  /\ attempt' = [attempt EXCEPT ![c] = 0]
  /\ Goto(c, "tick")
  /\ UNCHANGED <<redisVars, deadLetters, stopping, claimSupported, poison,
                 claimable, dead, outages>>

DeadLetter(c) ==
  /\ pc[c] = "dead"
  /\ WriteDeadLetters(dead[c])
  /\ Goto(c, "ack")
  /\ UNCHANGED <<redisVars, done, stopping, claimSupported, poison, claimable,
                 batch, dead, attempt, outages>>

AfterBatch(c) ==
  /\ pc[c] = "ack"
  /\ batch' = [batch EXCEPT ![c] = {}]
  /\ dead' = [dead EXCEPT ![c] = {}]
  /\ Goto(c, "tick")
  /\ UNCHANGED <<dbVars, stopping, claimSupported, poison, claimable, attempt,
                 outages>>

\* outcome.ack and outcome.dead together are the batch.
Ack(c) ==
  /\ AfterBatch(c)
  /\ Xack(batch[c])

\* A failed XACK is logged: the batch stays pending.
AckFails(c) ==
  /\ "xack" \in Faults
  /\ AfterBatch(c)
  /\ UNCHANGED redisVars

-----------------------------------------------------------------------------

Reclaim(c) ==
  \/ LookAtPending(c) \/ LookWithoutGroup(c) \/ LookFails(c)
  \/ DeadLetterPoison(c) \/ AckPoison(c) \/ AckPoisonFails(c)
  \/ Claim(c) \/ ClaimFails(c)

Read(c) == ReadNew(c) \/ ReadWithoutGroup(c) \/ ReadFails(c)

ProcessBatch(c) ==
  \/ Handle(c) \/ Reject(c) \/ RetryLockConflict(c) \/ HandleFails(c)
  \/ DeadLetter(c) \/ Ack(c) \/ AckFails(c)

Lifecycle(c) == Start(c) \/ RequestStop(c) \/ Exit(c) \/ Crash(c)

Environment == Publish \/ FlushRedis \/ \E m \in Ids : GrowIdle(m)

Next ==
  \/ Environment
  \/ \E c \in Consumers : Lifecycle(c) \/ Reclaim(c) \/ Read(c) \/ ProcessBatch(c)

Spec == Init /\ [][Next]_vars

(***************************************************************************)
(* Time passes, a process that is down is started again, a running replica *)
(* takes its next step, its claim timer comes due again and again, and     *)
(* Redis answers XCLAIM, XREADGROUP and XACK again and again.  Nothing is  *)
(* assumed of the handler: it may fail every time.                         *)
(***************************************************************************)
Step(c) == Start(c) \/ Exit(c) \/ Reclaim(c) \/ Read(c) \/ ProcessBatch(c)

Fairness ==
  /\ \A m \in Ids : WF_vars(GrowIdle(m))
  /\ \A c \in Consumers :
       /\ WF_vars(Step(c))
       /\ SF_vars(LookAtPending(c) \/ LookWithoutGroup(c))
       /\ SF_vars(AckPoison(c))
       /\ SF_vars(Claim(c))
       /\ SF_vars(ReadNew(c))
       /\ SF_vars(Ack(c))

FairSpec == Spec /\ Fairness

-----------------------------------------------------------------------------
(* Properties                                                              *)

TypeOK ==
  /\ published \in 0..MaxEvents
  /\ trimmed \in 0..published
  /\ group \in BOOLEAN
  /\ cursor \in 0..published
  /\ pel \subseteq 1..published
  /\ times \in [Ids -> Nat]
  /\ idle \subseteq pel
  /\ acked \subseteq 1..published
  /\ done \subseteq 1..published
  /\ deadLetters \subseteq 1..published
  /\ pc \in [Consumers -> Places]
  /\ stopping \in [Consumers -> BOOLEAN]
  /\ claimSupported \in [Consumers -> BOOLEAN]
  /\ poison \in [Consumers -> SUBSET (1..published)]
  /\ claimable \in [Consumers -> SUBSET (1..published)]
  /\ batch \in [Consumers -> SUBSET (1..published)]
  /\ dead \in [Consumers -> SUBSET (1..published)]
  /\ attempt \in [Consumers -> 0..LockConflictRetries]
  /\ outages \in 0..MaxOutages

\* At least once: an event leaves the group only after its work was committed
\* or its dead_letters row was written, across crashes, stops, claims by other
\* replicas and lost acknowledgements (base.py: "Messages are acked only after
\* the handler says they are done").  Not true when the write of a dead letter
\* can fail.
NoSilentLoss == acked \subseteq done \cup deadLetters

\* Whatever fails, the dead-letter write included, an event that parses and
\* was not delivered more often than the ceiling allows is acked only with its
\* work committed: every path that acks without work (outcome.dead, the poison
\* branch of _reclaim_pending) is taken for malformed or exhausted events only.
HealthyEventsSurvive ==
  "permanentError" \notin Faults =>
    \A m \in acked \ Malformed :
      times[m] <= MaxDeliveryAttempts => m \in done

\* Nothing is forgotten: what the group has handed out is still pending, has
\* been acknowledged, or is gone from the stream itself.
NothingForgotten == 1..cursor \subseteq acked \cup pel \cup 1..trimmed

\* Never infinitely: each replica can add one delivery beyond the ceiling at
\* most, by an XCLAIM decided on a count read before another replica's claim.
BoundedDelivery ==
  \A m \in Ids : times[m] <= MaxDeliveryAttempts + Cardinality(Consumers)

\* Every event is settled in the end, however often its handler fails, unless
\* the stream itself loses it (base.py: a transient failure leaves "everything
\* pending so it is redelivered", and a poison message is bounded).
EventuallySettled ==
  \A m \in Ids : m <= published ~> m \in acked \/ m <= trimmed

\* The replicas implement what the group promises.
Delivery == INSTANCE EventDelivery WITH
  recorded <- deadLetters, settled <- acked
DeliverySpec == Delivery!Spec
==============================================================================
