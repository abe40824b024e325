------------------------ MODULE StreamConsumer_proofs ------------------------
(***************************************************************************)
(* Theorems about StreamConsumer, for every set of replicas, every number  *)
(* of events, every batch size and ceiling, and every set of faults.       *)
(***************************************************************************)
EXTENDS StreamConsumer, FiniteSetTheorems, TLAPS

-----------------------------------------------------------------------------
(* Type correctness                                                        *)

\* What XPENDING returns is pending, whatever the page size.
LEMMA PageIsPending ==
  ASSUME NEW S, NEW n
  PROVE  FirstPage(S, n) \subseteq S
BY DEF FirstPage

\* The environment's steps keep the types: events appended, entries growing
\* idle, the server flushed.
LEMMA EnvironmentTypeOK ==
  TypeOK /\ Environment => TypeOK'
<1> SUFFICES ASSUME TypeOK, Environment PROVE TypeOK'
  OBVIOUS
<1> USE DEF TypeOK, redisVars, dbVars, localVars, Ids
<1>1. CASE Publish
  <2>1. /\ published' = published + 1
        /\ trimmed' \in trimmed..published'
    BY <1>1 DEF Publish
  <2>2. 1..published \subseteq 1..published'
    BY <2>1, ConsumerAssumption
  <2>3. /\ published' \in 0..MaxEvents
        /\ trimmed' \in 0..published'
    BY <1>1, <2>1, ConsumerAssumption DEF Publish
  <2> QED
    BY <1>1, <2>1, <2>2, <2>3, ConsumerAssumption DEF Publish
<1>2. CASE FlushRedis
  <2>1. /\ trimmed' = published /\ group' = FALSE /\ cursor' = 0
        /\ pel' = {} /\ idle' = {}
        /\ outages' \in 0..MaxOutages
    BY <1>2, ConsumerAssumption DEF FlushRedis, Outage
  <2>2. /\ UNCHANGED <<published, times, acked, done, deadLetters>>
        /\ UNCHANGED <<pc, stopping, claimSupported, poison, claimable, batch,
                       dead, attempt>>
    BY <1>2 DEF FlushRedis
  <2>3. trimmed' \in 0..published' /\ cursor' \in 0..published'
    BY <2>1, <2>2, ConsumerAssumption
  <2> QED
    BY <2>1, <2>2, <2>3
<1>3. CASE \E m \in Ids : GrowIdle(m)
  BY <1>3, ConsumerAssumption DEF GrowIdle
<1> QED
  BY <1>1, <1>2, <1>3 DEF Environment

\* Starting, stopping and crashing keep the types.
LEMMA LifecycleTypeOK ==
  ASSUME NEW c \in Consumers
  PROVE  TypeOK /\ Lifecycle(c) => TypeOK'
<1> SUFFICES ASSUME TypeOK, Lifecycle(c) PROVE TypeOK'
  OBVIOUS
<1> USE ConsumerAssumption DEF TypeOK, redisVars, dbVars, localVars, Ids, Goto, Places
<1>1. CASE Start(c)
  BY <1>1 DEF Start, EnsureGroup
<1>2. CASE RequestStop(c)
  BY <1>2 DEF RequestStop, Outage
<1>3. CASE Exit(c)
  BY <1>3 DEF Exit
<1>4. CASE Crash(c)
  BY <1>4 DEF Crash, Outage
<1> QED
  BY <1>1, <1>2, <1>3, <1>4 DEF Lifecycle

\* _reclaim_pending keeps the types.
LEMMA ReclaimTypeOK ==
  ASSUME NEW c \in Consumers
  PROVE  TypeOK /\ Reclaim(c) => TypeOK'
<1> SUFFICES ASSUME TypeOK, Reclaim(c) PROVE TypeOK'
  OBVIOUS
<1> USE ConsumerAssumption DEF TypeOK, redisVars, dbVars, localVars, Ids, Goto, Places
<1>1. CASE LookAtPending(c)
  BY <1>1, PageIsPending DEF LookAtPending, Exhausted, ClaimDue
<1>2. CASE LookWithoutGroup(c)
  BY <1>2 DEF LookWithoutGroup, ClaimDue, EnsureGroup
<1>3. CASE LookFails(c)
  BY <1>3 DEF LookFails, ClaimDue
<1>4. CASE DeadLetterPoison(c)
  BY <1>4 DEF DeadLetterPoison, WriteDeadLetters
<1>5. CASE AckPoison(c)
  BY <1>5 DEF AckPoison, AfterPoison, Xack
<1>6. CASE AckPoisonFails(c)
  BY <1>6 DEF AckPoisonFails, AfterPoison
<1>7. CASE Claim(c)
  <2> DEFINE gone == {m \in claimable[c] \cap pel : m <= trimmed}
             got  == (claimable[c] \cap idle) \ gone
  <2>1. /\ pel' = pel \ gone
        /\ idle' = idle \ (gone \cup got)
        /\ times' = [m \in Ids |-> IF m \in got THEN times[m] + 1 ELSE times[m]]
        /\ claimable' = [claimable EXCEPT ![c] = {}]
        /\ batch' = [batch EXCEPT ![c] = got]
        /\ pc' = [pc EXCEPT ![c] = IF got # {} THEN "process" ELSE "read"]
        /\ UNCHANGED <<published, trimmed, group, cursor, acked, done,
                       deadLetters, stopping, claimSupported, poison, dead,
                       attempt, outages>>
    BY <1>7 DEF Claim, Redelivered
  <2>2. gone \subseteq pel /\ got \subseteq idle
    OBVIOUS
  <2> HIDE DEF gone, got
  <2>3. times' \in [Ids -> Nat]
    BY <2>1
  <2>4. /\ pel' \subseteq 1..published' /\ idle' \subseteq pel'
        /\ got \subseteq 1..published'
    BY <2>1, <2>2
  <2>5. batch' \in [Consumers -> SUBSET (1..published')]
    BY <2>1, <2>4
  <2>6. pc' \in [Consumers -> Places]
    BY <2>1
  <2>7. claimable' \in [Consumers -> SUBSET (1..published')]
    BY <2>1
  <2> QED
    BY <2>1, <2>3, <2>4, <2>5, <2>6, <2>7
<1>8. CASE ClaimFails(c)
  BY <1>8 DEF ClaimFails
<1> QED
  BY <1>1, <1>2, <1>3, <1>4, <1>5, <1>6, <1>7, <1>8 DEF Reclaim

\* What XREADGROUP delivers lies in the stream, after the cursor and after
\* what has been trimmed.
LEMMA NewIsInStream ==
  ASSUME TypeOK,
         NEW first, first = Larger(cursor, trimmed) + 1,
         NEW last, last = Smaller(published, first + BatchSize - 1)
  PROVE  /\ first \in Nat /\ last \in Nat
         /\ first > cursor /\ first > trimmed
         /\ first = cursor + 1 \/ first = trimmed + 1
         /\ last <= published
         /\ first..last \subseteq 1..published
BY ConsumerAssumption DEF TypeOK, Larger, Smaller

\* _read_new keeps the types.
LEMMA ReadTypeOK ==
  ASSUME NEW c \in Consumers
  PROVE  TypeOK /\ Read(c) => TypeOK'
<1> SUFFICES ASSUME TypeOK, Read(c) PROVE TypeOK'
  OBVIOUS
<1> USE ConsumerAssumption DEF redisVars, dbVars, localVars, Ids, Goto, Places
<1>1. CASE ReadNew(c)
  <2> DEFINE first == Larger(cursor, trimmed) + 1
             last  == Smaller(published, first + BatchSize - 1)
             new   == first..last
  <2>1. /\ last \in Nat /\ last <= published
        /\ new \subseteq 1..published
    BY NewIsInStream
  <2> HIDE DEF first, last
  <2>2. /\ cursor' = IF new # {} THEN last ELSE cursor
        /\ pel' = pel \cup new
        /\ times' = [m \in Ids |-> IF m \in new THEN 1 ELSE times[m]]
        /\ batch' = [batch EXCEPT ![c] = new]
        /\ pc' = [pc EXCEPT ![c] = IF new # {} THEN "process" ELSE "tick"]
        /\ UNCHANGED <<published, trimmed, group, idle, acked, dbVars, stopping,
                     claimSupported, poison, claimable, dead, attempt, outages>>
    BY <1>1 DEF ReadNew, first, last
  <2> HIDE DEF new
  <2> QED
    BY <2>1, <2>2 DEF TypeOK
<1>2. CASE ReadWithoutGroup(c)
  BY <1>2 DEF ReadWithoutGroup, EnsureGroup, TypeOK
<1>3. CASE ReadFails(c)
  BY <1>3 DEF ReadFails, TypeOK
<1> QED
  BY <1>1, <1>2, <1>3 DEF Read

\* _process_batch keeps the types.
LEMMA ProcessBatchTypeOK ==
  ASSUME NEW c \in Consumers
  PROVE  TypeOK /\ ProcessBatch(c) => TypeOK'
<1> SUFFICES ASSUME TypeOK, ProcessBatch(c) PROVE TypeOK'
  OBVIOUS
<1> USE ConsumerAssumption DEF TypeOK, redisVars, dbVars, localVars, Ids, Goto, Places
<1>1. CASE Handle(c)
  <2>1. /\ done' \subseteq 1..published
        /\ dead' \in [Consumers -> SUBSET (1..published)]
    BY <1>1 DEF Handle
  <2>3. /\ attempt' \in [Consumers -> 0..LockConflictRetries]
        /\ pc' \in [Consumers -> Places]
    BY <1>1 DEF Handle
  <2>2. /\ UNCHANGED <<published, trimmed, group, cursor, pel, times, idle, acked>>
        /\ UNCHANGED <<deadLetters, stopping, claimSupported, poison, claimable,
                       batch, outages>>
    BY <1>1 DEF Handle
  <2> QED
    BY <2>1, <2>2, <2>3
<1>2. CASE Reject(c)
  BY <1>2 DEF Reject
<1>3. CASE RetryLockConflict(c)
  BY <1>3 DEF RetryLockConflict
<1>4. CASE HandleFails(c)
  <2>1. /\ done' \subseteq 1..published
        /\ batch' \in [Consumers -> SUBSET (1..published)]
    BY <1>4 DEF HandleFails
  <2>3. /\ attempt' \in [Consumers -> 0..LockConflictRetries]
        /\ pc' \in [Consumers -> Places]
    BY <1>4 DEF HandleFails
  <2>2. /\ UNCHANGED <<published, trimmed, group, cursor, pel, times, idle, acked>>
        /\ UNCHANGED <<deadLetters, stopping, claimSupported, poison, claimable,
                       dead, outages>>
    BY <1>4 DEF HandleFails
  <2> QED
    BY <2>1, <2>2, <2>3
<1>5. CASE DeadLetter(c)
  BY <1>5 DEF DeadLetter, WriteDeadLetters
<1>6. CASE Ack(c)
  BY <1>6 DEF Ack, AfterBatch, Xack
<1>7. CASE AckFails(c)
  BY <1>7 DEF AckFails, AfterBatch
<1> QED
  BY <1>1, <1>2, <1>3, <1>4, <1>5, <1>6, <1>7 DEF ProcessBatch

\* Every step keeps the types.
LEMMA TypeStep == TypeOK /\ [Next]_vars => TypeOK'
<1> SUFFICES ASSUME TypeOK, [Next]_vars PROVE TypeOK'
  OBVIOUS
<1>1. CASE Environment
  BY <1>1, EnvironmentTypeOK
<1>2. ASSUME NEW c \in Consumers,
             Lifecycle(c) \/ Reclaim(c) \/ Read(c) \/ ProcessBatch(c)
      PROVE  TypeOK'
  BY <1>2, LifecycleTypeOK, ReclaimTypeOK, ReadTypeOK, ProcessBatchTypeOK
<1>3. CASE UNCHANGED vars
  BY <1>3 DEF TypeOK, vars, redisVars, dbVars, localVars
<1> QED
  BY <1>1, <1>2, <1>3 DEF Next

\* Every reachable state is well typed; in particular only pending entries are
\* idle, and nothing is pending, acked, worked or recorded that was not
\* published.
THEOREM TypeCorrect == Spec => []TypeOK
<1>1. Init => TypeOK
  <2> SUFFICES ASSUME Init PROVE TypeOK
    OBVIOUS
  <2>1. /\ published \in 0..MaxEvents /\ trimmed \in 0..published
        /\ cursor \in 0..published /\ outages \in 0..MaxOutages
        /\ attempt \in [Consumers -> 0..LockConflictRetries]
        /\ times \in [Ids -> Nat]
    BY ConsumerAssumption DEF Init
  <2> QED
    BY <2>1 DEF Init, TypeOK, Places
<1> QED
  BY <1>1, TypeStep, PTL DEF Spec

-----------------------------------------------------------------------------
(* The group's bookkeeping: nothing that was handed out is forgotten       *)

\* What the stream still has to hand out was never delivered, and nothing
\* else is: the strengthening that makes NothingForgotten inductive, also
\* when the server is flushed and the group created again at id 0.
DeliveryInv ==
  /\ ~group => cursor = 0 /\ pel = {}
  /\ \A m \in pel : m <= cursor
  /\ \A m \in Ids : m > cursor /\ m > trimmed => times[m] = 0
  /\ NothingForgotten

deliveryVars == <<published, trimmed, group, cursor, pel, times, acked>>

\* The steps that touch the group's bookkeeping; all others leave it alone.
LEMMA DeliverySteps ==
  ASSUME [Next]_vars
  PROVE  \/ Publish
         \/ FlushRedis
         \/ \E c \in Consumers :
              \/ Start(c) \/ LookWithoutGroup(c) \/ ReadWithoutGroup(c)
              \/ AckPoison(c) \/ Ack(c) \/ Claim(c) \/ ReadNew(c)
         \/ UNCHANGED deliveryVars
<1> USE DEF deliveryVars, redisVars
<1>1. CASE Environment
  BY <1>1 DEF Environment, GrowIdle
<1>2. ASSUME NEW c \in Consumers, Lifecycle(c)
      PROVE  Start(c) \/ UNCHANGED deliveryVars
  BY <1>2 DEF Lifecycle, RequestStop, Exit, Crash
<1>3. ASSUME NEW c \in Consumers, Reclaim(c)
      PROVE  \/ LookWithoutGroup(c) \/ AckPoison(c) \/ Claim(c)
             \/ UNCHANGED deliveryVars
  BY <1>3 DEF Reclaim, LookAtPending, Exhausted, LookFails, DeadLetterPoison,
              AckPoisonFails, ClaimFails
<1>4. ASSUME NEW c \in Consumers, Read(c)
      PROVE  ReadWithoutGroup(c) \/ ReadNew(c) \/ UNCHANGED deliveryVars
  BY <1>4 DEF Read, ReadFails
<1>5. ASSUME NEW c \in Consumers, ProcessBatch(c)
      PROVE  Ack(c) \/ UNCHANGED deliveryVars
  BY <1>5 DEF ProcessBatch, Handle, Reject, RetryLockConflict, HandleFails,
              DeadLetter, AckFails
<1>6. CASE UNCHANGED vars
  BY <1>6 DEF vars
<1> QED
  BY <1>1, <1>2, <1>3, <1>4, <1>5, <1>6 DEF Next

\* XACK of pending entries keeps the bookkeeping: what leaves the pending
\* entries list is acked.
LEMMA XackDelivery ==
  ASSUME TypeOK, DeliveryInv, NEW ids, Xack(ids)
  PROVE  DeliveryInv'
BY DEF DeliveryInv, NothingForgotten, Xack, TypeOK

\* Every step keeps the invariant of the group.
LEMMA DeliveryStep ==
  TypeOK /\ DeliveryInv /\ [Next]_vars => DeliveryInv'
<1> SUFFICES ASSUME TypeOK, DeliveryInv, [Next]_vars PROVE DeliveryInv'
  OBVIOUS
<1> USE ConsumerAssumption
<1>1. CASE Publish
  <2>1. /\ trimmed' \in trimmed..published + 1
        /\ UNCHANGED <<group, cursor, pel, times, acked>>
    BY <1>1 DEF Publish
  <2> QED
    BY <2>1 DEF DeliveryInv, NothingForgotten, TypeOK, Ids
<1>2. CASE FlushRedis
  <2>1. /\ trimmed' = published /\ cursor' = 0 /\ pel' = {}
        /\ UNCHANGED <<published, times, acked>>
    BY <1>2 DEF FlushRedis
  <2>2. ASSUME NEW m \in Ids, m > published
        PROVE  times[m] = 0
    BY <2>2 DEF DeliveryInv, TypeOK, Ids
  <2> QED
    BY <2>1, <2>2 DEF DeliveryInv, NothingForgotten, TypeOK
<1>3. ASSUME NEW c \in Consumers,
             Start(c) \/ LookWithoutGroup(c) \/ ReadWithoutGroup(c)
      PROVE  DeliveryInv'
  <2>1. /\ EnsureGroup
        /\ UNCHANGED <<published, trimmed, pel, times, acked>>
    BY <1>3 DEF Start, LookWithoutGroup, ReadWithoutGroup
  <2>2. cursor' = cursor
    BY <2>1 DEF EnsureGroup, DeliveryInv
  <2> QED
    BY <2>1, <2>2 DEF DeliveryInv, NothingForgotten, EnsureGroup
<1>4. ASSUME NEW c \in Consumers, AckPoison(c) \/ Ack(c)
      PROVE  DeliveryInv'
  BY <1>4, XackDelivery DEF AckPoison, Ack
<1>5. ASSUME NEW c \in Consumers, Claim(c)
      PROVE  DeliveryInv'
  <2> DEFINE gone == {m \in claimable[c] \cap pel : m <= trimmed}
             got  == (claimable[c] \cap idle) \ gone
  <2>1. /\ pel' = pel \ gone
        /\ times' = [m \in Ids |-> IF m \in got THEN times[m] + 1 ELSE times[m]]
        /\ UNCHANGED <<published, trimmed, group, cursor, acked>>
    BY <1>5 DEF Claim, Redelivered
  <2>2. got \subseteq pel
    BY DEF TypeOK
  <2>3. gone \subseteq 1..trimmed
    BY DEF TypeOK
  <2> HIDE DEF gone, got
  <2>4. \A m \in Ids : m > cursor' /\ m > trimmed' => times'[m] = 0
    BY <2>1, <2>2 DEF DeliveryInv, TypeOK, Ids
  <2> QED
    BY <2>1, <2>3, <2>4 DEF DeliveryInv, NothingForgotten
<1>6. ASSUME NEW c \in Consumers, ReadNew(c)
      PROVE  DeliveryInv'
  <2> DEFINE first == Larger(cursor, trimmed) + 1
             last  == Smaller(published, first + BatchSize - 1)
             new   == first..last
  <2>1. /\ first \in Nat /\ last \in Nat
        /\ first > cursor /\ first > trimmed
        /\ first = cursor + 1 \/ first = trimmed + 1
        /\ last <= published
        /\ new \subseteq 1..published
    BY NewIsInStream
  <2> HIDE DEF first, last
  <2>2. /\ group
        /\ cursor' = IF new # {} THEN last ELSE cursor
        /\ pel' = pel \cup new
        /\ times' = [m \in Ids |-> IF m \in new THEN 1 ELSE times[m]]
        /\ UNCHANGED <<published, trimmed, group, acked>>
    BY <1>6 DEF ReadNew, first, last
  <2>3. CASE new = {}
    BY <2>2, <2>3 DEF DeliveryInv, NothingForgotten, TypeOK
  <2>4. CASE new # {}
    <3>1. first <= last /\ cursor' = last /\ last >= cursor
      BY <2>1, <2>2, <2>4 DEF TypeOK
    <3>2. \A m \in pel' : m <= cursor'
      BY <2>1, <2>2, <3>1 DEF DeliveryInv, TypeOK
    <3>3. \A m \in Ids : m > cursor' /\ m > trimmed' => times'[m] = 0
      BY <2>1, <2>2, <3>1 DEF DeliveryInv, TypeOK, Ids
    <3>4. ASSUME NEW m \in 1..last
          PROVE  m \in acked \cup pel' \cup 1..trimmed
      <4>1. CASE m >= first
        BY <2>1, <2>2, <4>1
      <4>2. CASE m < first
        BY <2>1, <2>2, <4>2 DEF DeliveryInv, NothingForgotten, TypeOK
      <4> QED
        BY <2>1, <4>1, <4>2
    <3> QED
      BY <2>2, <3>1, <3>2, <3>3, <3>4 DEF DeliveryInv, NothingForgotten
  <2> QED
    BY <2>3, <2>4
<1>7. CASE UNCHANGED deliveryVars
  BY <1>7 DEF DeliveryInv, NothingForgotten, deliveryVars
<1> QED
  BY <1>1, <1>2, <1>3, <1>4, <1>5, <1>6, <1>7, DeliverySteps

\* Nothing pending is past the cursor, and nothing past the cursor was delivered.
LEMMA DeliveryCorrect == Spec => []DeliveryInv
<1>1. Init => DeliveryInv
  BY DEF Init, DeliveryInv, NothingForgotten, Ids
<1> QED
  BY <1>1, DeliveryStep, TypeCorrect, PTL DEF Spec

\* Whatever fails, what the group has handed out is pending, acked or trimmed.
THEOREM NeverForgets == Spec => []NothingForgotten
<1>1. DeliveryInv => NothingForgotten
  BY DEF DeliveryInv
<1> QED
  BY <1>1, DeliveryCorrect, PTL

-----------------------------------------------------------------------------
(* No event is acked before it is worked or recorded                       *)

WritesAreSafe == "deadLetterWrite" \notin Faults

\* What a replica has decided and not yet told Redis: it acks a batch once it
\* is worked but for what it dead-letters, and the poison once it is recorded;
\* only malformed events are dead-lettered by a handler, only exhausted ones
\* by the reclaim.
OutcomeOf(c) ==
  /\ pc[c] \in {"dead", "ack"} => batch[c] \subseteq done \cup dead[c]
  /\ pc[c] = "ack" /\ WritesAreSafe => dead[c] \subseteq deadLetters
  /\ pc[c] = "ackPoison" /\ WritesAreSafe => poison[c] \subseteq deadLetters
  /\ "permanentError" \notin Faults => dead[c] \subseteq Malformed
  /\ \A m \in poison[c] : times[m] > MaxDeliveryAttempts

OutcomeInv == \A c \in Consumers : OutcomeOf(c)

SafetyInv ==
  /\ WritesAreSafe => NoSilentLoss
  /\ HealthyEventsSurvive
  /\ OutcomeInv

\* Delivery counts, committed work and dead letters only grow.
LEMMA Growth ==
  ASSUME TypeOK, DeliveryInv, [Next]_vars
  PROVE  /\ \A m \in Ids : times'[m] >= times[m]
         /\ done \subseteq done'
         /\ deadLetters \subseteq deadLetters'
<1> USE ConsumerAssumption
<1>1. \A m \in Ids : times'[m] >= times[m]
  <2>1. CASE Publish
    BY <2>1 DEF Publish, TypeOK
  <2>2. CASE FlushRedis
    BY <2>2 DEF FlushRedis, TypeOK
  <2>3. ASSUME NEW c \in Consumers,
               \/ Start(c) \/ LookWithoutGroup(c) \/ ReadWithoutGroup(c)
               \/ AckPoison(c) \/ Ack(c)
        PROVE  UNCHANGED times
    BY <2>3 DEF Start, LookWithoutGroup, ReadWithoutGroup, AckPoison, Ack, Xack
  <2>4. ASSUME NEW c \in Consumers, Claim(c)
        PROVE  \A m \in Ids : times'[m] >= times[m]
    BY <2>4 DEF Claim, Redelivered, TypeOK
  <2>5. ASSUME NEW c \in Consumers, ReadNew(c)
        PROVE  \A m \in Ids : times'[m] >= times[m]
    <3> DEFINE first == Larger(cursor, trimmed) + 1
               last  == Smaller(published, first + BatchSize - 1)
               new   == first..last
    <3>1. times' = [m \in Ids |-> IF m \in new THEN 1 ELSE times[m]]
      BY <2>5 DEF ReadNew
    <3>2. first \in Nat /\ last \in Nat /\ first > cursor /\ first > trimmed
      BY NewIsInStream
    <3> HIDE DEF first, last
    <3>3. \A m \in Ids : m \in new => times[m] = 0
      BY <3>2 DEF DeliveryInv, TypeOK, Ids
    <3> QED
      BY <3>1, <3>3 DEF TypeOK
  <2>6. CASE UNCHANGED deliveryVars
    BY <2>6 DEF deliveryVars, TypeOK
  <2> QED
    BY <2>1, <2>2, <2>3, <2>4, <2>5, <2>6, DeliverySteps DEF TypeOK
<1>2. done \subseteq done' /\ deadLetters \subseteq deadLetters'
  <2> USE DEF dbVars
  <2>1. CASE Environment
    BY <2>1 DEF Environment, Publish, FlushRedis, GrowIdle
  <2>2. ASSUME NEW c \in Consumers, Lifecycle(c)
        PROVE  UNCHANGED dbVars
    BY <2>2 DEF Lifecycle, Start, RequestStop, Exit, Crash
  <2>3. ASSUME NEW c \in Consumers, Reclaim(c)
        PROVE  done \subseteq done' /\ deadLetters \subseteq deadLetters'
    BY <2>3 DEF Reclaim, LookAtPending, Exhausted, LookWithoutGroup, LookFails,
                DeadLetterPoison, WriteDeadLetters, AckPoison, AckPoisonFails,
                AfterPoison, Claim, Redelivered, ClaimFails
  <2>4. ASSUME NEW c \in Consumers, Read(c)
        PROVE  UNCHANGED dbVars
    BY <2>4 DEF Read, ReadNew, ReadWithoutGroup, ReadFails
  <2>5. ASSUME NEW c \in Consumers, ProcessBatch(c)
        PROVE  done \subseteq done' /\ deadLetters \subseteq deadLetters'
    BY <2>5 DEF ProcessBatch, Handle, Reject, RetryLockConflict, HandleFails,
                DeadLetter, WriteDeadLetters, Ack, AckFails, AfterBatch
  <2>6. CASE UNCHANGED vars
    BY <2>6 DEF vars
  <2> QED
    BY <2>1, <2>2, <2>3, <2>4, <2>5, <2>6 DEF Next
<1> QED
  BY <1>1, <1>2

localOf(c) == <<pc[c], poison[c], claimable[c], batch[c], dead[c]>>

\* A replica's step leaves the other replicas alone, and the environment's
\* steps leave all of them alone.
LEMMA OthersUnchanged ==
  ASSUME TypeOK, NEW c \in Consumers, NEW d \in Consumers, d # c,
         Lifecycle(c) \/ Reclaim(c) \/ Read(c) \/ ProcessBatch(c)
  PROVE  UNCHANGED localOf(d)
<1> USE DEF TypeOK, localOf, localVars, Goto
<1>1. CASE Lifecycle(c)
  BY <1>1 DEF Lifecycle, Start, RequestStop, Exit, Crash
<1>2. CASE Reclaim(c)
  BY <1>2 DEF Reclaim, LookAtPending, Exhausted, LookWithoutGroup, LookFails,
              DeadLetterPoison, AckPoison, AckPoisonFails, AfterPoison, Claim, Redelivered,
              ClaimFails
<1>3. CASE Read(c)
  BY <1>3 DEF Read, ReadNew, ReadWithoutGroup, ReadFails
<1>4. CASE ProcessBatch(c)
  BY <1>4 DEF ProcessBatch, Handle, Reject, RetryLockConflict, HandleFails,
              DeadLetter, Ack, AckFails, AfterBatch
<1> QED
  BY <1>1, <1>2, <1>3, <1>4

\* What was delivered too often stays so.
LEMMA PoisonStaysExhausted ==
  ASSUME TypeOK, DeliveryInv, [Next]_vars, NEW c \in Consumers, OutcomeOf(c),
         NEW m \in poison[c]
  PROVE  times'[m] > MaxDeliveryAttempts
<1>1. m \in Ids
  BY ConsumerAssumption DEF TypeOK, Ids
<1>2. times[m] \in Nat
  BY <1>1 DEF TypeOK
<1>3. times'[m] \in Nat
  BY <1>1, TypeStep DEF TypeOK
<1>4. times[m] > MaxDeliveryAttempts
  BY DEF OutcomeOf
<1>5. times'[m] >= times[m]
  BY <1>1, Growth
<1> QED
  BY <1>2, <1>3, <1>4, <1>5, ConsumerAssumption

\* A replica that does nothing keeps its outcome: counts, work and dead
\* letters only grow.
LEMMA OutcomeFrame ==
  ASSUME TypeOK, DeliveryInv, [Next]_vars, NEW c \in Consumers, OutcomeOf(c),
         UNCHANGED localOf(c)
  PROVE  OutcomeOf(c)'
<1>1. \A m \in poison[c] : times'[m] > MaxDeliveryAttempts
  BY PoisonStaysExhausted
<1> QED
  BY <1>1, Growth DEF OutcomeOf, localOf

\* A reclaim keeps the outcome the replica has noted of each event true.
LEMMA OutcomeOfReclaim ==
  ASSUME TypeOK, DeliveryInv, NEW c \in Consumers, Reclaim(c), OutcomeOf(c)
  PROVE  OutcomeOf(c)'
<1>0. \A m \in poison[c] : times'[m] > MaxDeliveryAttempts
  BY PoisonStaysExhausted DEF Next
<1> USE DEF TypeOK, OutcomeOf, Goto, dbVars
<1>1. CASE LookAtPending(c)
  BY <1>1 DEF LookAtPending, Exhausted, ClaimDue, redisVars
<1>2. CASE LookWithoutGroup(c)
  BY <1>0, <1>2 DEF LookWithoutGroup, ClaimDue
<1>3. CASE LookFails(c)
  BY <1>0, <1>3 DEF LookFails, ClaimDue
<1>4. CASE DeadLetterPoison(c)
  BY <1>0, <1>4 DEF DeadLetterPoison, WriteDeadLetters, WritesAreSafe
<1>5. CASE AckPoison(c) \/ AckPoisonFails(c)
  BY <1>5 DEF AckPoison, AckPoisonFails, AfterPoison
<1>6. CASE Claim(c)
  BY <1>0, <1>6 DEF Claim, Redelivered
<1>7. CASE ClaimFails(c)
  BY <1>0, <1>7 DEF ClaimFails
<1> QED
  BY <1>1, <1>2, <1>3, <1>4, <1>5, <1>6, <1>7 DEF Reclaim

\* So does the processing of a batch.
LEMMA OutcomeOfProcessBatch ==
  ASSUME TypeOK, NEW c \in Consumers, ProcessBatch(c), OutcomeOf(c)
  PROVE  OutcomeOf(c)'
<1> USE DEF TypeOK, OutcomeOf, Goto, dbVars, redisVars
<1>1. CASE Handle(c)
  BY <1>1 DEF Handle
<1>2. CASE Reject(c)
  BY <1>2 DEF Reject
<1>3. CASE RetryLockConflict(c)
  BY <1>3 DEF RetryLockConflict
<1>4. CASE HandleFails(c)
  BY <1>4 DEF HandleFails
<1>5. CASE DeadLetter(c)
  BY <1>5 DEF DeadLetter, WriteDeadLetters, WritesAreSafe
<1>6. CASE Ack(c)
  BY <1>6 DEF Ack, AfterBatch, Xack
<1>7. CASE AckFails(c)
  BY <1>7 DEF AckFails, AfterBatch
<1> QED
  BY <1>1, <1>2, <1>3, <1>4, <1>5, <1>6, <1>7 DEF ProcessBatch

\* So do a read and the start, stop or crash of the replica.
LEMMA OutcomeOfOther ==
  ASSUME TypeOK, DeliveryInv, NEW c \in Consumers, Lifecycle(c) \/ Read(c),
         OutcomeOf(c)
  PROVE  OutcomeOf(c)'
<1>0. \A m \in poison[c] : times'[m] > MaxDeliveryAttempts
  BY PoisonStaysExhausted DEF Next
<1> USE DEF TypeOK, OutcomeOf, Goto, dbVars, redisVars
<1>1. CASE Lifecycle(c)
  BY <1>0, <1>1 DEF Lifecycle, Start, RequestStop, Exit, Crash
<1>2. CASE Read(c)
  BY <1>0, <1>2 DEF Read, ReadNew, ReadWithoutGroup, ReadFails
<1> QED
  BY <1>1, <1>2

\* No step makes an outcome noted by any replica false.
LEMMA OutcomeStep ==
  TypeOK /\ DeliveryInv /\ OutcomeInv /\ [Next]_vars => OutcomeInv'
<1> SUFFICES ASSUME TypeOK, DeliveryInv, OutcomeInv, [Next]_vars,
                    NEW d \in Consumers
             PROVE  OutcomeOf(d)'
  BY DEF OutcomeInv
<1>0. OutcomeOf(d)
  BY DEF OutcomeInv
<1>1. CASE Environment
  BY <1>0, <1>1, OutcomeFrame DEF Environment, Publish, FlushRedis, GrowIdle,
     localOf, localVars
<1>2. ASSUME NEW c \in Consumers,
             Lifecycle(c) \/ Reclaim(c) \/ Read(c) \/ ProcessBatch(c)
      PROVE  OutcomeOf(d)'
  <2>1. CASE d # c
    BY <1>0, <1>2, <2>1, OthersUnchanged, OutcomeFrame
  <2>2. CASE d = c
    BY <1>0, <1>2, <2>2, OutcomeOfReclaim, OutcomeOfProcessBatch, OutcomeOfOther
  <2> QED
    BY <2>1, <2>2
<1>3. CASE UNCHANGED vars
  BY <1>0, <1>3, OutcomeFrame DEF vars, localOf, localVars
<1> QED
  BY <1>1, <1>2, <1>3 DEF Next

\* Only XACK grows acked, by what its replica has settled.
LEMMA AckedStep ==
  ASSUME TypeOK, DeliveryInv, SafetyInv, [Next]_vars
  PROVE  /\ WritesAreSafe => acked' \subseteq acked \cup done \cup deadLetters
         /\ "permanentError" \notin Faults =>
               \A m \in acked' \ (acked \cup Malformed) :
                 times'[m] <= MaxDeliveryAttempts => m \in done
<1> USE DEF SafetyInv, OutcomeInv, OutcomeOf
<1>1. CASE Publish \/ FlushRedis
  BY <1>1 DEF Publish, FlushRedis
<1>2. ASSUME NEW c \in Consumers,
             \/ Start(c) \/ LookWithoutGroup(c) \/ ReadWithoutGroup(c)
             \/ Claim(c) \/ ReadNew(c)
      PROVE  UNCHANGED acked
  BY <1>2 DEF Start, LookWithoutGroup, ReadWithoutGroup, Claim, Redelivered, ReadNew
<1>3. ASSUME NEW c \in Consumers, AckPoison(c)
      PROVE  /\ WritesAreSafe => acked' \subseteq acked \cup deadLetters
             /\ \A m \in acked' \ acked : ~(times'[m] <= MaxDeliveryAttempts)
  <2>1. /\ acked' \subseteq acked \cup poison[c]
        /\ pc[c] = "ackPoison" /\ UNCHANGED times
    BY <1>3 DEF AckPoison, AfterPoison, Xack
  <2>2. \A m \in poison[c] : times[m] \in Nat
    BY ConsumerAssumption DEF TypeOK, Ids
  <2> QED
    BY <2>1, <2>2, ConsumerAssumption
<1>4. ASSUME NEW c \in Consumers, Ack(c)
      PROVE  /\ WritesAreSafe => acked' \subseteq acked \cup done \cup deadLetters
             /\ "permanentError" \notin Faults =>
                  acked' \subseteq acked \cup done \cup Malformed
  <2>1. acked' \subseteq acked \cup batch[c] /\ pc[c] = "ack"
    BY <1>4 DEF Ack, AfterBatch, Xack
  <2> QED
    BY <2>1
<1>5. CASE UNCHANGED deliveryVars
  BY <1>5 DEF deliveryVars
<1> QED
  BY <1>1, <1>2, <1>3, <1>4, <1>5, DeliverySteps

\* The invariant of acks: work or a dead letter first.
LEMMA SafetyCorrect == Spec => []SafetyInv
<1>1. Init => SafetyInv
  BY DEF Init, SafetyInv, NoSilentLoss, HealthyEventsSurvive, OutcomeInv,
         OutcomeOf
<1>2. TypeOK /\ DeliveryInv /\ SafetyInv /\ [Next]_vars => SafetyInv'
  <2> SUFFICES ASSUME TypeOK, DeliveryInv, SafetyInv, [Next]_vars
               PROVE  SafetyInv'
    OBVIOUS
  <2>1. WritesAreSafe => NoSilentLoss'
    BY AckedStep, Growth DEF SafetyInv, NoSilentLoss
  <2>2. HealthyEventsSurvive'
    <3> SUFFICES ASSUME "permanentError" \notin Faults,
                        NEW m \in acked' \ Malformed,
                        times'[m] <= MaxDeliveryAttempts
                 PROVE  m \in done'
      BY DEF HealthyEventsSurvive
    <3>1. CASE m \in acked
      <4>1. m \in Ids /\ times[m] \in Nat /\ times'[m] \in Nat
        BY <3>1, TypeStep, ConsumerAssumption DEF TypeOK, Ids
      <4>2. times[m] <= MaxDeliveryAttempts
        BY <4>1, Growth, ConsumerAssumption
      <4> QED
        BY <3>1, <4>2, Growth DEF SafetyInv, HealthyEventsSurvive
    <3>2. CASE m \notin acked
      BY <3>2, AckedStep, Growth
    <3> QED
      BY <3>1, <3>2
  <2>3. OutcomeInv'
    BY OutcomeStep DEF SafetyInv
  <2> QED
    BY <2>1, <2>2, <2>3 DEF SafetyInv, WritesAreSafe
<1> QED
  BY <1>1, <1>2, TypeCorrect, DeliveryCorrect, PTL DEF Spec

\* With a database that takes its dead letters, no event is acked before its
\* work is committed or it is recorded as a dead letter.
THEOREM AtLeastOnce ==
  ASSUME WritesAreSafe
  PROVE  Spec => []NoSilentLoss
<1>1. SafetyInv => NoSilentLoss
  BY DEF SafetyInv
<1> QED
  BY <1>1, SafetyCorrect, PTL

\* Under every set of faults an event that parses and stays under the delivery
\* ceiling is acked only once its work is committed.
THEOREM HealthySurvive == Spec => []HealthyEventsSurvive
<1>1. SafetyInv => HealthyEventsSurvive
  BY DEF SafetyInv
<1> QED
  BY <1>1, SafetyCorrect, PTL

-----------------------------------------------------------------------------
(* Implementation of EventDelivery                                         *)

\* Every step of the replicas is a step of the group, or invisible to it.
LEMMA StepImplements ==
  ASSUME WritesAreSafe, TypeOK, SafetyInv, [Next]_vars
  PROVE  [Delivery!Next]_(Delivery!vars)
<1> USE DEF Delivery!vars, redisVars, dbVars
<1> DEFINE visible == <<published, trimmed, done, deadLetters, acked>>
<1>1. CASE Environment
  <2>1. CASE Publish
    BY <1>1, <2>1 DEF Publish, Delivery!Next, Delivery!Append
  <2>2. CASE FlushRedis
    BY <1>1, <2>2 DEF FlushRedis, Delivery!Next, Delivery!Flush
  <2>3. CASE \E m \in Ids : GrowIdle(m)
    BY <2>3 DEF GrowIdle
  <2> QED
    BY <1>1, <2>1, <2>2, <2>3 DEF Environment
<1>2. ASSUME NEW c \in Consumers,
             Handle(c) \/ HandleFails(c)
      PROVE  [Delivery!Next]_(Delivery!vars)
  <2>1. batch[c] \ Malformed \in SUBSET (1..published)
    BY DEF TypeOK
  <2>2. /\ UNCHANGED done \/ done' = done \cup (batch[c] \ Malformed)
        /\ UNCHANGED <<published, trimmed, deadLetters, acked>>
    BY <1>2 DEF Handle, HandleFails
  <2> QED
    BY <2>1, <2>2 DEF Delivery!Next, Delivery!Work
<1>3. ASSUME NEW c \in Consumers,
             DeadLetterPoison(c) \/ DeadLetter(c)
      PROVE  [Delivery!Next]_(Delivery!vars)
  <2>1. PICK S \in SUBSET (1..published) : deadLetters' = deadLetters \cup S
    BY <1>3 DEF TypeOK, DeadLetterPoison, DeadLetter, WriteDeadLetters,
                WritesAreSafe
  <2>2. UNCHANGED <<published, trimmed, done, acked>>
    BY <1>3 DEF DeadLetterPoison, DeadLetter
  <2> QED
    BY <2>1, <2>2 DEF Delivery!Next, Delivery!Record
<1>4. ASSUME NEW c \in Consumers,
             AckPoison(c) \/ Ack(c)
      PROVE  [Delivery!Next]_(Delivery!vars)
  <2>1. PICK S \in SUBSET (1..published) :
          /\ S \subseteq done \cup deadLetters
          /\ acked' = acked \cup S
    <3>1. CASE AckPoison(c)
      <4>1. /\ poison[c] \subseteq deadLetters
            /\ acked' = acked \cup (poison[c] \cap pel)
        BY <3>1 DEF SafetyInv, OutcomeInv, OutcomeOf, AckPoison, AfterPoison,
                    Xack
      <4> QED
        BY <4>1 DEF TypeOK
    <3>2. CASE Ack(c)
      <4>1. /\ batch[c] \subseteq done \cup deadLetters
            /\ acked' = acked \cup (batch[c] \cap pel)
        BY <3>2 DEF SafetyInv, OutcomeInv, OutcomeOf, Ack, AfterBatch, Xack
      <4> QED
        BY <4>1 DEF TypeOK
    <3> QED
      BY <1>4, <3>1, <3>2
  <2>2. UNCHANGED <<published, trimmed, done, deadLetters>>
    BY <1>4 DEF AckPoison, AfterPoison, Ack, AfterBatch, Xack
  <2> QED
    BY <2>1, <2>2 DEF Delivery!Next, Delivery!Settle
<1>5. ASSUME NEW c \in Consumers,
             \/ Lifecycle(c) \/ Read(c)
             \/ LookAtPending(c) \/ LookWithoutGroup(c) \/ LookFails(c)
             \/ AckPoisonFails(c) \/ Claim(c) \/ ClaimFails(c)
             \/ Reject(c) \/ RetryLockConflict(c) \/ AckFails(c)
      PROVE  UNCHANGED Delivery!vars
  BY <1>5 DEF Lifecycle, Start, RequestStop, Exit, Crash, Read, ReadNew,
              ReadWithoutGroup, ReadFails, LookAtPending, Exhausted, LookWithoutGroup,
              LookFails, AckPoisonFails, AfterPoison, Claim, Redelivered, ClaimFails, Reject,
              RetryLockConflict, AckFails, AfterBatch
<1>6. CASE UNCHANGED vars
  BY <1>6 DEF vars
<1> QED
  BY <1>1, <1>2, <1>3, <1>4, <1>5, <1>6 DEF Next, Reclaim, ProcessBatch

\* The replicas implement what the group promises, when the database takes the
\* dead letters.
THEOREM ImplementsDelivery ==
  ASSUME WritesAreSafe
  PROVE  Spec => DeliverySpec
<1>1. Init => Delivery!Init
  BY DEF Init, Delivery!Init
<1>2. TypeOK /\ SafetyInv /\ [Next]_vars => [Delivery!Next]_(Delivery!vars)
  BY StepImplements
<1> QED
  BY <1>1, <1>2, TypeCorrect, SafetyCorrect, PTL
     DEF Spec, DeliverySpec, Delivery!Spec

-----------------------------------------------------------------------------
(* The delivery ceiling                                                    *)

\* The replicas that have decided to claim an event.
Claimers(m) == {c \in Consumers : m \in claimable[c]}

\* Beyond the ceiling no replica decides to claim an event any more, so that
\* each of those that already have can add one delivery and no more.
CeilingInv ==
  \A m \in Ids : times[m] > MaxDeliveryAttempts =>
    times[m] + Cardinality(Claimers(m))
      <= MaxDeliveryAttempts + Cardinality(Consumers)

\* Sets of replicas are finite, and as large as their parts allow.
LEMMA ReplicaCounts ==
  /\ Cardinality(Consumers) \in Nat
  /\ \A S \in SUBSET Consumers :
       IsFiniteSet(S) /\ Cardinality(S) \in Nat
       /\ Cardinality(S) <= Cardinality(Consumers)
  /\ \A S, T \in SUBSET Consumers :
       S \subseteq T => Cardinality(S) <= Cardinality(T)
  /\ \A S \in SUBSET Consumers : \A c \in S :
       Cardinality(S \ {c}) = Cardinality(S) - 1
  /\ \A S \in SUBSET Consumers : \A c \in Consumers \ S :
       Cardinality(S \cup {c}) = Cardinality(S) + 1
BY FS_Subset, FS_CardinalityType, FS_RemoveElement, FS_AddElement,
   ConsumerAssumption

\* A step that neither counts a delivery of m nor adds a claimer keeps it.
LEMMA CeilingFrame ==
  ASSUME CeilingInv, TypeOK, TypeOK', NEW m \in Ids,
         times'[m] = times[m] \/ times'[m] <= MaxDeliveryAttempts,
         times[m] > MaxDeliveryAttempts => Claimers(m)' \subseteq Claimers(m)
  PROVE  times'[m] > MaxDeliveryAttempts =>
           times'[m] + Cardinality(Claimers(m)')
             <= MaxDeliveryAttempts + Cardinality(Consumers)
<1> SUFFICES ASSUME times'[m] > MaxDeliveryAttempts
             PROVE  times'[m] + Cardinality(Claimers(m)')
                      <= MaxDeliveryAttempts + Cardinality(Consumers)
  OBVIOUS
<1>1. times[m] \in Nat /\ times'[m] \in Nat
  BY DEF TypeOK
<1>2. times'[m] = times[m] /\ times[m] > MaxDeliveryAttempts
  BY <1>1, ConsumerAssumption
<1>3. /\ Claimers(m) \in SUBSET Consumers /\ Claimers(m)' \in SUBSET Consumers
  BY DEF Claimers
<1>4. /\ Cardinality(Claimers(m)') <= Cardinality(Claimers(m))
      /\ Cardinality(Claimers(m)') \in Nat /\ Cardinality(Claimers(m)) \in Nat
      /\ Cardinality(Consumers) \in Nat
  BY <1>2, <1>3, ReplicaCounts
<1>5. times[m] + Cardinality(Claimers(m))
        <= MaxDeliveryAttempts + Cardinality(Consumers)
  BY <1>2 DEF CeilingInv
<1> QED
  BY <1>1, <1>2, <1>4, <1>5, ConsumerAssumption

\* XCLAIM: one delivery more, one claimer less.
LEMMA CeilingClaim ==
  ASSUME CeilingInv, TypeOK, TypeOK', NEW c \in Consumers, Claim(c)
  PROVE  CeilingInv'
<1> DEFINE gone == {m \in claimable[c] \cap pel : m <= trimmed}
           got  == (claimable[c] \cap idle) \ gone
<1>1. /\ times' = [m \in Ids |-> IF m \in got THEN times[m] + 1 ELSE times[m]]
      /\ claimable' = [claimable EXCEPT ![c] = {}]
  BY DEF Claim, Redelivered
<1>2. got \subseteq claimable[c]
  OBVIOUS
<1> HIDE DEF gone, got
<1>3. SUFFICES ASSUME NEW m \in Ids, times'[m] > MaxDeliveryAttempts
               PROVE  times'[m] + Cardinality(Claimers(m)')
                        <= MaxDeliveryAttempts + Cardinality(Consumers)
  BY DEF CeilingInv
<1>4. Claimers(m)' = Claimers(m) \ {c}
  BY <1>1 DEF Claimers, TypeOK
<1>5. CASE m \notin got
  BY <1>1, <1>3, <1>4, <1>5, CeilingFrame
<1>6. CASE m \in got
  <2>1. c \in Claimers(m) /\ Claimers(m) \in SUBSET Consumers
    BY <1>2, <1>6 DEF Claimers
  <2>2. /\ Cardinality(Claimers(m)') = Cardinality(Claimers(m)) - 1
        /\ Cardinality(Claimers(m)) \in Nat /\ Cardinality(Consumers) \in Nat
        /\ Cardinality(Claimers(m)) <= Cardinality(Consumers)
    BY <1>4, <2>1, ReplicaCounts
  <2>3. times'[m] = times[m] + 1 /\ times[m] \in Nat
    BY <1>1, <1>6 DEF TypeOK
  <2>4. CASE times[m] > MaxDeliveryAttempts
    <3>1. times[m] + Cardinality(Claimers(m))
            <= MaxDeliveryAttempts + Cardinality(Consumers)
      BY <2>4 DEF CeilingInv
    <3> QED
      BY <2>2, <2>3, <3>1, ConsumerAssumption
  <2>5. CASE times[m] = MaxDeliveryAttempts
    BY <2>2, <2>3, <2>5, ConsumerAssumption
  <2> QED
    BY <1>3, <2>3, <2>4, <2>5, ConsumerAssumption
<1> QED
  BY <1>5, <1>6

\* A claim past the ceiling uses up the claim of one replica that had looked before.
LEMMA CeilingStep ==
  TypeOK /\ CeilingInv /\ [Next]_vars => CeilingInv'
<1> SUFFICES ASSUME TypeOK, CeilingInv, [Next]_vars PROVE CeilingInv'
  OBVIOUS
<1>0. TypeOK'
  BY TypeStep
<1>1. ASSUME UNCHANGED times,
             \A m \in Ids : times[m] > MaxDeliveryAttempts =>
               Claimers(m)' \subseteq Claimers(m)
      PROVE  CeilingInv'
  BY <1>0, <1>1, CeilingFrame DEF CeilingInv
<1>2. ASSUME UNCHANGED <<times, claimable>>
      PROVE  CeilingInv'
  BY <1>1, <1>2 DEF Claimers
<1>3. CASE Environment
  BY <1>2, <1>3 DEF Environment, Publish, FlushRedis, GrowIdle, localVars
<1>4. ASSUME NEW c \in Consumers, Lifecycle(c)
      PROVE  CeilingInv'
  <2>1. CASE Crash(c)
    BY <1>1, <2>1 DEF Crash, redisVars, Claimers, TypeOK
  <2>2. CASE Start(c) \/ RequestStop(c) \/ Exit(c)
    BY <1>2, <2>2 DEF Start, RequestStop, Exit, redisVars
  <2> QED
    BY <1>4, <2>1, <2>2 DEF Lifecycle
<1>5. ASSUME NEW c \in Consumers, Reclaim(c)
      PROVE  CeilingInv'
  <2>1. CASE LookAtPending(c)
    <3> DEFINE page == FirstPage(pel, BatchSize)
    <3>1. /\ UNCHANGED times
          /\ \A d \in Consumers \ {c} : claimable'[d] = claimable[d]
          /\ \A m \in claimable'[c] :
               m \in page /\ ~(times[m] > MaxDeliveryAttempts)
      BY <2>1 DEF LookAtPending, Exhausted, redisVars, TypeOK
    <3> QED
      BY <1>1, <3>1 DEF Claimers
  <2>2. CASE Claim(c)
    BY <1>0, <2>2, CeilingClaim
  <2>3. CASE ClaimFails(c)
    BY <1>1, <2>3 DEF ClaimFails, redisVars, Claimers, TypeOK
  <2>4. CASE \/ LookWithoutGroup(c) \/ LookFails(c) \/ DeadLetterPoison(c)
             \/ AckPoison(c) \/ AckPoisonFails(c)
    BY <1>2, <2>4 DEF LookWithoutGroup, LookFails, DeadLetterPoison, AckPoison,
       AckPoisonFails, AfterPoison, Xack, redisVars
  <2> QED
    BY <1>5, <2>1, <2>2, <2>3, <2>4 DEF Reclaim
<1>6. ASSUME NEW c \in Consumers, Read(c)
      PROVE  CeilingInv'
  <2>1. CASE ReadNew(c)
    <3>1. UNCHANGED claimable
      BY <2>1 DEF ReadNew
    <3>2. ASSUME NEW m \in Ids
          PROVE  times'[m] = times[m] \/ times'[m] <= MaxDeliveryAttempts
      BY <2>1, ConsumerAssumption DEF ReadNew
    <3> QED
      BY <1>0, <3>1, <3>2, CeilingFrame DEF CeilingInv, Claimers
  <2>2. CASE ReadWithoutGroup(c) \/ ReadFails(c)
    BY <1>2, <2>2 DEF ReadWithoutGroup, ReadFails, redisVars
  <2> QED
    BY <1>6, <2>1, <2>2 DEF Read
<1>7. ASSUME NEW c \in Consumers, ProcessBatch(c)
      PROVE  CeilingInv'
  BY <1>2, <1>7 DEF ProcessBatch, Handle, Reject, RetryLockConflict, HandleFails,
     DeadLetter, Ack, AckFails, AfterBatch, Xack, redisVars
<1>8. CASE UNCHANGED vars
  BY <1>2, <1>8 DEF vars, redisVars, localVars
<1> QED
  BY <1>3, <1>4, <1>5, <1>6, <1>7, <1>8 DEF Next

\* Never infinitely: no event is delivered more often than the ceiling and one
\* time more per replica, however many replicas fail on it and for how long.
THEOREM NeverInfinitely == Spec => []BoundedDelivery
<1>1. Init => CeilingInv
  BY ConsumerAssumption DEF Init, CeilingInv
<1>2. TypeOK /\ CeilingInv => BoundedDelivery
  <2> SUFFICES ASSUME TypeOK, CeilingInv, NEW m \in Ids
               PROVE  times[m] <= MaxDeliveryAttempts + Cardinality(Consumers)
    BY DEF BoundedDelivery
  <2>1. Claimers(m) \in SUBSET Consumers
    BY DEF Claimers
  <2>2. /\ times[m] \in Nat /\ Cardinality(Claimers(m)) \in Nat
        /\ Cardinality(Consumers) \in Nat
    BY <2>1, ReplicaCounts DEF TypeOK
  <2> QED
    BY <2>2, ConsumerAssumption DEF CeilingInv
<1> QED
  BY <1>1, <1>2, CeilingStep, TypeCorrect, PTL DEF Spec
==============================================================================
