---------------------------- MODULE EventDelivery ----------------------------
(***************************************************************************)
(* What one consumer group of the platform promises about the events of    *)
(* the stream, with no consumers, batches, claims or delivery counts in    *)
(* sight: an event is settled only once its work has been committed or it  *)
(* has been recorded as a dead letter, and what is settled, worked or      *)
(* recorded stays so.  StreamConsumer implements this specification.       *)
(***************************************************************************)
EXTENDS Naturals

CONSTANT MaxEvents          \* bound on the events ever published

VARIABLES
  published,                \* events 1 .. published have been appended
  trimmed,                  \* events 1 .. trimmed are gone from the stream
  done,                     \* events whose work has been committed
  recorded,                 \* events with a row in dead_letters
  settled                   \* events the group has acknowledged

vars == <<published, trimmed, done, recorded, settled>>

Ids == 1..MaxEvents

Init ==
  /\ published = 0
  /\ trimmed = 0
  /\ done = {}
  /\ recorded = {}
  /\ settled = {}

\* The stream grows at its end and loses entries only at its head.
Append ==
  /\ published < MaxEvents
  /\ published' = published + 1
  /\ trimmed' \in trimmed..published'
  /\ UNCHANGED <<done, recorded, settled>>

\* The server is flushed: every entry it held is gone.
Flush ==
  /\ trimmed' = published
  /\ UNCHANGED <<published, done, recorded, settled>>

\* Work is committed for some events; it may be committed again, and it may
\* be committed for an event another consumer has settled already.
Work(S) ==
  /\ done' = done \cup S
  /\ UNCHANGED <<published, trimmed, recorded, settled>>

Record(S) ==
  /\ recorded' = recorded \cup S
  /\ UNCHANGED <<published, trimmed, done, settled>>

\* Only what has been worked or recorded is acknowledged.
Settle(S) ==
  /\ S \subseteq done \cup recorded
  /\ settled' = settled \cup S
  /\ UNCHANGED <<published, trimmed, done, recorded>>

Next ==
  \/ Append
  \/ Flush
  \/ \E S \in SUBSET (1..published) : Work(S) \/ Record(S) \/ Settle(S)

Spec == Init /\ [][Next]_vars
==============================================================================
