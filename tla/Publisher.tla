------------------------------- MODULE Publisher -------------------------------
(***************************************************************************)
(* obs_sdk/publisher.py: RedisStreamPublisher in the application's         *)
(* processes.  publish() puts an event on a bounded queue; one daemon      *)
(* thread moves events from the queue to a local batch and the batch to    *)
(* Redis in one pipeline, and drops the batch when Redis cannot be         *)
(* reached; flush() polls until everything is out; close() flushes, stops  *)
(* the thread and drops the connection; a forked child starts afresh.  A   *)
(* process that ends takes its thread, and what that still had, with it.   *)
(*                                                                         *)
(* Any thread may publish at any moment.  A process has at most one thread *)
(* that flushes, one that closes.  Their waits may time out at any moment. *)
(***************************************************************************)
EXTENDS Naturals, Sequences, FiniteSets, Functions

CONSTANTS
  Procs,          \* the processes of the application
  First,          \* the one that imports the SDK; the others are forked
  MaxEvents,      \* bound: calls of publish()
  QueueSize,      \* config.queue_size
  BatchSize,      \* config.batch_size
  Faults,         \* what may go wrong: connect, execute, kill
  Flushers,       \* the processes with a thread that calls flush()
  None            \* nobody

Events == 1..MaxEvents

ASSUME PublisherAssumption ==
  /\ First \in Procs /\ None \notin Procs /\ Flushers \subseteq Procs
  /\ MaxEvents \in Nat
  /\ QueueSize \in Nat \ {0} /\ BatchSize \in Nat \ {0}
  /\ Faults \subseteq {"connect", "execute", "kill"}

VARIABLES
  called,         \* calls of publish() so far; an event is named by its call
  by,             \* history: who published the event, if it was accepted
  early,          \* history: accepted before close() was called
  \* each process
  alive,
  ended,          \* the processes that are no more
  queue,          \* _queue
  batch,          \* the drain thread's local batch
  inFlight,       \* _in_flight
  connected,      \* _client is not None
  drain,          \* what the drain thread is about to do
  stop, closed,   \* _stop, _closed
  flusher,        \* what the flushing thread is about to look at
  covers,         \* history: the events accepted when its flush() was called
  closer,         \* where close() is
  \* outcomes
  stream,         \* what Redis has appended
  published,      \* history: counted in stats.published
  dropped,        \* history: counted in stats.dropped_error
  flushed,        \* history: covered by a flush() that returned True
  sender,         \* history: who sent what
  lost,           \* history: events that went with the memory of their process
  cut             \* history: the processes that ended under a working thread

threadVars == <<alive, queue, batch, inFlight, connected, drain, stop, closed,
                flusher, covers, closer>>
endVars == <<ended, lost, cut>>
outcomeVars == <<stream, published, dropped, flushed, sender, endVars>>
vars == <<called, by, early, threadVars, outcomeVars>>

Init ==
  /\ called = 0
  /\ by = [m \in Events |-> None]
  /\ early = {}
  /\ alive = [p \in Procs |-> p = First]
  /\ queue = [p \in Procs |-> <<>>]
  /\ batch = [p \in Procs |-> <<>>]
  /\ inFlight = [p \in Procs |-> 0]
  /\ connected = [p \in Procs |-> FALSE]
  /\ drain = [p \in Procs |-> IF p = First THEN "take" ELSE "none"]
  /\ stop = [p \in Procs |-> FALSE]
  /\ closed = [p \in Procs |-> FALSE]
  /\ flusher = [p \in Procs |-> "idle"]
  /\ covers = [p \in Procs |-> {}]
  /\ closer = [p \in Procs |-> "open"]
  /\ stream = <<>>
  /\ published = {}
  /\ dropped = {}
  /\ flushed = {}
  /\ sender = [m \in Events |-> {}]
  /\ ended = {} /\ lost = {} /\ cut = {}

Accepted(p) == {m \in Events : by[m] = p}

-----------------------------------------------------------------------------
(* publish()                                                               *)

Full(p) == Len(queue[p]) >= QueueSize

\* put_nowait: False when the queue is full, whatever the state of the thread.
Publish(p) ==
  /\ alive[p]
  /\ called < MaxEvents
  /\ called' = called + 1
  /\ IF Full(p)
     THEN UNCHANGED <<queue, by, early>>
     ELSE /\ queue' = [queue EXCEPT ![p] = Append(@, called')]
          /\ by' = [by EXCEPT ![called'] = p]
          /\ early' = IF closed[p] THEN early ELSE early \cup {called'}
  /\ UNCHANGED <<alive, batch, inFlight, connected, drain, stop, closed,
                 flusher, covers, closer, outcomeVars>>

-----------------------------------------------------------------------------
(* The drain thread                                                        *)

\* _drain_batch takes one more event.
Take(p) ==
  /\ drain[p] = "take"
  /\ queue[p] # <<>>
  /\ Len(batch[p]) < BatchSize
  /\ batch' = [batch EXCEPT ![p] = Append(@, Head(queue[p]))]
  /\ queue' = [queue EXCEPT ![p] = Tail(@)]
  /\ UNCHANGED <<called, by, early, alive, inFlight, connected, drain, stop,
                 closed, flusher, covers, closer, outcomeVars>>

\* The batch is full, the queue empty or the flush interval over; only now is
\* the batch in flight.
TakenAll(p) ==
  /\ drain[p] = "take"
  /\ batch[p] # <<>>
  /\ inFlight' = [inFlight EXCEPT ![p] = Len(batch[p])]
  /\ drain' = [drain EXCEPT ![p] = "connect"]
  /\ UNCHANGED <<called, by, early, alive, queue, batch, connected, stop,
                 closed, flusher, covers, closer, outcomeVars>>

\* MUTANT: the thread ends as soon as it is told to.
ExitAtOnce(p) ==
  /\ drain[p] = "take"
  /\ batch[p] = <<>>
  /\ stop[p]
  /\ drain' = [drain EXCEPT ![p] = "none"]
  /\ UNCHANGED <<called, by, early, alive, queue, batch, inFlight, connected,
                 stop, closed, flusher, covers, closer, outcomeVars>>

\* The condition of the loop, between two batches.
Exit(p) ==
  /\ drain[p] = "take"
  /\ batch[p] = <<>>
  /\ stop[p] /\ queue[p] = <<>>
  /\ drain' = [drain EXCEPT ![p] = "none"]
  /\ UNCHANGED <<called, by, early, alive, queue, batch, inFlight, connected,
                 stop, closed, flusher, covers, closer, outcomeVars>>

\* _get_client: the connection there is, or a new one.
Connect(p) ==
  /\ drain[p] = "connect"
  /\ connected' = [connected EXCEPT ![p] = TRUE]
  /\ drain' = [drain EXCEPT ![p] = "execute"]
  /\ UNCHANGED <<called, by, early, alive, queue, batch, inFlight, stop,
                 closed, flusher, covers, closer, outcomeVars>>

\* MUTANT: the batch goes back to the end of the queue.
Requeue(p) ==
  /\ queue' = [queue EXCEPT ![p] = @ \o batch[p]]
  /\ batch' = [batch EXCEPT ![p] = <<>>]
  /\ inFlight' = [inFlight EXCEPT ![p] = 0]
  /\ drain' = [drain EXCEPT ![p] = "backoff"]
  /\ UNCHANGED dropped

\* MUTANT: the batch is dropped without counting it.
DropUncounted(p) ==
  /\ batch' = [batch EXCEPT ![p] = <<>>]
  /\ inFlight' = [inFlight EXCEPT ![p] = 0]
  /\ drain' = [drain EXCEPT ![p] = "backoff"]
  /\ UNCHANGED <<queue, dropped>>

\* Rather than grow memory without bound.
DropBatch(p) ==
  /\ dropped' = dropped \cup Range(batch[p])
  /\ batch' = [batch EXCEPT ![p] = <<>>]
  /\ inFlight' = [inFlight EXCEPT ![p] = 0]
  /\ drain' = [drain EXCEPT ![p] = "backoff"]
  /\ UNCHANGED queue

ConnectFails(p) ==
  /\ "connect" \in Faults
  /\ drain[p] = "connect"
  /\ ~connected[p]
  /\ DropBatch(p)
  /\ UNCHANGED <<called, by, early, alive, connected, stop, closed, flusher,
                 covers, closer, stream, published, flushed, sender, endVars>>

\* What the server may have run of a pipeline when the answer does not come.
Prefixes(sent) == {SubSeq(sent, 1, n) : n \in 0..Len(sent)}

Sent(p, landed) ==
  /\ stream' = stream \o landed
  /\ sender' = [m \in Events |->
       IF m \in Range(landed) THEN sender[m] \cup {p} ELSE sender[m]]

\* pipe.execute() returns, at once or after the client has sent the pipeline
\* again (retry_on_timeout).
Execute(p) ==
  /\ drain[p] = "execute"
  /\ \E before \in Prefixes(batch[p]) :
       /\ before = <<>> \/ "execute" \in Faults
       /\ Sent(p, before \o batch[p])
  /\ published' = published \cup Range(batch[p])
  /\ batch' = [batch EXCEPT ![p] = <<>>]
  /\ inFlight' = [inFlight EXCEPT ![p] = 0]
  /\ drain' = [drain EXCEPT ![p] = "take"]
  /\ UNCHANGED <<called, by, early, alive, queue, connected, stop, closed,
                 flusher, covers, closer, dropped, flushed, endVars>>

\* pipe.execute() raises: all of the batch is counted as dropped.
ExecuteFails(p) ==
  /\ drain[p] = "execute"
  /\ "execute" \in Faults \/ ~connected[p]
  /\ \E first, again \in Prefixes(batch[p]) : Sent(p, first \o again)
  /\ DropBatch(p)
  /\ connected' = [connected EXCEPT ![p] = FALSE]
  /\ UNCHANGED <<called, by, early, alive, stop, closed, flusher, covers,
                 closer, published, flushed, endVars>>

\* time.sleep(self._backoff)
BackoffOver(p) ==
  /\ drain[p] = "backoff"
  /\ drain' = [drain EXCEPT ![p] = "take"]
  /\ UNCHANGED <<called, by, early, alive, queue, batch, inFlight, connected,
                 stop, closed, flusher, covers, closer, outcomeVars>>

-----------------------------------------------------------------------------
(* flush()                                                                 *)

Flush(p) ==
  /\ p \in Flushers
  /\ alive[p]
  /\ flusher[p] = "idle"
  /\ flusher' = [flusher EXCEPT ![p] = "queue"]
  /\ covers' = [covers EXCEPT ![p] = Accepted(p)]
  /\ UNCHANGED <<called, by, early, alive, queue, batch, inFlight, connected,
                 drain, stop, closed, closer, outcomeVars>>

\* queue.empty() is evaluated first, _in_flight == 0 only then.
FlushSeesQueueEmpty(p) ==
  /\ flusher[p] = "queue"
  /\ queue[p] = <<>>
  /\ flusher' = [flusher EXCEPT ![p] = "inFlight"]
  /\ UNCHANGED <<called, by, early, alive, queue, batch, inFlight, connected,
                 drain, stop, closed, covers, closer, outcomeVars>>

FlushReturns(p) ==
  /\ flusher[p] = "inFlight"
  /\ inFlight[p] = 0
  /\ flushed' = flushed \cup covers[p]
  /\ flusher' = [flusher EXCEPT ![p] = "idle"]
  /\ covers' = [covers EXCEPT ![p] = {}]
  /\ UNCHANGED <<called, by, early, alive, queue, batch, inFlight, connected,
                 drain, stop, closed, closer, stream, published, dropped, sender,
                 endVars>>

\* It sleeps and looks again, or its time is over and it returns False.
FlushWaits(p) ==
  /\ flusher[p] = "inFlight"
  /\ inFlight[p] # 0
  /\ flusher' = [flusher EXCEPT ![p] = "queue"]
  /\ UNCHANGED <<called, by, early, alive, queue, batch, inFlight, connected,
                 drain, stop, closed, covers, closer, outcomeVars>>

FlushTimesOut(p) ==
  /\ flusher[p] = "queue"
  /\ flusher' = [flusher EXCEPT ![p] = "idle"]
  /\ covers' = [covers EXCEPT ![p] = {}]
  /\ UNCHANGED <<called, by, early, alive, queue, batch, inFlight, connected,
                 drain, stop, closed, closer, outcomeVars>>

-----------------------------------------------------------------------------
(* close() and fork                                                        *)

Close(p) ==
  /\ alive[p]
  /\ ~closed[p]
  /\ closed' = [closed EXCEPT ![p] = TRUE]
  /\ closer' = [closer EXCEPT ![p] = "flush"]
  /\ UNCHANGED <<called, by, early, alive, queue, batch, inFlight, connected,
                 drain, stop, flusher, covers, outcomeVars>>

\* What its flush() returned does not matter.
StopDraining(p) ==
  /\ closer[p] = "flush"
  /\ stop' = [stop EXCEPT ![p] = TRUE]
  /\ closer' = [closer EXCEPT ![p] = "join"]
  /\ UNCHANGED <<called, by, early, alive, queue, batch, inFlight, connected,
                 drain, closed, flusher, covers, outcomeVars>>

\* The thread has ended, or join() has timed out and it is still at work.
DropClient(p) ==
  /\ closer[p] = "join"
  /\ connected' = [connected EXCEPT ![p] = FALSE]
  /\ closer' = [closer EXCEPT ![p] = "done"]
  /\ UNCHANGED <<called, by, early, alive, queue, batch, inFlight, drain, stop,
                 closed, flusher, covers, outcomeVars>>

\* MUTANT: the child gets a thread and keeps the parent's queue.
ForkKeepingQueue(p, q) ==
  /\ alive[p] /\ ~alive[q] /\ q \notin ended
  /\ alive' = [alive EXCEPT ![q] = TRUE]
  /\ closed' = [closed EXCEPT ![q] = closed[p]]
  /\ queue' = [queue EXCEPT ![q] = queue[p]]
  /\ drain' = [drain EXCEPT ![q] = IF closed[p] THEN "none" ELSE "take"]
  /\ stop' = [stop EXCEPT ![q] = stop[p]]
  /\ closer' = [closer EXCEPT ![q] = IF closed[p] THEN "done" ELSE "open"]
  /\ UNCHANGED <<called, by, early, batch, inFlight, connected, flusher, covers,
                 outcomeVars>>

\* _reinit_after_fork: a closed publisher is left as it was copied, without
\* the drain thread; any other starts afresh.
Fork(p, q) ==
  /\ alive[p] /\ ~alive[q] /\ q \notin ended
  /\ alive' = [alive EXCEPT ![q] = TRUE]
  /\ closed' = [closed EXCEPT ![q] = closed[p]]
  /\ queue' = [queue EXCEPT ![q] = IF closed[p] THEN queue[p] ELSE <<>>]
  /\ drain' = [drain EXCEPT ![q] = IF closed[p] THEN "none" ELSE "take"]
  /\ stop' = [stop EXCEPT ![q] = stop[p]]
  /\ closer' = [closer EXCEPT ![q] = IF closed[p] THEN "done" ELSE "open"]
  /\ UNCHANGED <<called, by, early, batch, inFlight, connected, flusher, covers,
                 outcomeVars>>

\* The process ends: close() has been called, by the application or at the
\* interpreter's exit, or it is killed.  The drain thread is a daemon and dies
\* with it, in the middle of a pipeline perhaps.
ProcessEnds(p) ==
  /\ alive[p]
  /\ closer[p] = "done" \/ "kill" \in Faults
  /\ alive' = [alive EXCEPT ![p] = FALSE]
  /\ ended' = ended \cup {p}
  /\ lost' = lost \cup {m \in Accepted(p) : m \in Range(queue[p]) \cup Range(batch[p])}
  /\ cut' = IF drain[p] = "none" THEN cut ELSE cut \cup {p}
  /\ \E first, again \in IF drain[p] = "execute" THEN Prefixes(batch[p]) ELSE {<<>>} :
       Sent(p, first \o again)
  /\ queue' = [queue EXCEPT ![p] = <<>>]
  /\ batch' = [batch EXCEPT ![p] = <<>>]
  /\ inFlight' = [inFlight EXCEPT ![p] = 0]
  /\ connected' = [connected EXCEPT ![p] = FALSE]
  /\ drain' = [drain EXCEPT ![p] = "none"]
  /\ flusher' = [flusher EXCEPT ![p] = "idle"]
  /\ covers' = [covers EXCEPT ![p] = {}]
  /\ closer' = [closer EXCEPT ![p] = "done"]
  /\ UNCHANGED <<called, by, early, stop, closed, published, dropped, flushed>>

-----------------------------------------------------------------------------

Drain(p) ==
  \/ Take(p) \/ TakenAll(p) \/ Exit(p) \/ Connect(p) \/ ConnectFails(p)
  \/ Execute(p) \/ ExecuteFails(p) \/ BackoffOver(p)

Flushing(p) ==
  \/ Flush(p) \/ FlushSeesQueueEmpty(p) \/ FlushReturns(p) \/ FlushWaits(p)
  \/ FlushTimesOut(p)

Closing(p) == Close(p) \/ StopDraining(p) \/ DropClient(p)

Next ==
  \E p \in Procs :
    \/ Publish(p) \/ Drain(p) \/ Flushing(p) \/ Closing(p) \/ ProcessEnds(p)
    \/ \E q \in Procs : Fork(p, q)

Spec == Init /\ [][Next]_vars

\* The drain thread runs as long as its process does (ProcessEnds takes it
\* away), whether it can reach Redis or not.
Fairness == \A p \in Procs : WF_vars(Drain(p))

FairSpec == Spec /\ Fairness

-----------------------------------------------------------------------------
(* Properties                                                              *)

\* An event publish() accepted is in exactly one place: the queue, the drain
\* thread's hands, one of the two counters, or gone with its process; and what is
\* counted as published is in the stream.  Connection losses, closes, forks and
\* ends of processes at any moment lose no event uncounted but what a process had
\* in hand when it ended, and count none twice.  What flush() has waited for is out
\* of the queue; it may still be in the hands of a drain thread that has yet to say
\* so, and die there.
Accounted ==
  /\ flushed \subseteq published \cup dropped \cup lost
                         \cup UNION {Range(batch[p]) : p \in Procs}
  /\ published \subseteq Range(stream)
  /\ published \cap dropped = {} /\ (published \cup dropped) \cap lost = {}
  /\ \A m \in lost : by[m] \in ended
  /\ \A p \in Procs : \A m \in Accepted(p) :
       LET queued  == m \in Range(queue[p])
           held    == m \in Range(batch[p])
           settled == m \in published \cup dropped \cup lost
       IN  /\ queued \/ held \/ settled
           /\ ~(queued /\ held) /\ ~(queued /\ settled) /\ ~(held /\ settled)

\* The events of one process enter the stream in the order it published them;
\* what comes late has been there before (a pipeline that was sent again).
InOrder ==
  \A i, j \in 1..Len(stream) :
    i < j /\ stream[i] > stream[j] /\ by[stream[i]] = by[stream[j]] =>
      \E k \in 1..(i - 1) : stream[k] = stream[j]

\* A process sends only what was published in it: "The parent's buffered events
\* stay the parent's to send" (publisher.py:172).
OwnEventsOnly == \A m \in Events : sender[m] \subseteq {by[m]}

\* Whatever Redis does and however close() times out, an event accepted before
\* close() is sent or counted as dropped in the end, or its process ended while the
\* drain thread was still at work: close() waits for that thread no longer than its
\* timeout, and the daemon dies at the interpreter's exit (publisher.py:155, 246).
\* A thread that could finish leaves nothing behind.
EarlyEventsLeave ==
  \A m \in Events :
    m \in early ~> m \in published \cup dropped \cup {e \in lost : by[e] \in cut}

==============================================================================
