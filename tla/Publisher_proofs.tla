---------------------------- MODULE Publisher_proofs ----------------------------
(***************************************************************************)
(* Theorems about Publisher, for any processes, any number of events and   *)
(* any sizes of queue and batch.                                           *)
(***************************************************************************)
EXTENDS Publisher, SequenceTheorems, TLAPS

TypeInv ==
    /\ called \in 0..MaxEvents
    /\ by \in [Events -> Procs \cup {None}]
    /\ queue \in [Procs -> Seq(Events)]
    /\ batch \in [Procs -> Seq(Events)]
    /\ drain \in [Procs -> {"none", "take", "connect", "execute", "backoff"}]
    /\ alive \in [Procs -> BOOLEAN]
    /\ flusher \in [Procs -> {"idle", "queue", "inFlight"}]
    /\ covers \in [Procs -> SUBSET Events]
    /\ stream \in Seq(Events)
    /\ published \in SUBSET Events
    /\ dropped \in SUBSET Events
    /\ flushed \in SUBSET Events
    /\ sender \in [Events -> SUBSET Procs]
    /\ lost \in SUBSET Events
    /\ ended \in SUBSET Procs

\* No process has the event any more.
Settled == published \cup dropped \cup lost

\* Whoever drains a queue finds only what its own process published; a closed
\* copy of a publisher keeps the parent's queue and has nobody to drain it.
OwnOf(p) ==
    /\ \A e \in Range(queue[p]) : by[e] # None
    /\ \A e \in Range(batch[p]) : by[e] = p
    /\ drain[p] # "none" => \A e \in Range(queue[p]) : by[e] = p
    /\ drain[p] = "none" => batch[p] = <<>>
    /\ ~alive[p] => queue[p] = <<>> /\ drain[p] = "none"
    /\ ~alive[p] /\ p \notin ended => \A m \in Events : by[m] # p
    /\ p \in ended => ~alive[p]

OwnInv ==
    /\ \A m \in Events : by[m] # None => m <= called
    /\ \A m \in Settled \cup Range(stream) : by[m] # None
    /\ \A m \in Events : sender[m] \subseteq {by[m]}
    /\ \A p \in Procs : OwnOf(p)

\* Events are numbered by their calls: the queue and the batch are in that order,
\* the batch is ahead of the queue, and what was sent is ahead of both.
Increasing(s) == \A i, j \in 1..Len(s) : i < j => s[i] < s[j]

LineOf(p) ==
    /\ Increasing(queue[p])
    /\ Increasing(batch[p])
    /\ drain[p] # "none" =>
         /\ \A e \in Range(batch[p]), f \in Range(queue[p]) : e < f
         /\ \A m \in Range(stream) : by[m] = p =>
               \A e \in Range(batch[p]) \cup Range(queue[p]) : m < e

LineInv == \A p \in Procs : LineOf(p)

\* An accepted event is in one place.
PlaceOf(p) ==
    \A m \in Events : by[m] = p =>
        /\ m \in Range(queue[p]) \/ m \in Range(batch[p]) \/ m \in Settled
        /\ ~(m \in Range(queue[p]) /\ m \in Range(batch[p]))
        /\ ~(m \in Range(queue[p]) /\ m \in Settled)
        /\ ~(m \in Range(batch[p]) /\ m \in Settled)

PlaceInv ==
    /\ \A p \in Procs : PlaceOf(p)
    /\ published \cap dropped = {} /\ (published \cup dropped) \cap lost = {}
    /\ published \subseteq Range(stream)
    /\ \A m \in lost : by[m] \in ended

\* What a flush covers was accepted in its process, and is out of the queue once
\* the queue was seen empty.
CoverOf(p) ==
    /\ \A m \in covers[p] : by[m] = p
    /\ flusher[p] = "inFlight" => covers[p] \subseteq Settled \cup Range(batch[p])

CoverInv ==
    /\ \A p \in Procs : CoverOf(p)
    /\ flushed \subseteq Settled \cup UNION {Range(batch[p]) : p \in Procs}

PublisherInv == TypeInv /\ OwnInv /\ LineInv /\ PlaceInv /\ CoverInv /\ InOrder

-------------------------------------------------------------------------------
(* Sequences                                                               *)

\* What is in a sequence, index by index.
LEMMA RangeIndex ==
    ASSUME NEW s \in Seq(Events)
    PROVE  /\ Range(s) \in SUBSET Events
           /\ \A i \in 1..Len(s) : s[i] \in Range(s)
           /\ \A e \in Range(s) : \E i \in 1..Len(s) : s[i] = e
           /\ Len(s) \in Nat
           /\ s = <<>> <=> Range(s) = {}
<1>1. Range(s) = {s[i] : i \in 1..Len(s)} /\ Range(s) \in SUBSET Events
    BY RangeEquality, RangeOfSeq
<1>2. Len(s) \in Nat /\ (s # <<>> => Len(s) >= 1) /\ (s = <<>> => Len(s) = 0)
    BY EmptySeq, LenProperties
<1>3. s = <<>> => Range(s) = {}
    BY <1>1, <1>2
<1>4. s # <<>> => s[1] \in Range(s)
    BY <1>1, <1>2
<1> QED
    BY <1>1, <1>2, <1>3, <1>4

LEMMA RangeEmpty == Range(<<>>) = {}
BY DEF Range

LEMMA RangeAppend ==
    ASSUME NEW s \in Seq(Events), NEW e \in Events
    PROVE  /\ Append(s, e) \in Seq(Events)
           /\ Range(Append(s, e)) = Range(s) \cup {e}
<1>1. /\ Append(s, e) \in Seq(Events) /\ Len(Append(s, e)) = Len(s) + 1
      /\ \A i \in 1..Len(s) : Append(s, e)[i] = s[i]
      /\ Append(s, e)[Len(s) + 1] = e
    BY AppendProperties
<1>2. Len(s) \in Nat
    BY RangeIndex
<1>3. ASSUME NEW x \in Range(Append(s, e)) PROVE x \in Range(s) \cup {e}
    <2>1. PICK i \in 1..(Len(s) + 1) : Append(s, e)[i] = x
        BY <1>1, <1>3, RangeIndex
    <2> QED
        BY <1>1, <1>2, <2>1, RangeIndex
<1>4. ASSUME NEW x \in Range(s) \cup {e} PROVE x \in Range(Append(s, e))
    <2>1. CASE x = e
        <3>1. Len(s) + 1 \in 1..Len(Append(s, e)) /\ Append(s, e)[Len(s) + 1] = x
            BY <1>1, <1>2, <2>1
        <3> QED
            BY <1>1, <3>1, RangeIndex
    <2>2. CASE x \in Range(s)
        <3>1. PICK i \in 1..Len(s) : s[i] = x
            BY <2>2, RangeIndex
        <3>2. i \in 1..Len(Append(s, e)) /\ Append(s, e)[i] = x
            BY <1>1, <1>2, <3>1
        <3> QED
            BY <1>1, <3>2, RangeIndex
    <2> QED
        BY <1>4, <2>1, <2>2
<1> QED
    BY <1>1, <1>3, <1>4

\* An increasing queue with one more event at its end.
LEMMA IncreasingAppend ==
    ASSUME NEW s \in Seq(Events), Increasing(s), NEW e \in Events, \A x \in Range(s) : x < e
    PROVE  Increasing(Append(s, e))
<1>1. /\ Len(Append(s, e)) = Len(s) + 1 /\ Len(s) \in Nat
      /\ \A i \in 1..Len(s) : Append(s, e)[i] = s[i] /\ s[i] < e
      /\ Append(s, e)[Len(s) + 1] = e
    BY AppendProperties, RangeIndex
<1> SUFFICES ASSUME NEW i \in 1..(Len(s) + 1), NEW j \in 1..(Len(s) + 1), i < j
             PROVE  Append(s, e)[i] < Append(s, e)[j]
    BY <1>1 DEF Increasing
<1>2. CASE j = Len(s) + 1
    BY <1>1, <1>2
<1>3. CASE j # Len(s) + 1
    BY <1>1, <1>3 DEF Increasing
<1> QED
    BY <1>2, <1>3

\* The head of an increasing queue comes before all of its tail.
LEMMA HeadFirst ==
    ASSUME NEW s \in Seq(Events), Increasing(s), s # <<>>
    PROVE  /\ Head(s) \in Events /\ Tail(s) \in Seq(Events)
           /\ Range(s) = {Head(s)} \cup Range(Tail(s))
           /\ \A e \in Range(Tail(s)) : Head(s) < e
           /\ Increasing(Tail(s))
<1>1. /\ Head(s) \in Events /\ Tail(s) \in Seq(Events) /\ Len(s) \in Nat /\ Len(s) >= 1
      /\ Len(Tail(s)) = Len(s) - 1
      /\ \A i \in 1..Len(Tail(s)) : Tail(s)[i] = s[i + 1]
    BY HeadTailProperties, EmptySeq
<1>2. Head(s) = s[1]
    OBVIOUS
<1>3. ASSUME NEW e \in Range(Tail(s)) PROVE e \in Range(s) /\ Head(s) < e
    <2>1. PICK i \in 1..Len(Tail(s)) : Tail(s)[i] = e
        BY <1>1, <1>3, RangeIndex
    <2>2. i + 1 \in 1..Len(s) /\ 1 \in 1..Len(s) /\ 1 < i + 1 /\ s[i + 1] = e
        BY <1>1, <2>1
    <2> QED
        BY <1>2, <2>2, RangeIndex DEF Increasing
<1>4. ASSUME NEW e \in Range(s), e # Head(s) PROVE e \in Range(Tail(s))
    <2>1. PICK i \in 1..Len(s) : s[i] = e
        BY <1>4, RangeIndex
    <2>2. i - 1 \in 1..Len(Tail(s)) /\ (i - 1) + 1 = i
        BY <1>1, <1>2, <1>4, <2>1
    <2> QED
        BY <1>1, <2>1, <2>2, RangeIndex
<1>5. Head(s) \in Range(s)
    BY <1>1, <1>2, RangeIndex
<1>6. Increasing(Tail(s))
    <2> SUFFICES ASSUME NEW i \in 1..Len(Tail(s)), NEW j \in 1..Len(Tail(s)), i < j
                 PROVE  Tail(s)[i] < Tail(s)[j]
        BY DEF Increasing
    <2>1. i + 1 \in 1..Len(s) /\ j + 1 \in 1..Len(s) /\ i + 1 < j + 1
        BY <1>1
    <2> QED
        BY <1>1, <2>1 DEF Increasing
<1> QED
    BY <1>1, <1>3, <1>4, <1>5, <1>6

\* What the server has run of a pipeline is its first events.
LEMMA PrefixParts ==
    ASSUME NEW s \in Seq(Events), NEW a \in Prefixes(s)
    PROVE  /\ a \in Seq(Events) /\ Len(a) \in Nat /\ Len(a) <= Len(s)
           /\ \A i \in 1..Len(a) : a[i] = s[i]
           /\ Range(a) \subseteq Range(s)
<1>1. PICK n \in 0..Len(s) : a = SubSeq(s, 1, n)
    BY DEF Prefixes
<1>2. Len(s) \in Nat
    BY RangeIndex
<1>3. /\ a \in Seq(Events) /\ Len(a) = n
      /\ \A i \in 1..n : a[i] = s[i]
    BY <1>1, <1>2, SubSeqProperties
<1>4. ASSUME NEW e \in Range(a) PROVE e \in Range(s)
    <2>1. PICK i \in 1..Len(a) : a[i] = e
        BY <1>3, <1>4, RangeIndex
    <2>2. i \in 1..Len(s) /\ s[i] = e
        BY <1>2, <1>3, <2>1
    <2> QED
        BY <2>2, RangeIndex
<1> QED
    BY <1>2, <1>3, <1>4

\* The whole pipeline is one of its prefixes.
LEMMA WholeIsPrefix ==
    ASSUME NEW s \in Seq(Events)
    PROVE  s \in Prefixes(s)
BY RangeIndex, SubSeqFull DEF Prefixes

\* InOrder of a sequence, and what keeps it: events that are later than all their
\* process has sent arrive, some of them twice.
Ordered(s) ==
    \A i, j \in 1..Len(s) :
        i < j /\ s[i] > s[j] /\ by[s[i]] = by[s[j]] => \E k \in 1..(i - 1) : s[k] = s[j]

LEMMA SentTwice ==
    ASSUME NEW s \in Seq(Events), Ordered(s), NEW c \in Seq(Events), Increasing(c), NEW p,
           \A e \in Range(c) : by[e] = p,
           \A m \in Range(s) : by[m] = p => \A e \in Range(c) : m < e,
           NEW a \in Prefixes(c), NEW b \in Prefixes(c)
    PROVE  Ordered(s \o (a \o b))
<1> DEFINE t == s \o (a \o b)
           L == Len(s)
           A == Len(a)
           B == Len(b)
<1>1. /\ a \in Seq(Events) /\ b \in Seq(Events)
      /\ L \in Nat /\ A \in Nat /\ B \in Nat /\ Len(c) \in Nat
      /\ A <= Len(c) /\ B <= Len(c)
      /\ \A i \in 1..A : a[i] = c[i]
      /\ \A i \in 1..B : b[i] = c[i]
    BY PrefixParts, RangeIndex
<1>2. a \o b \in Seq(Events) /\ Len(a \o b) = A + B
      /\ \A i \in 1..(A + B) : (a \o b)[i] = IF i <= A THEN a[i] ELSE b[i - A]
    BY <1>1, ConcatProperties
<1>3. /\ Len(t) = L + A + B
      /\ \A i \in 1..(L + A + B) : t[i] = IF i <= L THEN s[i] ELSE (a \o b)[i - L]
    BY <1>1, <1>2, ConcatProperties
<1> HIDE DEF t, L, A, B
<1>4. \A i \in 1..L : i \in 1..(L + A + B) /\ t[i] = s[i]
    BY <1>1, <1>3
<1>5. ASSUME NEW x \in 1..A PROVE t[L + x] = c[x] /\ x \in 1..Len(c)
    <2>1. /\ L + x \in 1..(L + A + B) /\ ~(L + x <= L) /\ (L + x) - L = x
          /\ x \in 1..(A + B) /\ x \in 1..Len(c) /\ x <= A
        BY <1>1, <1>5
    <2>2. t[L + x] = (a \o b)[(L + x) - L]
        BY <1>3, <2>1
    <2> QED
        BY <1>1, <1>2, <2>1, <2>2
<1>6. ASSUME NEW x \in 1..B PROVE t[L + A + x] = c[x] /\ x \in 1..Len(c)
    <2>1. /\ L + A + x \in 1..(L + A + B) /\ ~(L + A + x <= L) /\ (L + A + x) - L = A + x
          /\ A + x \in 1..(A + B) /\ ~(A + x <= A) /\ (A + x) - A = x /\ x \in 1..Len(c)
        BY <1>1, <1>6
    <2>2. t[L + A + x] = (a \o b)[(L + A + x) - L]
        BY <1>3, <2>1
    <2>3. (a \o b)[A + x] = b[(A + x) - A]
        BY <1>2, <2>1
    <2> QED
        BY <1>1, <2>1, <2>2, <2>3
\* An index of what arrives is in the first pass or in the second.
<1>7. ASSUME NEW i \in 1..(L + A + B), i > L
      PROVE  (\E x \in 1..A : i = L + x) \/ (\E x \in 1..B : i = L + A + x)
    <2>1. CASE i <= L + A
        <3>1. i - L \in 1..A /\ i = L + (i - L)
            BY <1>1, <1>7, <2>1
        <3> QED
            BY <3>1
    <2>2. CASE i > L + A
        <3>1. i - (L + A) \in 1..B /\ i = L + A + (i - (L + A))
            BY <1>1, <1>7, <2>2
        <3> QED
            BY <3>1
    <2> QED
        BY <1>1, <2>1, <2>2
<1>8. \A x, y \in 1..Len(c) : c[x] \in Nat /\ c[x] \in Range(c) /\ (x <= y => c[x] <= c[y])
    <2>1. \A x \in 1..Len(c) : c[x] \in Range(c) /\ c[x] \in Events
        BY RangeIndex
    <2>2. \A x \in 1..Len(c) : c[x] \in Nat
        BY <2>1 DEF Events
    <2>3. ASSUME NEW x \in 1..Len(c), NEW y \in 1..Len(c), x <= y PROVE c[x] <= c[y]
        <3>1. CASE x = y
            BY <2>2, <3>1
        <3>2. CASE x < y
            BY <2>2, <3>2 DEF Increasing
        <3> QED
            BY <1>1, <2>3, <3>1, <3>2
    <2> QED
        BY <2>1, <2>2, <2>3
<1> SUFFICES ASSUME NEW i \in 1..(L + A + B), NEW j \in 1..(L + A + B),
                    i < j, t[i] > t[j], by[t[i]] = by[t[j]]
             PROVE  \E k \in 1..(i - 1) : t[k] = t[j]
    BY <1>3 DEF Ordered, t
<1>9. CASE j <= L
    <2>1. i \in 1..L /\ j \in 1..L
        BY <1>1, <1>9
    <2>2. t[i] = s[i] /\ t[j] = s[j]
        BY <1>4, <2>1
    <2>3. PICK k \in 1..(i - 1) : s[k] = s[j]
        BY <2>1, <2>2 DEF Ordered, L
    <2>4. k \in 1..L
        BY <1>1, <2>1, <2>3
    <2> QED
        BY <1>4, <2>2, <2>3, <2>4
<1>10. ASSUME NEW y \in 1..Len(c), t[j] = c[y], i <= L PROVE FALSE
    <2>1. i \in 1..L
        BY <1>1, <1>10
    <2>2. t[i] = s[i] /\ s[i] \in Range(s) /\ s[i] \in Nat
        BY <1>4, <2>1, RangeIndex DEF L, Events
    <2>3. by[s[i]] = p
        BY <1>8, <1>10, <2>2
    <2>4. s[i] < c[y]
        BY <1>8, <1>10, <2>2, <2>3
    <2> QED
        BY <1>8, <1>10, <2>2, <2>4
<1>11. ASSUME NEW x \in 1..Len(c), NEW y \in 1..Len(c), t[i] = c[x], t[j] = c[y] PROVE y < x
    BY <1>1, <1>8, <1>11
\* The first pass is in order.
<1>12. ASSUME NEW y \in 1..A, j = L + y PROVE FALSE
    <2>1. t[j] = c[y] /\ y \in 1..Len(c)
        BY <1>5, <1>12
    <2>2. PICK x \in 1..A : i = L + x
        BY <1>1, <1>7, <1>10, <1>12, <2>1
    <2>3. t[i] = c[x] /\ x \in 1..Len(c)
        BY <1>5, <2>2
    <2> QED
        BY <1>1, <1>11, <1>12, <2>1, <2>2, <2>3
\* What the second pass repeats was in the first.
<1>13. ASSUME NEW y \in 1..B, j = L + A + y PROVE \E k \in 1..(i - 1) : t[k] = t[j]
    <2>1. t[j] = c[y] /\ y \in 1..Len(c)
        BY <1>6, <1>13
    <2>2. CASE \E x \in 1..A : i = L + x
        <3>1. PICK x \in 1..A : i = L + x
            BY <2>2
        <3>2. t[i] = c[x] /\ x \in 1..Len(c)
            BY <1>5, <3>1
        <3>3. y < x
            BY <1>11, <2>1, <3>2
        <3>4. y \in 1..A /\ L + y \in 1..(i - 1)
            BY <1>1, <3>1, <3>3
        <3>5. t[L + y] = t[j]
            BY <1>5, <2>1, <3>4
        <3> QED
            BY <3>4, <3>5
    <2>3. CASE \E x \in 1..B : i = L + A + x
        <3>1. PICK x \in 1..B : i = L + A + x
            BY <2>3
        <3>2. t[i] = c[x] /\ x \in 1..Len(c)
            BY <1>6, <3>1
        <3>3. y < x
            BY <1>11, <2>1, <3>2
        <3> QED
            BY <1>1, <1>13, <3>1, <3>3
    <2> QED
        BY <1>1, <1>7, <1>10, <2>1, <2>2, <2>3
<1>14. CASE j > L
    BY <1>7, <1>12, <1>13, <1>14
<1> QED
    BY <1>1, <1>9, <1>14

-------------------------------------------------------------------------------
(* The invariant                                                           *)

LEMMA InitPublisher == Init => PublisherInv
<1> SUFFICES ASSUME Init PROVE PublisherInv
    OBVIOUS
<1>1. TypeInv
    BY PublisherAssumption, EmptySeq DEF Init, TypeInv, Events
<1>2. /\ \A p \in Procs : Range(queue[p]) = {} /\ Range(batch[p]) = {}
      /\ Range(stream) = {} /\ Settled = {}
      /\ \A p \in Procs : Len(queue[p]) = 0 /\ Len(batch[p]) = 0
      /\ Len(stream) = 0
    BY RangeEmpty, EmptySeq DEF Init, Settled
<1>3. OwnInv
    BY <1>2, PublisherAssumption DEF Init, OwnInv, OwnOf
<1>4. LineInv
    BY <1>2 DEF Init, LineInv, LineOf, Increasing
<1>5. PlaceInv
    BY <1>2, PublisherAssumption DEF Init, PlaceInv, PlaceOf
<1>6. CoverInv
    BY DEF Init, CoverInv, CoverOf
<1>7. InOrder
    BY <1>2 DEF InOrder
<1> QED
    BY <1>1, <1>3, <1>4, <1>5, <1>6, <1>7 DEF PublisherInv

\* Steps that move no event.
Quiet ==
    /\ UNCHANGED <<called, by, queue, batch, stream, published, dropped, sender, alive, lost, ended>>
    /\ \A p \in Procs : \/ drain'[p] = drain[p]
                        \/ drain'[p] # "none" /\ drain[p] # "none"
                        \/ drain'[p] = "none" /\ batch[p] = <<>>

\* The bookkeeping of flush() is left alone.
NoFlush == UNCHANGED <<flusher, covers, flushed>>

LEMMA QuietType ==
    ASSUME TypeInv, Quiet,
           drain' \in [Procs -> {"none", "take", "connect", "execute", "backoff"}],
           flusher' \in [Procs -> {"idle", "queue", "inFlight"}],
           covers' \in [Procs -> SUBSET Events], flushed' \in SUBSET Events
    PROVE  TypeInv'
BY DEF TypeInv, Quiet

LEMMA QuietKeeps ==
    ASSUME PublisherInv, Quiet, TypeInv', CoverInv'
    PROVE  PublisherInv'
<1>1. OwnInv'
    <2>1. ASSUME NEW p \in Procs PROVE OwnOf(p)'
        <3>1. OwnOf(p) /\ alive' = alive
            BY DEF PublisherInv, OwnInv, Quiet
        <3>2. drain[p] = "none" => drain'[p] = "none"
            BY <3>1 DEF OwnOf, Quiet
        <3> QED
            BY <3>1, <3>2 DEF OwnOf, Quiet
    <2> QED
        BY <2>1 DEF PublisherInv, OwnInv, Quiet, Settled
<1>2. LineInv'
    <2>1. ASSUME NEW p \in Procs PROVE LineOf(p)'
        BY DEF PublisherInv, LineInv, LineOf, Quiet, Increasing
    <2> QED
        BY <2>1 DEF LineInv
<1>3. PlaceInv'
    BY DEF PublisherInv, PlaceInv, PlaceOf, Quiet, Settled
<1>4. InOrder'
    BY DEF PublisherInv, InOrder, Quiet
<1> QED
    BY <1>1, <1>2, <1>3, <1>4 DEF PublisherInv

\* A process at work with its queue.
QuietStep(p) ==
    \/ TakenAll(p) \/ Exit(p) \/ Connect(p) \/ BackoffOver(p) \/ Flushing(p) \/ Closing(p)

LEMMA QuietSteps ==
    ASSUME PublisherInv, NEW p \in Procs, QuietStep(p)
    PROVE  PublisherInv'
<1> USE DEF outcomeVars, endVars
<1>0. TypeInv /\ OwnInv /\ PlaceInv /\ CoverInv
    BY DEF PublisherInv
<1>1. ASSUME Quiet, NoFlush, drain' \in [Procs -> {"none", "take", "connect", "execute", "backoff"}]
      PROVE  PublisherInv'
    <2>1. TypeInv'
        BY <1>0, <1>1, QuietType DEF TypeInv, NoFlush
    <2>2. CoverInv'
        BY <1>0, <1>1 DEF CoverInv, CoverOf, Quiet, NoFlush, Settled
    <2> QED
        BY <1>1, <2>1, <2>2, QuietKeeps
<1>2. CASE TakenAll(p)
    BY <1>0, <1>1, <1>2 DEF TakenAll, Quiet, NoFlush, TypeInv
<1>3. CASE Exit(p)
    BY <1>0, <1>1, <1>3 DEF Exit, Quiet, NoFlush, TypeInv
<1>4. CASE Connect(p)
    BY <1>0, <1>1, <1>4 DEF Connect, Quiet, NoFlush, TypeInv
<1>5. CASE BackoffOver(p)
    BY <1>0, <1>1, <1>5 DEF BackoffOver, Quiet, NoFlush, TypeInv
<1>6. CASE Closing(p)
    BY <1>0, <1>1, <1>6 DEF Closing, Close, StopDraining, DropClient, Quiet, NoFlush, TypeInv
<1>7. CASE Flushing(p)
    <2>1. Quiet /\ drain' = drain
        BY <1>7 DEF Flushing, Flush, FlushSeesQueueEmpty, FlushReturns, FlushWaits,
           FlushTimesOut, Quiet
    <2>2. ASSUME NEW place \in {"idle", "queue", "inFlight"}, NEW cover \in SUBSET Events,
                 flusher' = [flusher EXCEPT ![p] = place],
                 covers' = [covers EXCEPT ![p] = cover],
                 \A m \in cover : by[m] = p,
                 place = "inFlight" => cover \subseteq Settled \cup Range(batch[p]),
                 flushed' \in SUBSET Events,
                 flushed' \subseteq Settled \cup UNION {Range(batch[q]) : q \in Procs}
          PROVE  PublisherInv'
        <3>1. TypeInv'
            BY <1>0, <2>1, <2>2, QuietType DEF TypeInv
        <3>2. ASSUME NEW q \in Procs PROVE CoverOf(q)'
            <4>1. CASE q = p
                BY <1>0, <2>1, <2>2, <4>1 DEF TypeInv, CoverOf, Quiet, Settled
            <4>2. CASE q # p
                BY <1>0, <2>1, <2>2, <4>2 DEF TypeInv, CoverInv, CoverOf, Quiet, Settled
            <4> QED
                BY <4>1, <4>2
        <3>3. CoverInv'
            BY <2>1, <2>2, <3>2 DEF CoverInv, Quiet, Settled
        <3> QED
            BY <2>1, <3>1, <3>3, QuietKeeps
    <2>3. flushed \in SUBSET Events /\ flushed \subseteq Settled \cup UNION {Range(batch[q]) : q \in Procs}
        BY <1>0 DEF TypeInv, CoverInv
    <2>4. covers[p] \in SUBSET Events /\ covers' = [covers EXCEPT ![p] = covers'[p]]
          /\ \A m \in covers[p] : by[m] = p
        BY <1>0, <1>7 DEF TypeInv, CoverInv, CoverOf, Flushing, Flush, FlushSeesQueueEmpty,
           FlushReturns, FlushWaits, FlushTimesOut
    <2>5. CASE Flush(p)
        <3>1. /\ flusher' = [flusher EXCEPT ![p] = "queue"]
              /\ covers' = [covers EXCEPT ![p] = Accepted(p)]
              /\ flushed' = flushed
            BY <2>5 DEF Flush
        <3>2. Accepted(p) \in SUBSET Events /\ \A m \in Accepted(p) : by[m] = p
            BY DEF Accepted
        <3> QED
            BY <2>2, <2>3, <3>1, <3>2
    <2>6. CASE FlushSeesQueueEmpty(p)
        <3>1. /\ flusher' = [flusher EXCEPT ![p] = "inFlight"]
              /\ covers' = [covers EXCEPT ![p] = covers[p]]
              /\ flushed' = flushed /\ queue[p] = <<>>
            BY <1>0, <2>6 DEF FlushSeesQueueEmpty, TypeInv
        <3>2. covers[p] \subseteq Settled \cup Range(batch[p])
            BY <1>0, <2>4, <3>1, RangeEmpty DEF PlaceInv, PlaceOf
        <3> QED
            BY <2>2, <2>3, <2>4, <3>1, <3>2
    <2>7. CASE FlushReturns(p)
        <3>1. /\ flusher' = [flusher EXCEPT ![p] = "idle"]
              /\ covers' = [covers EXCEPT ![p] = {}]
              /\ flushed' = flushed \cup covers[p] /\ flusher[p] = "inFlight"
            BY <2>7 DEF FlushReturns
        <3>2. covers[p] \subseteq Settled \cup Range(batch[p])
            BY <1>0, <3>1 DEF CoverInv, CoverOf
        <3> QED
            BY <2>2, <2>3, <2>4, <3>1, <3>2
    <2>8. CASE FlushWaits(p)
        <3>1. /\ flusher' = [flusher EXCEPT ![p] = "queue"]
              /\ covers' = [covers EXCEPT ![p] = covers[p]]
              /\ flushed' = flushed
            BY <1>0, <2>8 DEF FlushWaits, TypeInv
        <3> QED
            BY <2>2, <2>3, <2>4, <3>1
    <2>9. CASE FlushTimesOut(p)
        <3>1. /\ flusher' = [flusher EXCEPT ![p] = "idle"]
              /\ covers' = [covers EXCEPT ![p] = {}]
              /\ flushed' = flushed
            BY <2>9 DEF FlushTimesOut
        <3>2. {} \in SUBSET Events /\ \A m \in {} : by[m] = p
            OBVIOUS
        <3>3. "idle" # "inFlight"
            OBVIOUS
        <3> QED
            BY <2>2, <2>3, <3>1, <3>2, <3>3
    <2> QED
        BY <1>7, <2>5, <2>6, <2>7, <2>8, <2>9 DEF Flushing
<1> QED
    BY <1>2, <1>3, <1>4, <1>5, <1>6, <1>7 DEF QuietStep

\* A step that moves events of p only: who published what is settled for good, what
\* is sent and what is counted are p's, and the other processes are as they were.
Others(p) ==
    /\ \A q \in Procs \ {p} :
          /\ queue'[q] = queue[q] /\ batch'[q] = batch[q]
          /\ drain'[q] = drain[q] /\ alive'[q] = alive[q]
          /\ flusher'[q] = flusher[q] /\ covers'[q] = covers[q]
          /\ q \in ended' <=> q \in ended
    /\ flushed' = flushed
    /\ \A m \in Events : by'[m] = by[m] \/ (by[m] = None /\ by'[m] = p)
    /\ Range(stream) \subseteq Range(stream') /\ Settled \subseteq Settled'
    /\ \A m \in Range(stream') \ Range(stream) : by'[m] = p
    /\ \A m \in Settled' \ Settled : by'[m] = p

\* What has to be shown of p itself.
OfProcess(p) == OwnOf(p) /\ LineOf(p) /\ PlaceOf(p) /\ CoverOf(p)

LEMMA OthersKeep ==
    ASSUME PublisherInv, TypeInv', NEW p \in Procs, Others(p), NEW q \in Procs, q # p
    PROVE  OfProcess(q)'
<1>0. OwnOf(q) /\ LineOf(q) /\ PlaceOf(q) /\ CoverOf(q)
    BY DEF PublisherInv, OwnInv, LineInv, PlaceInv, CoverInv
<1>1. /\ queue'[q] = queue[q] /\ batch'[q] = batch[q]
      /\ drain'[q] = drain[q] /\ alive'[q] = alive[q]
      /\ flusher'[q] = flusher[q] /\ covers'[q] = covers[q]
      /\ q \in ended' <=> q \in ended
    BY DEF Others
<1>2. /\ \A m \in Events : by'[m] = q <=> by[m] = q
      /\ \A m \in Events : by[m] # None => by'[m] = by[m]
    BY PublisherAssumption DEF Others
<1>3. /\ Range(queue[q]) \in SUBSET Events /\ Range(batch[q]) \in SUBSET Events
      /\ Range(stream) \in SUBSET Events /\ Range(stream') \in SUBSET Events
      /\ Settled \in SUBSET Events /\ Settled' \in SUBSET Events
      /\ covers[q] \in SUBSET Events
    BY RangeIndex DEF PublisherInv, TypeInv, Settled
<1>4. /\ \A m \in Range(stream') : by'[m] = q => m \in Range(stream)
      /\ \A m \in Settled' : by'[m] = q => m \in Settled
      /\ Settled \subseteq Settled'
    BY DEF Others
<1>5. OwnOf(q)'
    BY <1>0, <1>1, <1>2, <1>3, PublisherAssumption DEF OwnOf
<1>6. LineOf(q)'
    BY <1>0, <1>1, <1>2, <1>3, <1>4 DEF LineOf, Increasing
<1>7. PlaceOf(q)'
    BY <1>0, <1>1, <1>2, <1>3, <1>4 DEF PlaceOf
<1>8. CoverOf(q)'
    BY <1>0, <1>1, <1>2, <1>3, <1>4 DEF CoverOf
<1> QED
    BY <1>5, <1>6, <1>7, <1>8 DEF OfProcess

LEMMA OneProcess ==
    ASSUME PublisherInv, TypeInv', NEW p \in Procs, Others(p), OfProcess(p)',
           \A m \in Events : by'[m] # None => m <= called',
           \A m \in Events : sender'[m] \subseteq {by'[m]},
           published' \cap dropped' = {}, published' \subseteq Range(stream'),
           (published' \cup dropped') \cap lost' = {}, \A m \in lost' : by'[m] \in ended',
           \A m \in Range(batch[p]) : m \in Settled' \cup Range(batch'[p]),
           InOrder'
    PROVE  PublisherInv'
<1>1. \A q \in Procs : OfProcess(q)'
    BY OthersKeep
<1>2. \A m \in Settled' \cup Range(stream') : by'[m] # None
    <2>1. Settled' \cup Range(stream') \in SUBSET Events
        BY RangeIndex DEF TypeInv, Settled
    <2>2. \A m \in Settled \cup Range(stream) : by[m] # None
        BY DEF PublisherInv, OwnInv
    <2> QED
        BY <2>1, <2>2, PublisherAssumption DEF Others
<1>3. OwnInv'
    BY <1>1, <1>2 DEF OwnInv, OfProcess
<1>4. flushed' \subseteq Settled' \cup UNION {Range(batch'[q]) : q \in Procs}
    <2> SUFFICES ASSUME NEW m \in flushed', m \notin Settled'
                 PROVE  \E q \in Procs : m \in Range(batch'[q])
        OBVIOUS
    <2>1. m \in flushed /\ m \notin Settled
        BY DEF Others
    <2>2. PICK q \in Procs : m \in Range(batch[q])
        BY <2>1 DEF PublisherInv, CoverInv
    <2>3. CASE q = p
        BY <2>2, <2>3
    <2>4. CASE q # p
        BY <2>2, <2>4 DEF Others
    <2> QED
        BY <2>3, <2>4
<1> QED
    BY <1>1, <1>3, <1>4 DEF PublisherInv, LineInv, PlaceInv, CoverInv, OfProcess

LEMMA PublishStep ==
    ASSUME PublisherInv, NEW p \in Procs, Publish(p)
    PROVE  PublisherInv'
<1> USE DEF outcomeVars, endVars
<1>0. TypeInv /\ OwnInv /\ OwnOf(p) /\ LineOf(p) /\ PlaceOf(p) /\ CoverOf(p) /\ InOrder
    BY DEF PublisherInv, OwnInv, LineInv, PlaceInv, CoverInv
<1> DEFINE e == called + 1
<1>1. /\ called' = e /\ e \in Events /\ called \in Nat /\ alive[p]
      /\ e \in 0..MaxEvents
    BY <1>0, PublisherAssumption DEF Publish, TypeInv, Events
<1>2. /\ UNCHANGED <<alive, batch, drain, flusher, covers, stream, published, dropped,
                     flushed, sender, lost, ended>>
      /\ Settled' = Settled
    BY DEF Publish, Settled
<1>3. by[e] = None /\ \A m \in Events : by[m] # None => m < e
    BY <1>0, <1>1 DEF OwnInv, TypeInv, Events
<1>4. CASE Full(p)
    <2>1. queue' = queue /\ by' = by
        BY <1>4 DEF Publish
    <2>2. TypeInv'
        BY <1>0, <1>1, <1>2, <2>1 DEF TypeInv
    <2>3. OwnInv'
        BY <1>0, <1>1, <1>2, <1>3, <2>1 DEF OwnInv, OwnOf, Events
    <2> QED
        BY <1>0, <1>2, <2>1, <2>2, <2>3 DEF PublisherInv, LineInv, LineOf, PlaceInv, PlaceOf,
           CoverInv, CoverOf, InOrder, Increasing
<1>5. CASE ~Full(p)
    <2>1. queue' = [queue EXCEPT ![p] = Append(@, e)] /\ by' = [by EXCEPT ![e] = p]
        BY <1>1, <1>5 DEF Publish
    <2>2. /\ queue'[p] = Append(queue[p], e) /\ by'[e] = p
          /\ \A m \in Events : m # e => by'[m] = by[m]
        BY <1>0, <1>1, <2>1 DEF TypeInv
    <2>3. /\ queue[p] \in Seq(Events) /\ batch[p] \in Seq(Events)
          /\ Range(queue[p]) \in SUBSET Events /\ Range(batch[p]) \in SUBSET Events
          /\ Range(stream) \in SUBSET Events /\ Settled \in SUBSET Events
          /\ covers[p] \in SUBSET Events
        BY <1>0, RangeIndex DEF TypeInv, Settled
    <2>4. /\ queue'[p] \in Seq(Events)
          /\ Range(queue'[p]) = Range(queue[p]) \cup {e}
        BY <1>1, <2>2, <2>3, RangeAppend
    <2> HIDE DEF e
    <2>5. /\ \A m \in Range(queue[p]) : by[m] # None /\ m < e
          /\ \A m \in Range(batch[p]) : by[m] = p /\ by[m] # None /\ m < e
          /\ \A m \in Settled \cup Range(stream) : by[m] # None /\ m # e
        BY <1>0, <1>3, <2>3, PublisherAssumption DEF OwnInv, OwnOf
    <2>6. TypeInv'
        BY <1>0, <1>1, <1>2, <2>1, <2>4 DEF TypeInv
    <2>7. Others(p)
        <3>1. \A q \in Procs \ {p} : queue'[q] = queue[q]
            BY <1>0, <2>1 DEF TypeInv
        <3>2. \A m \in Events : by'[m] = by[m] \/ (by[m] = None /\ by'[m] = p)
            BY <1>3, <2>2
        <3> QED
            BY <1>2, <3>1, <3>2 DEF Others
    <2>8. OwnOf(p)'
        BY <1>0, <1>1, <1>2, <2>2, <2>3, <2>4, <2>5, PublisherAssumption DEF OwnOf
    <2>9. LineOf(p)'
        <3>1. Increasing(queue'[p])
            BY <1>0, <1>1, <2>2, <2>3, <2>5, IncreasingAppend DEF LineOf
        <3>2. \A m \in Range(stream) : by'[m] = p => by[m] = p /\ m < e
            BY <1>3, <2>2, <2>3, <2>5
        <3> QED
            BY <1>0, <1>2, <2>4, <2>5, <3>1, <3>2 DEF LineOf
    <2>10. PlaceOf(p)'
        <3>1. e \in Range(queue'[p]) /\ e \notin Range(batch[p]) /\ e \notin Settled
            BY <1>3, <2>4, <2>5
        <3>2. ASSUME NEW m \in Events, m # e, by'[m] = p PROVE by[m] = p /\ (m \in Range(queue'[p]) <=> m \in Range(queue[p]))
            BY <2>2, <2>4, <3>2
        <3> QED
            BY <1>0, <1>2, <3>1, <3>2 DEF PlaceOf
    <2>11. CoverOf(p)'
        BY <1>0, <1>2, <1>3, <2>2, <2>3, PublisherAssumption DEF CoverOf
    <2>12. InOrder'
        <3>1. \A i \in 1..Len(stream) : stream[i] \in Events /\ by'[stream[i]] = by[stream[i]]
            BY <1>0, <2>2, <2>5, RangeIndex DEF TypeInv
        <3> QED
            BY <1>0, <1>2, <3>1 DEF InOrder
    <2>13. /\ \A m \in Events : by'[m] # None => m <= called'
           /\ \A m \in Events : sender'[m] \subseteq {by'[m]}
        <3>1. \A m \in Events : by'[m] # None => m <= called'
            BY <1>0, <1>1, <1>3, <2>2 DEF OwnInv, Events, e
        <3>2. sender[e] = {}
            BY <1>0, <1>1, <1>3, PublisherAssumption DEF OwnInv, TypeInv
        <3> QED
            BY <1>0, <1>2, <2>2, <3>1, <3>2 DEF OwnInv
    <2>14. /\ published' \cap dropped' = {} /\ published' \subseteq Range(stream')
           /\ (published' \cup dropped') \cap lost' = {} /\ \A m \in lost' : by'[m] \in ended'
           /\ \A m \in Range(batch[p]) : m \in Settled' \cup Range(batch'[p])
        <3>1. \A m \in lost : m \in Events /\ by'[m] = by[m]
            BY <1>0, <2>2, <2>5 DEF TypeInv, Settled
        <3> QED
            BY <1>2, <3>1 DEF PublisherInv, PlaceInv
    <2> QED
        BY <2>6, <2>7, <2>8, <2>9, <2>10, <2>11, <2>12, <2>13, <2>14, OneProcess DEF OfProcess
<1> QED
    BY <1>4, <1>5

LEMMA TakeStep ==
    ASSUME PublisherInv, NEW p \in Procs, Take(p)
    PROVE  PublisherInv'
<1> USE DEF outcomeVars, endVars
<1>0. TypeInv /\ OwnInv /\ OwnOf(p) /\ LineOf(p) /\ PlaceOf(p) /\ CoverOf(p) /\ InOrder
    BY DEF PublisherInv, OwnInv, LineInv, PlaceInv, CoverInv
<1> DEFINE e == Head(queue[p])
<1>1. /\ queue[p] \in Seq(Events) /\ batch[p] \in Seq(Events) /\ queue[p] # <<>>
      /\ drain[p] = "take" /\ drain' = drain
      /\ batch'[p] = Append(batch[p], e) /\ queue'[p] = Tail(queue[p])
    BY <1>0 DEF Take, TypeInv
<1>2. /\ UNCHANGED <<called, by, alive, flusher, covers, stream, published, dropped,
                     flushed, sender, lost, ended>>
      /\ Settled' = Settled
    BY DEF Take, Settled
<1>3. /\ e \in Events /\ queue'[p] \in Seq(Events)
      /\ Range(queue[p]) = {e} \cup Range(queue'[p])
      /\ \A f \in Range(queue'[p]) : e < f
      /\ Increasing(queue'[p])
    BY <1>0, <1>1, HeadFirst DEF LineOf
<1>4. batch'[p] \in Seq(Events) /\ Range(batch'[p]) = Range(batch[p]) \cup {e}
    BY <1>1, <1>3, RangeAppend
<1>5. Increasing(batch'[p])
    BY <1>0, <1>1, <1>3, IncreasingAppend DEF LineOf
<1> HIDE DEF e
<1>6. TypeInv'
    BY <1>0, <1>1, <1>2, <1>3, <1>4 DEF TypeInv, Take
<1>7. Others(p)
    BY <1>0, <1>1, <1>2 DEF Others, Take, TypeInv
<1>8. e \notin Range(queue'[p])
    BY <1>3 DEF Events
<1>9. OwnOf(p)'
    BY <1>0, <1>1, <1>2, <1>3, <1>4 DEF OwnOf
<1>10. LineOf(p)'
    BY <1>0, <1>1, <1>2, <1>3, <1>4, <1>5 DEF LineOf
<1>11. PlaceOf(p)'
    BY <1>0, <1>2, <1>3, <1>4, <1>8 DEF PlaceOf
<1>12. CoverOf(p)'
    BY <1>0, <1>2, <1>4 DEF CoverOf
<1>13. /\ \A m \in Events : by'[m] # None => m <= called'
       /\ \A m \in Events : sender'[m] \subseteq {by'[m]}
       /\ published' \cap dropped' = {} /\ published' \subseteq Range(stream')
       /\ (published' \cup dropped') \cap lost' = {} /\ \A m \in lost' : by'[m] \in ended'
       /\ \A m \in Range(batch[p]) : m \in Settled' \cup Range(batch'[p])
       /\ InOrder'
    BY <1>0, <1>2, <1>4 DEF OwnInv, PublisherInv, PlaceInv, InOrder
<1> QED
    BY <1>6, <1>7, <1>9, <1>10, <1>11, <1>12, <1>13, OneProcess DEF OfProcess

\* What the server has run of the batch of p is at the end of the stream, in order.
LEMMA SentKeeps ==
    ASSUME PublisherInv, NEW p \in Procs, by' = by,
           NEW a \in Prefixes(batch[p]), NEW b \in Prefixes(batch[p]), Sent(p, a \o b)
    PROVE  /\ stream' \in Seq(Events)
           /\ Range(stream') = Range(stream) \cup Range(a) \cup Range(b)
           /\ Range(a) \subseteq Range(batch[p]) /\ Range(b) \subseteq Range(batch[p])
           /\ \A m \in Range(batch[p]) : by[m] = p
           /\ sender' \in [Events -> SUBSET Procs]
           /\ \A m \in Events : sender'[m] \subseteq {by'[m]}
           /\ InOrder'
<1>0. TypeInv /\ OwnInv /\ OwnOf(p) /\ LineOf(p) /\ InOrder
    BY DEF PublisherInv, OwnInv, LineInv
<1> DEFINE c == batch[p]
<1>1. c \in Seq(Events) /\ stream \in Seq(Events) /\ Range(c) \in SUBSET Events
    BY <1>0, RangeIndex DEF TypeInv
<1>2. /\ a \in Seq(Events) /\ b \in Seq(Events)
      /\ Range(a) \subseteq Range(c) /\ Range(b) \subseteq Range(c)
    BY <1>1, PrefixParts
<1>3. a \o b \in Seq(Events) /\ Range(a \o b) = Range(a) \cup Range(b)
    BY <1>2, ConcatProperties, RangeConcatenation
<1>4. /\ stream' = stream \o (a \o b) /\ stream' \in Seq(Events)
      /\ Range(stream') = Range(stream) \cup Range(a) \cup Range(b)
    <2>1. stream' = stream \o (a \o b)
        BY DEF Sent
    <2>2. \A s \in Seq(Events) : /\ stream \o s \in Seq(Events)
                                 /\ Range(stream \o s) = Range(stream) \cup Range(s)
        BY <1>1, ConcatProperties, RangeConcatenation
    <2> QED
        BY <1>3, <2>1, <2>2
<1>5. \A m \in Range(c) : by[m] = p
    BY <1>0 DEF OwnOf
<1>6. /\ sender' \in [Events -> SUBSET Procs]
      /\ \A m \in Events : sender'[m] \subseteq {by'[m]}
    <2>1. ASSUME NEW m \in Events PROVE sender'[m] \in SUBSET Procs /\ sender'[m] \subseteq {by[m]}
        <3>1. sender'[m] = IF m \in Range(a \o b) THEN sender[m] \cup {p} ELSE sender[m]
            BY DEF Sent
        <3>2. m \in Range(a \o b) => by[m] = p
            BY <1>2, <1>3, <1>5
        <3> QED
            BY <1>0, <3>1, <3>2 DEF TypeInv, OwnInv
    <2>2. sender' = [m \in Events |-> sender'[m]]
        BY DEF Sent
    <2> QED
        BY <2>1, <2>2
<1>7. InOrder'
    <2>1. Ordered(stream)
        BY <1>0 DEF InOrder, Ordered
    <2>2. /\ Increasing(c)
          /\ \A m \in Range(stream) : by[m] = p => \A e \in Range(c) : m < e
        BY <1>0, RangeEmpty DEF LineOf, OwnOf
    <2> HIDE DEF c
    <2>3. Ordered(stream \o (a \o b))
        BY <1>1, <1>5, <2>1, <2>2, SentTwice DEF c
    <2>4. Ordered(stream)'
        BY <1>4, <2>3 DEF Ordered
    <2> QED
        BY <2>4 DEF InOrder, Ordered
<1> QED
    BY <1>2, <1>4, <1>5, <1>6, <1>7

\* Whatever becomes of the batch, it is counted, and what the server has run of
\* it is at the end of the stream.
LEMMA BatchLeaves ==
    ASSUME PublisherInv, NEW p \in Procs, drain[p] # "none",
           UNCHANGED <<called, by, alive, queue, flusher, covers, flushed, lost, ended>>,
           NEW place \in {"take", "backoff"}, drain' = [drain EXCEPT ![p] = place],
           batch' = [batch EXCEPT ![p] = <<>>],
           NEW a \in Prefixes(batch[p]), NEW b \in Prefixes(batch[p]), Sent(p, a \o b),
           \/ /\ published' = published \cup Range(batch[p]) /\ dropped' = dropped
              /\ b = batch[p]
           \/ published' = published /\ dropped' = dropped \cup Range(batch[p])
    PROVE  PublisherInv'
<1>0. TypeInv /\ OwnInv /\ OwnOf(p) /\ LineOf(p) /\ PlaceOf(p) /\ CoverOf(p)
    BY DEF PublisherInv, OwnInv, LineInv, PlaceInv, CoverInv
<1> DEFINE c == batch[p]
<1>1. /\ stream' \in Seq(Events)
      /\ Range(stream') = Range(stream) \cup Range(a) \cup Range(b)
      /\ Range(a) \subseteq Range(c) /\ Range(b) \subseteq Range(c)
      /\ sender' \in [Events -> SUBSET Procs]
      /\ \A m \in Events : sender'[m] \subseteq {by'[m]}
      /\ InOrder'
    BY SentKeeps
<1>2. Range(c) \in SUBSET Events
    BY <1>0, RangeIndex DEF TypeInv
<1>3. /\ \A m \in Range(c) : by[m] = p
      /\ \A m \in Range(c) : m \notin Settled /\ m \notin Range(queue[p])
    BY <1>0, <1>2 DEF OwnOf, PlaceOf
<1>4. /\ Settled' = Settled \cup Range(c)
      /\ published' \in SUBSET Events /\ dropped' \in SUBSET Events
    BY <1>0, <1>2 DEF Settled, TypeInv
<1>5. batch'[p] = <<>> /\ Range(batch'[p]) = {} /\ drain'[p] # "none"
    BY <1>0, RangeEmpty DEF TypeInv
<1> HIDE DEF c
<1>6. TypeInv'
    BY <1>0, <1>1, <1>4, EmptySeq DEF TypeInv
<1>7. Others(p)
    <2>1. \A q \in Procs \ {p} : batch'[q] = batch[q] /\ drain'[q] = drain[q]
        BY <1>0 DEF TypeInv
    <2>2. /\ Range(stream) \subseteq Range(stream')
          /\ \A m \in Range(stream') \ Range(stream) : by'[m] = p
          /\ Settled \subseteq Settled' /\ \A m \in Settled' \ Settled : by'[m] = p
        BY <1>1, <1>3, <1>4
    <2> QED
        BY <2>1, <2>2 DEF Others
<1>8. OwnOf(p)'
    BY <1>0, <1>5 DEF OwnOf
<1>9. LineOf(p)'
    <2>1. Increasing(<<>>)
        BY EmptySeq DEF Increasing
    <2>2. \A m \in Range(stream') : by[m] = p => m \in Range(stream) \/ m \in Range(c)
        BY <1>1
    <2>3. \A m \in Range(stream) \cup Range(c) : by[m] = p => \A e \in Range(queue[p]) : m < e
        BY <1>0 DEF LineOf, c
    <2> QED
        BY <1>0, <1>5, <2>1, <2>2, <2>3 DEF LineOf
<1>10. PlaceOf(p)'
    BY <1>0, <1>3, <1>4, <1>5 DEF PlaceOf, c
<1>11. CoverOf(p)'
    BY <1>0, <1>4, <1>5 DEF CoverOf, c
<1>12. /\ \A m \in Events : by'[m] # None => m <= called'
       /\ published' \cap dropped' = {}
       /\ published' \subseteq Range(stream')
       /\ (published' \cup dropped') \cap lost' = {}
       /\ \A m \in lost' : by'[m] \in ended'
       /\ \A m \in Range(batch[p]) : m \in Settled' \cup Range(batch'[p])
    <2>1. /\ published \cap dropped = {} /\ published \subseteq Range(stream)
          /\ (published \cup dropped) \cap lost = {}
          /\ \A m \in lost : by[m] \in ended
        BY DEF PublisherInv, PlaceInv
    <2>2. published' \cap dropped' = {} /\ (published' \cup dropped') \cap lost' = {}
        BY <1>3, <2>1 DEF Settled, c
    <2>3. published' \subseteq Range(stream')
        BY <1>1, <2>1 DEF c
    <2> QED
        BY <1>0, <1>4, <2>1, <2>2, <2>3 DEF OwnInv, c
<1> QED
    BY <1>1, <1>6, <1>7, <1>8, <1>9, <1>10, <1>11, <1>12, OneProcess DEF OfProcess

\* Nothing of a batch is a prefix of it.
LEMMA NothingIsPrefix ==
    ASSUME NEW s \in Seq(Events)
    PROVE  <<>> \in Prefixes(s) /\ <<>> \o <<>> = <<>>
<1>1. 0 \in 0..Len(s) /\ SubSeq(s, 1, 0) = <<>>
    BY RangeIndex, SubSeqEmpty
<1> QED
    BY <1>1, EmptySeq, ConcatEmptySeq DEF Prefixes

LEMMA SendStep ==
    ASSUME PublisherInv, NEW p \in Procs, Execute(p) \/ ExecuteFails(p) \/ ConnectFails(p)
    PROVE  PublisherInv'
<1> USE DEF outcomeVars, endVars
<1>1. batch[p] \in Seq(Events)
    BY DEF PublisherInv, TypeInv
<1>2. CASE Execute(p)
    <2>1. PICK before \in Prefixes(batch[p]) : Sent(p, before \o batch[p])
        BY <1>2 DEF Execute
    <2>2. batch[p] \in Prefixes(batch[p])
        BY <1>1, WholeIsPrefix
    <2>3. /\ drain[p] # "none"
          /\ UNCHANGED <<called, by, alive, queue, flusher, covers, flushed, lost, ended>>
          /\ drain' = [drain EXCEPT ![p] = "take"]
          /\ batch' = [batch EXCEPT ![p] = <<>>]
          /\ published' = published \cup Range(batch[p]) /\ dropped' = dropped
        BY <1>2 DEF Execute
    <2> QED
        BY <2>1, <2>2, <2>3, BatchLeaves
<1>3. CASE ExecuteFails(p)
    <2>1. PICK first, again \in Prefixes(batch[p]) : Sent(p, first \o again)
        BY <1>3 DEF ExecuteFails
    <2>2. /\ drain[p] # "none"
          /\ UNCHANGED <<called, by, alive, queue, flusher, covers, flushed, lost, ended>>
          /\ drain' = [drain EXCEPT ![p] = "backoff"]
          /\ batch' = [batch EXCEPT ![p] = <<>>]
          /\ published' = published /\ dropped' = dropped \cup Range(batch[p])
        BY <1>3 DEF ExecuteFails, DropBatch
    <2> QED
        BY <2>1, <2>2, BatchLeaves
<1>4. CASE ConnectFails(p)
    <2>1. /\ drain[p] # "none"
          /\ UNCHANGED <<called, by, alive, queue, flusher, covers, flushed, stream, sender,
                        lost, ended>>
          /\ drain' = [drain EXCEPT ![p] = "backoff"]
          /\ batch' = [batch EXCEPT ![p] = <<>>]
          /\ published' = published /\ dropped' = dropped \cup Range(batch[p])
        BY <1>4 DEF ConnectFails, DropBatch
    <2>2. Sent(p, <<>> \o <<>>)
        <3>1. stream \o (<<>> \o <<>>) = stream
            BY <1>1, NothingIsPrefix, ConcatEmptySeq DEF PublisherInv, TypeInv
        <3>2. Range(<<>> \o <<>>) = {}
            BY <1>1, NothingIsPrefix, RangeEmpty
        <3>3. sender = [m \in Events |-> sender[m]]
            BY DEF PublisherInv, TypeInv
        <3> QED
            BY <2>1, <3>1, <3>2, <3>3 DEF Sent
    <2> QED
        BY <1>1, <2>1, <2>2, NothingIsPrefix, BatchLeaves
<1> QED
    BY <1>2, <1>3, <1>4

LEMMA ForkStep ==
    ASSUME PublisherInv, NEW p \in Procs, NEW q \in Procs, Fork(p, q)
    PROVE  PublisherInv'
<1> USE DEF outcomeVars, endVars
<1>0. TypeInv /\ OwnInv /\ OwnOf(p) /\ OwnOf(q) /\ LineOf(p) /\ LineOf(q) /\ CoverOf(q) /\ InOrder
    BY DEF PublisherInv, OwnInv, LineInv, PlaceInv, CoverInv
<1>1. /\ UNCHANGED <<called, by, batch, flusher, covers, stream, published, dropped,
                     flushed, sender, lost, ended>>
      /\ Settled' = Settled /\ drain[q] = "none" /\ ~alive[q] /\ q \notin ended
    BY <1>0 DEF Fork, Settled, OwnOf
<1>2. /\ queue' = [queue EXCEPT ![q] = IF closed[p] THEN queue[p] ELSE <<>>]
      /\ drain' = [drain EXCEPT ![q] = IF closed[p] THEN "none" ELSE "take"]
      /\ alive' = [alive EXCEPT ![q] = TRUE]
    BY DEF Fork
<1>3. /\ alive'[q] /\ batch'[q] = <<>> /\ Range(batch'[q]) = {}
      /\ \/ queue'[q] = <<>> /\ Range(queue'[q]) = {}
         \/ drain'[q] = "none" /\ queue'[q] = queue[p]
    BY <1>0, <1>1, <1>2, RangeEmpty DEF TypeInv, OwnOf
<1>4. \A m \in Events : by[m] # q
    BY <1>0, <1>1 DEF OwnOf
<1>5. TypeInv'
    BY <1>0, <1>1, <1>2, EmptySeq DEF TypeInv
<1>6. Others(q)
    BY <1>0, <1>1, <1>2 DEF Others, TypeInv
<1>7. OwnOf(q)'
    BY <1>0, <1>1, <1>3 DEF OwnOf
<1>8. LineOf(q)'
    <2>1. Increasing(<<>>)
        BY EmptySeq DEF Increasing
    <2>2. Increasing(queue'[q]) /\ Increasing(batch'[q])
        BY <1>0, <1>3, <2>1 DEF LineOf
    <2>3. \A e \in Range(batch'[q]), f \in Range(queue'[q]) : e < f
        BY <1>3
    <2>4. \A m \in Range(stream) : by[m] # q
        BY <1>0, <1>4, RangeIndex DEF TypeInv
    <2> QED
        BY <1>1, <2>2, <2>3, <2>4 DEF LineOf
<1>9. PlaceOf(q)'
    BY <1>1, <1>4 DEF PlaceOf
<1>10. CoverOf(q)'
    BY <1>0, <1>1 DEF CoverOf
<1>11. /\ \A m \in Events : by'[m] # None => m <= called'
       /\ \A m \in Events : sender'[m] \subseteq {by'[m]}
       /\ published' \cap dropped' = {} /\ published' \subseteq Range(stream')
       /\ (published' \cup dropped') \cap lost' = {} /\ \A m \in lost' : by'[m] \in ended'
       /\ \A m \in Range(batch[q]) : m \in Settled' \cup Range(batch'[q])
       /\ InOrder'
    BY <1>0, <1>1 DEF OwnInv, PublisherInv, PlaceInv, InOrder
<1> QED
    BY <1>5, <1>6, <1>7, <1>8, <1>9, <1>10, <1>11, OneProcess DEF OfProcess

\* A process ends: all it still had of its own is gone with it.
LEMMA EndStep ==
    ASSUME PublisherInv, NEW p \in Procs, ProcessEnds(p)
    PROVE  PublisherInv'
<1> USE DEF outcomeVars, endVars
<1>0. TypeInv /\ OwnInv /\ OwnOf(p) /\ LineOf(p) /\ PlaceOf(p) /\ CoverOf(p)
    BY DEF PublisherInv, OwnInv, LineInv, PlaceInv, CoverInv
<1> DEFINE gone == {m \in Accepted(p) : m \in Range(queue[p]) \cup Range(batch[p])}
<1>1. /\ UNCHANGED <<called, by, published, dropped, flushed>>
      /\ ended' = ended \cup {p} /\ lost' = lost \cup gone
      /\ alive' = [alive EXCEPT ![p] = FALSE]
      /\ queue' = [queue EXCEPT ![p] = <<>>] /\ batch' = [batch EXCEPT ![p] = <<>>]
      /\ drain' = [drain EXCEPT ![p] = "none"]
      /\ flusher' = [flusher EXCEPT ![p] = "idle"] /\ covers' = [covers EXCEPT ![p] = {}]
    BY DEF ProcessEnds
<1>2. PICK a \in Prefixes(batch[p]), b \in Prefixes(batch[p]) : Sent(p, a \o b)
    <2>1. <<>> \in Prefixes(batch[p])
        BY <1>0, NothingIsPrefix DEF TypeInv
    <2> QED
        BY <2>1 DEF ProcessEnds
<1>3. /\ stream' \in Seq(Events)
      /\ Range(stream') = Range(stream) \cup Range(a) \cup Range(b)
      /\ Range(a) \subseteq Range(batch[p]) /\ Range(b) \subseteq Range(batch[p])
      /\ \A m \in Range(batch[p]) : by[m] = p
      /\ sender' \in [Events -> SUBSET Procs]
      /\ \A m \in Events : sender'[m] \subseteq {by'[m]}
      /\ InOrder'
    BY <1>1, <1>2, SentKeeps
<1>4. /\ gone \in SUBSET Events /\ \A m \in gone : by[m] = p
      /\ \A m \in gone : m \notin Settled
      /\ \A m \in Events : by[m] = p /\ m \in Range(queue[p]) \cup Range(batch[p]) => m \in gone
    BY <1>0 DEF Accepted, PlaceOf
<1>5. Range(batch[p]) \in SUBSET Events
    BY <1>0, RangeIndex DEF TypeInv
<1> HIDE DEF gone
<1>6. Settled' = Settled \cup gone
    BY <1>1 DEF Settled
<1>7. /\ ~alive'[p] /\ p \in ended' /\ queue'[p] = <<>> /\ batch'[p] = <<>> /\ drain'[p] = "none"
      /\ flusher'[p] = "idle" /\ covers'[p] = {}
      /\ Range(queue'[p]) = {} /\ Range(batch'[p]) = {}
    BY <1>0, <1>1, RangeEmpty DEF TypeInv
<1>8. TypeInv'
    BY <1>0, <1>1, <1>3, <1>4, EmptySeq DEF TypeInv
<1>9. Others(p)
    <2>1. \A q \in Procs \ {p} :
             /\ queue'[q] = queue[q] /\ batch'[q] = batch[q]
             /\ drain'[q] = drain[q] /\ alive'[q] = alive[q]
             /\ flusher'[q] = flusher[q] /\ covers'[q] = covers[q]
             /\ q \in ended' <=> q \in ended
        BY <1>0, <1>1 DEF TypeInv
    <2>2. /\ Range(stream) \subseteq Range(stream')
          /\ \A m \in Range(stream') \ Range(stream) : by'[m] = p
          /\ Settled \subseteq Settled' /\ \A m \in Settled' \ Settled : by'[m] = p
        BY <1>1, <1>3, <1>4, <1>6
    <2> QED
        BY <1>1, <2>1, <2>2 DEF Others
<1>10. OwnOf(p)'
    BY <1>7 DEF OwnOf
<1>11. LineOf(p)'
    <2>1. Increasing(<<>>)
        BY EmptySeq DEF Increasing
    <2> QED
        BY <1>7, <2>1 DEF LineOf
<1>12. PlaceOf(p)'
    BY <1>0, <1>1, <1>4, <1>6, <1>7 DEF PlaceOf
<1>13. CoverOf(p)'
    BY <1>7 DEF CoverOf
<1>14. /\ \A m \in Events : by'[m] # None => m <= called'
       /\ published' \cap dropped' = {}
       /\ published' \subseteq Range(stream')
       /\ (published' \cup dropped') \cap lost' = {}
       /\ \A m \in lost' : by'[m] \in ended'
       /\ \A m \in Range(batch[p]) : m \in Settled' \cup Range(batch'[p])
    <2>1. /\ published \cap dropped = {} /\ published \subseteq Range(stream)
          /\ (published \cup dropped) \cap lost = {}
          /\ \A m \in lost : by[m] \in ended
        BY DEF PublisherInv, PlaceInv
    <2>2. (published' \cup dropped') \cap lost' = {}
        BY <1>1, <1>4, <2>1 DEF Settled
    <2>3. \A m \in Range(batch[p]) : m \in Settled'
        BY <1>3, <1>4, <1>5, <1>6
    <2> QED
        BY <1>0, <1>1, <1>3, <1>4, <2>1, <2>2, <2>3 DEF OwnInv
<1> QED
    BY <1>3, <1>8, <1>9, <1>10, <1>11, <1>12, <1>13, <1>14, OneProcess DEF OfProcess

LEMMA PublisherStep == PublisherInv /\ [Next]_vars => PublisherInv'
<1> SUFFICES ASSUME PublisherInv, [Next]_vars PROVE PublisherInv'
    OBVIOUS
<1>1. ASSUME NEW p \in Procs, Drain(p) \/ Flushing(p) \/ Closing(p) PROVE PublisherInv'
    BY <1>1, QuietSteps, TakeStep, SendStep DEF Drain, QuietStep
<1>2. CASE UNCHANGED vars
    <2>1. Quiet /\ NoFlush /\ drain' = drain
        BY <1>2 DEF vars, threadVars, outcomeVars, endVars, Quiet, NoFlush
    <2>2. TypeInv' /\ CoverInv'
        BY <2>1, QuietType DEF PublisherInv, TypeInv, CoverInv, CoverOf, Quiet, NoFlush, Settled
    <2> QED
        BY <2>1, <2>2, QuietKeeps
<1> QED
    BY <1>1, <1>2, PublishStep, ForkStep, EndStep DEF Next

LEMMA PublisherAlways == Spec => []PublisherInv
BY InitPublisher, PublisherStep, PTL DEF Spec

-------------------------------------------------------------------------------
(* Theorems                                                                *)

\* Accounted: an accepted event is in one place, and what is published is in the
\* stream, whatever Redis does and whenever a process closes its publisher, forks
\* or ends; what went with a process is what it had when it ended.
THEOREM NothingUncounted == Spec => []Accounted
<1>1. PublisherInv => Accounted
    BY DEF PublisherInv, PlaceInv, PlaceOf, CoverInv, Settled, Accounted, Accepted
<1> QED
    BY <1>1, PublisherAlways, PTL

\* OwnEventsOnly: no process sends what another published.
THEOREM OwnOnly == Spec => []OwnEventsOnly
<1>1. PublisherInv => OwnEventsOnly
    BY DEF PublisherInv, OwnInv, OwnEventsOnly
<1> QED
    BY <1>1, PublisherAlways, PTL

\* InOrder: the events of a process enter the stream in the order of its calls,
\* pipelines that are sent twice included.
THEOREM StreamInOrder == Spec => []InOrder
<1>1. PublisherInv => InOrder
    BY DEF PublisherInv
<1> QED
    BY <1>1, PublisherAlways, PTL

===============================================================================
