---------------------------- MODULE Guardrail_proofs ----------------------------
(***************************************************************************)
(* Theorems about Guardrail, for any number of scanners and storage        *)
(* writers, any events and traces, and any batches; and about what its     *)
(* detectors report of a text and of a prompt (MCDetectors).               *)
(***************************************************************************)
EXTENDS Guardrail, MCDetectors, FiniteSetTheorems, SequenceTheorems, WellFoundedInduction, TLAPS

\* The traces a process has to lock, those it has locked included.
Work(p) == TracesOf(IF p \in Scanners THEN Scannable(batch[p]) ELSE batch[p])

TypeInv ==
    /\ pc \in [Procs -> {"idle", "read", "upsert", "commit"}]
    /\ \A w \in Writers : pc[w] # "read"
    /\ batch \in [Procs -> SUBSET Ids]
    /\ todo \in [Procs -> SUBSET Traces]

\* What a scanner has written and not committed is a record of three fields.
OwnInv ==
    /\ own = [s \in Scanners |-> own[s]]
    /\ \A s \in Scanners :
          own[s] = [stored |-> own[s].stored, rows |-> own[s].rows, alerts |-> own[s].alerts]

\* A transaction has locked the lowest of its traces, and has some left until it commits.
OrderInv ==
    \A p \in Procs : pc[p] # "idle" =>
        /\ todo[p] \subseteq Work(p)
        /\ \A t \in Work(p) \ todo[p], u \in todo[p] : t < u
        /\ pc[p] = "commit" <=> todo[p] = {}

\* What a scanner has inserted is of traces it has locked, or of the one it is about to.
KeyInv ==
    \A s \in Scanners :
        /\ pc[s] = "idle" => own[s] = NothingOwn
        /\ \A x \in own[s].stored :
              /\ x.trace \in Work(s)
              /\ x.trace \in todo[s] => pc[s] = "upsert" /\ x.trace = NextTrace(s)

LockInv == TypeInv /\ OwnInv /\ OrderInv /\ KeyInv

-------------------------------------------------------------------------------
(* Numbers and traces                                                      *)

\* A set of naturals that is not empty has a least element.
LEMMA LeastElement ==
    ASSUME NEW S \in SUBSET Nat, S # {}
    PROVE  \E x \in S : \A y \in S : x <= y
<1> DEFINE Smaller == {p \in Nat \X Nat : p[1] < p[2]}
<1>1. IsWellFoundedOn(Smaller, Nat)
    BY NatLessThanWellFounded DEF OpToRel
<1>2. \A x, y \in S : y < x => <<y, x>> \in Smaller
    OBVIOUS
<1>3. PICK x \in S : \A y \in S : <<y, x>> \notin Smaller
    <2> HIDE DEF Smaller
    <2> QED
        BY <1>1, WFMin
<1> HIDE DEF Smaller
<1>4. \A y \in S : ~(y < x)
    BY <1>2, <1>3
<1>5. \A y \in S : x <= y
    BY <1>4
<1> QED
    BY <1>5

\* Induction over the natural numbers, for a set of them.
LEMMA Induction ==
    ASSUME NEW P \in SUBSET Nat, 0 \in P, \A n \in P : n + 1 \in P
    PROVE  P = Nat
<1> SUFFICES ASSUME Nat \ P # {}
             PROVE  FALSE
    OBVIOUS
<1>1. PICK x \in Nat \ P : \A y \in Nat \ P : x <= y
    BY LeastElement
<1>2. x # 0 /\ x - 1 \in Nat /\ x - 1 \in P
    BY <1>1
<1> QED
    BY <1>1, <1>2

\* f is built up from base, step by step.
Follows(f, n, base, step) ==
    f[0] = base /\ \A i \in 1 .. n : f[i] = step[<<i, f[i - 1]>>]

\* A function that is defined by its last value: there is one.
LEMMA Recursion ==
    ASSUME NEW n \in Nat, NEW S, NEW base \in S, NEW step \in [(1 .. n) \X S -> S]
    PROVE  \E f \in [0 .. n -> S] : Follows(f, n, base, step)
<1> DEFINE Good(m, f) == /\ f \in [0 .. m -> S]
                         /\ f[0] = base
                         /\ \A i \in 1 .. m : f[i] = step[<<i, f[i - 1]>>]
           P == {m \in Nat : m <= n => \E f : Good(m, f)}
<1>1. 0 \in P
    <2>1. Good(0, [i \in 0 .. 0 |-> base])
        OBVIOUS
    <2> QED
        BY <2>1
<1>2. ASSUME NEW m \in P
      PROVE  m + 1 \in P
    <2> SUFFICES ASSUME m + 1 <= n
                 PROVE  \E f : Good(m + 1, f)
        BY <1>2
    <2>1. PICK f : Good(m, f)
        BY <1>2
    <2>2. m \in Nat /\ m + 1 \in 1 .. n /\ f[m] \in S
        BY <1>2, <2>1
    <2>3. step[<<m + 1, f[m]>>] \in S
        BY <2>2
    <2> DEFINE g == [i \in 0 .. m + 1 |-> IF i = m + 1 THEN step[<<m + 1, f[m]>>] ELSE f[i]]
    <2>4. g \in [0 .. m + 1 -> S]
        BY <2>1, <2>2, <2>3
    <2>5. g[0] = base
        BY <2>1, <2>2
    <2>6. ASSUME NEW i \in 1 .. m + 1
          PROVE  g[i] = step[<<i, g[i - 1]>>]
        <3>1. i - 1 \in 0 .. m /\ g[i - 1] = f[i - 1]
            BY <2>2
        <3>2. CASE i = m + 1
            <4>1. i - 1 = m /\ g[i] = step[<<m + 1, f[m]>>]
                BY <2>2, <3>2
            <4> QED
                BY <3>1, <3>2, <4>1
        <3>3. CASE i # m + 1
            <4>1. i \in 1 .. m /\ g[i] = f[i]
                BY <2>2, <3>3
            <4> QED
                BY <2>1, <3>1, <4>1
        <3> QED
            BY <3>2, <3>3
    <2> HIDE DEF g
    <2>7. Good(m + 1, g)
        BY <2>4, <2>5, <2>6
    <2> QED
        BY <2>7
<1> HIDE DEF Good
<1>3. P = Nat
    <2>1. P \in SUBSET Nat
        OBVIOUS
    <2> HIDE DEF P
    <2> QED
        BY <1>1, <1>2, <2>1, Induction
<1>4. PICK f : Good(n, f)
    BY <1>3
<1> QED
    BY <1>4 DEF Good, Follows

\* R orders S strictly, and any two members of S.
Orders(R, S) ==
    /\ \A x \in S : <<x, x>> \notin R
    /\ \A x, y, z \in S : <<x, y>> \in R /\ <<y, z>> \in R => <<x, z>> \in R
    /\ \A x, y \in S : x = y \/ <<x, y>> \in R \/ <<y, x>> \in R

\* SortedBy has each member of S once, and has them in the order of R.
LEMMA Sorting ==
    ASSUME NEW S, IsFiniteSet(S), NEW R, Orders(R, S)
    PROVE  LET order == SortedBy(S, R)
           IN  /\ order \in [1 .. Cardinality(S) -> S]
               /\ \A x \in S : \E n \in 1 .. Cardinality(S) : order[n] = x
               /\ \A m, n \in 1 .. Cardinality(S) : m < n => <<order[m], order[n]>> \in R
               /\ \A n \in 1 .. Cardinality(S) :
                     Cardinality({y \in S : <<y, order[n]>> \in R}) = n - 1
<1> DEFINE size == Cardinality(S)
           Lower(x) == {y \in S : <<y, x>> \in R}
           rank == [x \in S |-> Cardinality(Lower(x)) + 1]
           order == SortedBy(S, R)
           pick(n) == CHOOSE x \in S : Cardinality(Lower(x)) = n - 1
<1>1. size \in Nat
    BY FS_CardinalityType
<1>2. ASSUME NEW x \in S
      PROVE  IsFiniteSet(Lower(x)) /\ Cardinality(Lower(x)) \in 0 .. size - 1
    <2>1. Lower(x) \in SUBSET S /\ x \notin Lower(x)
        BY DEF Orders
    <2>2. IsFiniteSet(Lower(x)) /\ Cardinality(Lower(x)) <= size /\ Cardinality(Lower(x)) # size
        BY <2>1, FS_Subset
    <2> QED
        BY <1>1, <2>2, FS_CardinalityType
<1>3. ASSUME NEW x \in S, NEW y \in S, <<x, y>> \in R
      PROVE  Cardinality(Lower(x)) < Cardinality(Lower(y))
    <2>1. Lower(x) \in SUBSET Lower(y) /\ x \in Lower(y) /\ x \notin Lower(x)
        BY <1>3 DEF Orders
    <2>2. Cardinality(Lower(x)) <= Cardinality(Lower(y)) /\ Cardinality(Lower(x)) # Cardinality(Lower(y))
        BY <1>2, <2>1, FS_Subset
    <2> QED
        BY <1>2, <2>2
<1> HIDE DEF Lower
<1>4. ASSUME NEW x \in S, NEW y \in S, Cardinality(Lower(x)) = Cardinality(Lower(y))
      PROVE  x = y
    <2>1. Cardinality(Lower(x)) \in Nat
        BY <1>1, <1>2
    <2>2. <<x, y>> \notin R /\ <<y, x>> \notin R
        BY <1>3, <1>4, <2>1
    <2> QED
        BY <2>2 DEF Orders
<1>5. rank \in [S -> 1 .. size]
    BY <1>1, <1>2
<1>6. rank \in Injection(S, 1 .. size)
    <2>1. \A x, y \in DOMAIN rank : rank[x] = rank[y] => x = y
        BY <1>2, <1>4
    <2> HIDE DEF rank
    <2> QED
        BY <1>5, <2>1 DEF Injection, IsInjective
<1>7. IsFiniteSet(1 .. size) /\ Cardinality(1 .. size) = size
    BY <1>1, FS_Interval
<1>8. \A n \in 1 .. size : \E x \in S : rank[x] = n
    <2> HIDE DEF rank
    <2>1. rank \in Surjection(S, 1 .. size)
        BY <1>6, <1>7, FS_Injection
    <2> QED
        BY <2>1 DEF Surjection
<1>9. ASSUME NEW n \in 1 .. size
      PROVE  pick(n) \in S /\ Cardinality(Lower(pick(n))) = n - 1
    <2>1. \E x \in S : Cardinality(Lower(x)) = n - 1
        BY <1>2, <1>8
    <2> QED
        BY <2>1
<1>10. order = [n \in 1 .. size |-> pick(n)]
    BY DEF SortedBy, Lower
<1>11. \A n \in 1 .. size : order[n] \in S /\ Cardinality(Lower(order[n])) = n - 1
    BY <1>9, <1>10
<1>12. order \in [1 .. size -> S]
    BY <1>9, <1>10
<1> HIDE DEF order, pick
<1>13. ASSUME NEW x \in S
       PROVE  \E n \in 1 .. size : order[n] = x
    <2> DEFINE n == Cardinality(Lower(x)) + 1
    <2>1. n \in 1 .. size
        BY <1>1, <1>2
    <2>2. order[n] \in S /\ Cardinality(Lower(order[n])) = Cardinality(Lower(x))
        BY <1>2, <1>11, <2>1
    <2>3. order[n] = x
        BY <1>4, <2>2
    <2> QED
        BY <2>1, <2>3
<1>14. ASSUME NEW m \in 1 .. size, NEW n \in 1 .. size, m < n
       PROVE  <<order[m], order[n]>> \in R
    <2>1. order[m] \in S /\ order[n] \in S
        BY <1>11
    <2>2. Cardinality(Lower(order[m])) < Cardinality(Lower(order[n]))
        BY <1>11, <1>14
    <2>3. order[m] # order[n]
        BY <2>2, <1>2, <2>1
    <2>4. <<order[n], order[m]>> \notin R
        BY <1>2, <1>3, <2>1, <2>2
    <2> QED
        BY <2>1, <2>3, <2>4 DEF Orders
<1> QED
    BY <1>11, <1>12, <1>13, <1>14 DEF order, Lower

-------------------------------------------------------------------------------
(* The detectors                                                           *)

LEMMA DetectorBounds ==
    /\ Len(Patterns) \in Nat
    /\ \A p \in 1 .. Len(Patterns) :
          Patterns[p].severity \in Severity /\ Patterns[p].score \in Score
    /\ MaxMatches \in Nat \ {0}
    /\ Threshold \in Nat \ {0}
<1>1. Patterns \in Seq([severity : Severity, score : Score])
    BY DetectorsAssumption
<1>2. \A p \in 1 .. Len(Patterns) : Patterns[p] \in [severity : Severity, score : Score]
    BY <1>1, ElementOfSeq
<1>3. Len(Patterns) \in Nat
    BY <1>1, LenProperties
<1> QED
    BY <1>2, <1>3, DetectorsAssumption DEF Score

\* The places of the valid hits of a pattern, and those of them before the k-th hit.
ValidPlaces(hs) == {i \in DOMAIN hs : hs[i].valid}
PlacesBefore(hs, k) == {j \in ValidPlaces(hs) : j < k}

\* What is taken of a pattern's hits: valid ones, as many as there is room for, and
\* among them the first, and each with fewer than max_matches before it.
LEMMA TakenMatches ==
    ASSUME NEW p \in 1 .. Len(Patterns), NEW hs \in Seq(RawHit), NEW n \in Nat
    PROVE  /\ Taken(p, hs, n) \in Seq(Match)
           /\ Len(Taken(p, hs, n)) <= IF n < MaxMatches THEN MaxMatches - n ELSE 1
           /\ IsFiniteSet(ValidPlaces(hs)) /\ Len(Taken(p, hs, n)) <= Cardinality(ValidPlaces(hs))
           /\ \A i \in 1 .. Len(Taken(p, hs, n)) :
                 \E k \in ValidPlaces(hs) : Taken(p, hs, n)[i] = MatchOf(p, hs[k])
           /\ \A k \in ValidPlaces(hs) :
                 \/ n + Cardinality(PlacesBefore(hs, k)) < MaxMatches
                 \/ PlacesBefore(hs, k) = {}
                 => \E i \in 1 .. Len(Taken(p, hs, n)) : Taken(p, hs, n)[i] = MatchOf(p, hs[k])
<1> DEFINE places == ValidPlaces(hs)
           R == {q \in places \X places : q[1] < q[2]}
           valid == SortedBy(places, R)
           size == Cardinality(places)
           room == IF n < MaxMatches THEN MaxMatches - n ELSE 1
           count == IF Len(valid) < room THEN Len(valid) ELSE room
<1>1. DOMAIN hs = 1 .. Len(hs) /\ Len(hs) \in Nat
    BY LenProperties
<1>2. places \subseteq 1 .. Len(hs) /\ IsFiniteSet(places) /\ size \in Nat
    <2>1. IsFiniteSet(1 .. Len(hs)) /\ places \in SUBSET (1 .. Len(hs))
        BY <1>1, FS_Interval DEF ValidPlaces
    <2> QED
        BY <2>1, FS_Subset, FS_CardinalityType
<1>a. \A k \in places : PlacesBefore(hs, k) = {y \in places : <<y, k>> \in R}
    BY DEF PlacesBefore
<1> HIDE DEF places
<1>3. Orders(R, places)
    <2>1. \A x \in places : x \in Nat
        BY <1>1, <1>2
    <2> QED
        BY <2>1 DEF Orders
<1> HIDE DEF R
<1>4. /\ valid \in [1 .. size -> places]
      /\ \A k \in places : \E m \in 1 .. size : valid[m] = k
      /\ \A m \in 1 .. size : Cardinality({y \in places : <<y, valid[m]>> \in R}) = m - 1
    BY <1>2, <1>3, Sorting
<1> HIDE DEF valid, size
<1>5. valid \in Seq(places) /\ Len(valid) = size
    BY <1>2, <1>4, LenProperties
<1>6. count \in Nat /\ count <= size /\ count <= room
    BY <1>2, <1>5, DetectorBounds
<1>7. Taken(p, hs, n) = [i \in 1 .. count |-> MatchOf(p, hs[valid[i]])]
    BY DEF Taken, valid, R, places, ValidPlaces
<1> HIDE DEF count, room
<1>8. ASSUME NEW i \in 1 .. count
      PROVE  MatchOf(p, hs[valid[i]]) \in Match
    <2>0. i \in 1 .. size
        BY <1>2, <1>6
    <2>1. valid[i] \in 1 .. Len(hs)
        BY <1>2, <1>4, <2>0
    <2>2. hs[valid[i]] \in RawHit
        BY <2>1, ElementOfSeq
    <2>3. hs[valid[i]].start \in Nat /\ hs[valid[i]].end \in Nat
        BY <2>2 DEF RawHit
    <2> QED
        BY <2>3, DetectorBounds DEF MatchOf, Match
<1>9. Taken(p, hs, n) \in [1 .. count -> Match]
    BY <1>7, <1>8
<1>10. Taken(p, hs, n) \in Seq(Match) /\ Len(Taken(p, hs, n)) = count
    BY <1>6, <1>9, LenProperties
<1>11. ASSUME NEW i \in 1 .. count
       PROVE  valid[i] \in places /\ Taken(p, hs, n)[i] = MatchOf(p, hs[valid[i]])
    <2>1. i \in 1 .. size
        BY <1>2, <1>6
    <2> QED
        BY <1>4, <1>7, <2>1
<1>12. ASSUME NEW k \in places,
              n + Cardinality(PlacesBefore(hs, k)) < MaxMatches \/ PlacesBefore(hs, k) = {}
       PROVE  \E i \in 1 .. count : Taken(p, hs, n)[i] = MatchOf(p, hs[k])
    <2>1. PICK m \in 1 .. size : valid[m] = k
        BY <1>4
    <2>2. Cardinality(PlacesBefore(hs, k)) = m - 1
        BY <1>4, <1>a, <2>1
    <2>3. m \in 1 .. count
        <3>1. m <= room
            <4>1. CASE PlacesBefore(hs, k) = {}
                BY <2>1, <2>2, <4>1, FS_EmptySet, DetectorBounds DEF room
            <4>2. CASE n + Cardinality(PlacesBefore(hs, k)) < MaxMatches
                BY <1>2, <2>1, <2>2, <4>2, DetectorBounds DEF room
            <4> QED
                BY <1>12, <4>1, <4>2
        <3> QED
            BY <1>2, <1>5, <2>1, <3>1 DEF count
    <2> QED
        BY <1>11, <2>1, <2>3
<1> QED
    BY <1>2, <1>6, <1>10, <1>11, <1>12 DEF room, places, size

\* The valid hits of the patterns up to p.
HitsUpTo(raw, p) == {h \in ValidHits(raw) : h[1] <= p}

\* What the loop has found when it has done p patterns: it is made of valid hits, of no
\* more than there are, and has all of them that the limit does not cut off.
FoundSoFar(raw, p, s) ==
    /\ s \in Seq(Match)
    /\ Len(s) < MaxMatches + p
    /\ IsFiniteSet(HitsUpTo(raw, p)) /\ Len(s) <= Cardinality(HitsUpTo(raw, p))
    /\ \A i \in 1 .. Len(s) : \E h \in HitsUpTo(raw, p) : s[i] = HitOf(raw, h)
    /\ \A h \in HitsUpTo(raw, p) : CutOff(raw, h) \/ \E i \in 1 .. Len(s) : s[i] = HitOf(raw, h)

LEMMA PairsWith ==
    ASSUME NEW p, NEW S, IsFiniteSet(S)
    PROVE  IsFiniteSet({p} \X S) /\ Cardinality({p} \X S) = Cardinality(S)
<1>1. IsFiniteSet({p}) /\ Cardinality({p}) = 1 /\ Cardinality(S) \in Nat
    BY FS_Singleton, FS_CardinalityType
<1>2. IsFiniteSet({p} \X S) /\ Cardinality({p} \X S) = 1 * Cardinality(S)
    BY <1>1, FS_Product
<1> QED
    BY <1>1, <1>2

LEMMA ValidHit ==
    ASSUME NEW raw \in [1 .. Len(Patterns) -> Seq(RawHit)]
    PROVE  /\ \A h \in ValidHits(raw) : /\ h[1] \in 1 .. Len(Patterns) /\ h = <<h[1], h[2]>>
                                        /\ h[2] \in ValidPlaces(raw[h[1]]) /\ h[2] \in Nat
           /\ \A p \in 1 .. Len(Patterns) : \A k \in ValidPlaces(raw[p]) : <<p, k>> \in ValidHits(raw)
<1>1. DOMAIN Patterns = 1 .. Len(Patterns)
    BY DetectorsAssumption, LenProperties
<1>2. ASSUME NEW p \in 1 .. Len(Patterns), NEW k \in ValidPlaces(raw[p])
      PROVE  k \in Nat
    <2>1. raw[p] \in Seq(RawHit)
        OBVIOUS
    <2>2. DOMAIN raw[p] = 1 .. Len(raw[p])
        BY <2>1, LenProperties
    <2> QED
        BY <2>2 DEF ValidPlaces
<1> QED
    BY <1>1, <1>2 DEF ValidHits, ValidPlaces

\* One more pattern.
LEMMA FoundNext ==
    ASSUME NEW raw \in [1 .. Len(Patterns) -> Seq(RawHit)], NEW p \in Nat,
           p + 1 \in 1 .. Len(Patterns), NEW s, FoundSoFar(raw, p, s)
    PROVE  FoundSoFar(raw, p + 1, s \o Taken(p + 1, raw[p + 1], Len(s)))
<1> DEFINE q == p + 1
           places == ValidPlaces(raw[q])
           taken == Taken(q, raw[q], Len(s))
           t == s \o taken
<1>0. MaxMatches \in Nat /\ MaxMatches # 0
    BY DetectorBounds
<1>1. s \in Seq(Match) /\ Len(s) \in Nat /\ raw[q] \in Seq(RawHit)
    BY LenProperties DEF FoundSoFar
<1>2. /\ taken \in Seq(Match)
      /\ Len(taken) <= IF Len(s) < MaxMatches THEN MaxMatches - Len(s) ELSE 1
      /\ IsFiniteSet(places) /\ Len(taken) <= Cardinality(places)
    BY <1>1, TakenMatches
<1>3. \A i \in 1 .. Len(taken) : \E k \in places : taken[i] = MatchOf(q, raw[q][k])
    BY <1>1, TakenMatches
<1>4. \A k \in places :
         \/ Len(s) + Cardinality(PlacesBefore(raw[q], k)) < MaxMatches
         \/ PlacesBefore(raw[q], k) = {}
         => \E i \in 1 .. Len(taken) : taken[i] = MatchOf(q, raw[q][k])
    BY <1>1, TakenMatches
<1> HIDE DEF taken
<1>5. /\ t \in Seq(Match) /\ Len(t) = Len(s) + Len(taken) /\ Len(taken) \in Nat
      /\ \A i \in 1 .. Len(t) : t[i] = IF i <= Len(s) THEN s[i] ELSE taken[i - Len(s)]
    BY <1>1, <1>2, ConcatProperties, LenProperties
<1>a. Len(t) = Len(s) + Len(taken) /\ Len(taken) \in Nat
    BY <1>5
<1> HIDE DEF t
<1>6. HitsUpTo(raw, q) = HitsUpTo(raw, p) \cup ({q} \X places)
    <2>1. ASSUME NEW h \in HitsUpTo(raw, q), h \notin HitsUpTo(raw, p)
          PROVE  h \in {q} \X places
        <3>1. h \in ValidHits(raw) /\ h[1] <= q /\ ~(h[1] <= p) /\ h[1] \in 1 .. Len(Patterns)
            BY <2>1, ValidHit DEF HitsUpTo
        <3>2. h[1] = q
            BY <3>1, DetectorBounds
        <3> QED
            BY <3>1, <3>2, ValidHit
    <2>2. ASSUME NEW k \in places
          PROVE  <<q, k>> \in HitsUpTo(raw, q)
        BY <2>2, ValidHit DEF HitsUpTo
    <2>3. HitsUpTo(raw, p) \subseteq HitsUpTo(raw, q)
        BY ValidHit, DetectorBounds DEF HitsUpTo
    <2> QED
        BY <2>1, <2>2, <2>3
<1>7. HitsUpTo(raw, p) \cap ({q} \X places) = {}
    BY ValidHit, DetectorBounds DEF HitsUpTo
<1>8. IsFiniteSet({q} \X places) /\ Cardinality({q} \X places) = Cardinality(places)
    BY <1>2, PairsWith
<1>9. /\ IsFiniteSet(HitsUpTo(raw, q))
      /\ Cardinality(HitsUpTo(raw, q)) = Cardinality(HitsUpTo(raw, p)) + Cardinality(places)
      /\ Cardinality(HitsUpTo(raw, p)) \in Nat /\ Cardinality(places) \in Nat
    <2>1. IsFiniteSet(HitsUpTo(raw, p))
        BY DEF FoundSoFar
    <2>2. Cardinality(HitsUpTo(raw, p)) \in Nat /\ Cardinality(places) \in Nat
        BY <1>2, <2>1, FS_CardinalityType
    <2>3. /\ IsFiniteSet(HitsUpTo(raw, p) \cup ({q} \X places))
          /\ Cardinality(HitsUpTo(raw, p) \cup ({q} \X places)) =
                Cardinality(HitsUpTo(raw, p)) + Cardinality({q} \X places)
                  - Cardinality(HitsUpTo(raw, p) \cap ({q} \X places))
        BY <1>8, <2>1, FS_Union
    <2>4. Cardinality(HitsUpTo(raw, p) \cap ({q} \X places)) = 0
        BY <1>7, FS_EmptySet
    <2> HIDE DEF places
    <2>5. Cardinality(HitsUpTo(raw, p)) + Cardinality(places) - 0
            = Cardinality(HitsUpTo(raw, p)) + Cardinality(places)
        BY <2>2
    <2> QED
        BY <1>6, <1>8, <2>2, <2>3, <2>4, <2>5
<1>10. Len(t) < MaxMatches + q /\ Len(t) <= Cardinality(HitsUpTo(raw, q))
    <2>1. Len(s) < MaxMatches + p /\ Len(s) <= Cardinality(HitsUpTo(raw, p))
        BY DEF FoundSoFar
    <2> HIDE DEF places
    <2>2. Len(taken) <= Cardinality(places)
        BY <1>2 DEF places
    <2>3. Len(t) <= Cardinality(HitsUpTo(raw, q))
        <3> DEFINE now == HitsUpTo(raw, q)
        <3> HIDE DEF now, q
        <3>1. Cardinality(now) = Cardinality(HitsUpTo(raw, p)) + Cardinality(places)
            BY <1>9 DEF now
        <3>2. Len(s) + Len(taken) <= Cardinality(HitsUpTo(raw, p)) + Cardinality(places)
            BY <1>1, <1>a, <1>9, <2>1, <2>2
        <3> QED
            BY <1>a, <3>1, <3>2 DEF now
    <2>4. Len(t) < MaxMatches + q
        BY <1>0, <1>1, <1>2, <1>5, <2>1
    <2> QED
        BY <2>3, <2>4
<1>11. ASSUME NEW i \in 1 .. Len(t)
       PROVE  \E h \in HitsUpTo(raw, q) : t[i] = HitOf(raw, h)
    <2>1. CASE i <= Len(s)
        <3>1. i \in 1 .. Len(s)
            BY <1>1, <2>1
        <3>2. PICK h \in HitsUpTo(raw, p) : s[i] = HitOf(raw, h)
            BY <3>1 DEF FoundSoFar
        <3> QED
            BY <1>5, <1>6, <2>1, <3>2
    <2>2. CASE ~(i <= Len(s))
        <3>1. i - Len(s) \in 1 .. Len(taken)
            BY <1>1, <1>5, <2>2
        <3>2. PICK k \in places : taken[i - Len(s)] = MatchOf(q, raw[q][k])
            BY <1>3, <3>1
        <3>3. <<q, k>> \in HitsUpTo(raw, q) /\ t[i] = HitOf(raw, <<q, k>>)
            BY <1>5, <1>6, <2>2, <3>2 DEF HitOf
        <3> QED
            BY <3>3
    <2> QED
        BY <2>1, <2>2
<1>12. ASSUME NEW h \in HitsUpTo(raw, q), ~CutOff(raw, h)
       PROVE  \E i \in 1 .. Len(t) : t[i] = HitOf(raw, h)
    <2>1. CASE h \in HitsUpTo(raw, p)
        <3>1. PICK i \in 1 .. Len(s) : s[i] = HitOf(raw, h)
            BY <1>12, <2>1 DEF FoundSoFar
        <3>2. i \in 1 .. Len(t) /\ t[i] = s[i]
            BY <1>1, <1>5
        <3> QED
            BY <3>1, <3>2
    <2>2. CASE h \in {q} \X places
        <3> DEFINE k == h[2]
                   earlier == {g \in ValidHits(raw) : g[1] < h[1] \/ (g[1] = h[1] /\ g[2] < h[2])}
                   low == PlacesBefore(raw[q], k)
        <3>1. h = <<q, k>> /\ k \in places /\ h[1] = q
            BY <2>2
        <3>2. earlier = HitsUpTo(raw, p) \cup ({q} \X low)
            <4>1. ASSUME NEW g \in earlier
                  PROVE  g \in HitsUpTo(raw, p) \cup ({q} \X low)
                <5>1. g \in ValidHits(raw) /\ (g[1] < q \/ (g[1] = q /\ g[2] < k))
                    BY <3>1, <4>1
                <5>2. g[1] \in 1 .. Len(Patterns) /\ g = <<g[1], g[2]>> /\ g[2] \in ValidPlaces(raw[g[1]])
                    BY <5>1, ValidHit
                <5>3. CASE g[1] < q
                    BY <5>1, <5>2, <5>3, DetectorBounds DEF HitsUpTo
                <5>4. CASE g[1] = q /\ g[2] < k
                    BY <5>2, <5>4 DEF PlacesBefore
                <5> QED
                    BY <5>1, <5>3, <5>4
            <4>2. ASSUME NEW g \in HitsUpTo(raw, p)
                  PROVE  g \in earlier
                <5>1. g \in ValidHits(raw) /\ g[1] <= p /\ g[1] \in 1 .. Len(Patterns)
                    BY <4>2, ValidHit DEF HitsUpTo
                <5> QED
                    BY <3>1, <5>1, DetectorBounds
            <4>3. ASSUME NEW j \in low
                  PROVE  <<q, j>> \in earlier
                <5>1. j \in places /\ j < k
                    BY <4>3 DEF PlacesBefore
                <5>2. <<q, j>> \in ValidHits(raw)
                    BY <5>1, ValidHit
                <5> QED
                    BY <3>1, <5>1, <5>2
            <4> HIDE DEF earlier, low
            <4> QED
                BY <4>1, <4>2, <4>3
        <3>3. \/ Len(s) + Cardinality(low) < MaxMatches
              \/ low = {}
            <4>1. low \in SUBSET places
                BY DEF PlacesBefore
            <4>2. IsFiniteSet(low) /\ Cardinality(low) \in Nat
                BY <1>2, <4>1, FS_Subset, FS_CardinalityType
            <4>3. IsFiniteSet({q} \X low) /\ Cardinality({q} \X low) = Cardinality(low)
                BY <4>2, PairsWith
            <4>4. HitsUpTo(raw, p) \cap ({q} \X low) = {}
                BY <1>7, <4>1
            <4>5. Cardinality(earlier) = Cardinality(HitsUpTo(raw, p)) + Cardinality(low)
                <5>1. Cardinality(HitsUpTo(raw, p) \cup ({q} \X low)) =
                        Cardinality(HitsUpTo(raw, p)) + Cardinality({q} \X low)
                          - Cardinality(HitsUpTo(raw, p) \cap ({q} \X low))
                    BY <4>3, FS_Union DEF FoundSoFar
                <5>2. Cardinality(HitsUpTo(raw, p) \cap ({q} \X low)) = 0
                    BY <4>4, FS_EmptySet
                <5> HIDE DEF earlier, low
                <5>3. Cardinality(HitsUpTo(raw, p)) + Cardinality(low) - 0
                        = Cardinality(HitsUpTo(raw, p)) + Cardinality(low)
                    BY <1>9, <4>2
                <5> QED
                    BY <3>2, <4>3, <5>1, <5>2, <5>3
            <4>6. Cardinality(earlier) < MaxMatches \/ ~\E g \in earlier : g[1] = h[1]
                <5>1. ~(Cardinality(earlier) >= MaxMatches /\ \E g \in earlier : g[1] = h[1])
                    BY <1>12 DEF CutOff
                <5>2. Cardinality(earlier) \in Nat
                    BY <1>9, <4>2, <4>5
                <5> HIDE DEF earlier
                <5> QED
                    BY <5>1, <5>2, DetectorBounds
            <4>7. CASE Cardinality(earlier) < MaxMatches
                <5>1. Len(s) <= Cardinality(HitsUpTo(raw, p))
                    BY DEF FoundSoFar
                <5> HIDE DEF earlier, low, places
                <5> QED
                    BY <1>0, <1>1, <1>9, <4>2, <4>5, <4>7, <5>1, SMTT(30)
            <4>8. CASE ~\E g \in earlier : g[1] = h[1]
                <5> HIDE DEF earlier, low
                <5>1. ASSUME NEW j \in low PROVE FALSE
                    <6>1. <<q, j>> \in earlier /\ <<q, j>>[1] = q
                        BY <3>2, <5>1
                    <6> QED
                        BY <3>1, <4>8, <6>1
                <5> QED
                    BY <5>1
            <4> QED
                BY <4>6, <4>7, <4>8
        <3>4. PICK i \in 1 .. Len(taken) : taken[i] = MatchOf(q, raw[q][k])
            BY <1>4, <3>1, <3>3
        <3>5. Len(s) + i \in 1 .. Len(t) /\ t[Len(s) + i] = taken[i]
            <4>1. /\ Len(s) + i \in 1 .. Len(t) /\ ~(Len(s) + i <= Len(s))
                  /\ (Len(s) + i) - Len(s) = i
                <5>1. i \in 1 .. Len(taken)
                    BY <3>4
                <5> HIDE DEF places
                <5> QED
                    BY <1>1, <1>a, <5>1
            <4> QED
                BY <1>5, <4>1
        <3> QED
            BY <3>1, <3>4, <3>5 DEF HitOf
    <2> QED
        BY <1>6, <2>1, <2>2
<1>13. FoundSoFar(raw, q, t)
    BY <1>5, <1>9, <1>10, <1>11, <1>12 DEF FoundSoFar
<1> QED
    BY <1>13 DEF t, taken

\* Of any raw hits: matches, not many more of them than the limit, each of a valid hit,
\* and of every valid hit that the limit does not cut off.
LEMMA FoundMatches ==
    ASSUME NEW raw \in [1 .. Len(Patterns) -> Seq(RawHit)]
    PROVE  FoundSoFar(raw, Len(Patterns), Found(raw))
<1> DEFINE N == Len(Patterns)
           Def(f) == f = [p \in 0 .. N |->
                             IF p = 0 THEN <<>>
                             ELSE f[p - 1] \o Taken(p, raw[p], Len(f[p - 1]))]
           found == CHOOSE f : Def(f)
           step == [q \in (1 .. N) \X Seq(Match) |-> q[2] \o Taken(q[1], raw[q[1]], Len(q[2]))]
<1>1. N \in Nat /\ MaxMatches \in Nat \ {0}
    BY DetectorBounds
<1>2. ASSUME NEW p \in 1 .. N, NEW s \in Seq(Match)
      PROVE  s \o Taken(p, raw[p], Len(s)) \in Seq(Match)
    <2>1. raw[p] \in Seq(RawHit) /\ Len(s) \in Nat
        BY LenProperties
    <2>2. Taken(p, raw[p], Len(s)) \in Seq(Match)
        BY <2>1, TakenMatches
    <2> QED
        BY <2>2, ConcatProperties
<1>3. \E f : Def(f)
    <2>1. step \in [(1 .. N) \X Seq(Match) -> Seq(Match)]
        BY <1>2
    <2>2. <<>> \in Seq(Match)
        BY EmptySeq
    <2> HIDE DEF N, step
    <2>3. PICK f \in [0 .. N -> Seq(Match)] : Follows(f, N, <<>>, step)
        BY <1>1, <2>1, <2>2, Recursion
    <2>4. ASSUME NEW i \in 0 .. N, i # 0
          PROVE  step[<<i, f[i - 1]>>] = f[i - 1] \o Taken(i, raw[i], Len(f[i - 1]))
        <3>1. i \in 1 .. N /\ f[i - 1] \in Seq(Match)
            BY <1>1, <2>3, <2>4
        <3> QED
            BY <3>1 DEF step
    <2>5. ASSUME NEW i \in 0 .. N
          PROVE  f[i] = IF i = 0 THEN <<>> ELSE f[i - 1] \o Taken(i, raw[i], Len(f[i - 1]))
        <3>1. CASE i = 0
            BY <2>3, <3>1 DEF Follows
        <3>2. CASE i # 0
            <4>1. i \in 1 .. N
                BY <1>1, <3>2
            <4>2. f[i] = step[<<i, f[i - 1]>>]
                BY <2>3, <4>1 DEF Follows
            <4> QED
                BY <2>4, <3>2, <4>2
        <3> QED
            BY <3>1, <3>2
    <2>6. DOMAIN f = 0 .. N /\ f = [i \in DOMAIN f |-> f[i]]
        BY <2>3
    <2> QED
        BY <2>5, <2>6
<1> HIDE DEF step
<1>4. Def(found)
    BY <1>3
<1>5. Found(raw) = found[N]
    BY DEF Found
<1> HIDE DEF found
<1>6. found[0] = <<>>
    BY <1>1, <1>4
<1>7. ASSUME NEW p \in 1 .. N
      PROVE  found[p] = found[p - 1] \o Taken(p, raw[p], Len(found[p - 1]))
    <2>1. p \in 0 .. N /\ p # 0
        BY <1>1
    <2> HIDE DEF N
    <2> QED
        BY <1>4, <2>1, Zenon
<1> HIDE DEF Def
<1> DEFINE P == {p \in Nat : p <= N => FoundSoFar(raw, p, found[p])}
<1>8. 0 \in P
    <2>1. <<>> \in Seq(Match) /\ Len(<<>>) = 0
        BY EmptySeq
    <2>2. HitsUpTo(raw, 0) = {}
        BY ValidHit DEF HitsUpTo
    <2>3. IsFiniteSet(HitsUpTo(raw, 0)) /\ Cardinality(HitsUpTo(raw, 0)) = 0
        BY <2>2, FS_EmptySet
    <2>4. FoundSoFar(raw, 0, <<>>)
        BY <1>1, <2>1, <2>2, <2>3 DEF FoundSoFar
    <2> QED
        BY <1>6, <2>4, Zenon
<1>9. ASSUME NEW p \in P
      PROVE  p + 1 \in P
    <2> SUFFICES ASSUME p + 1 <= N
                 PROVE  FoundSoFar(raw, p + 1, found[p + 1])
        BY <1>9
    <2>1. p \in Nat /\ p + 1 \in 1 .. N /\ (p + 1) - 1 = p
        BY <1>1, <1>9
    <2>2. FoundSoFar(raw, p, found[p])
        BY <1>1, <1>9, <2>1
    <2>3. found[p + 1] = found[p] \o Taken(p + 1, raw[p + 1], Len(found[p]))
        BY <1>7, <2>1
    <2> QED
        BY <2>1, <2>2, <2>3, FoundNext
<1>10. P = Nat
    <2>1. P \in SUBSET Nat
        OBVIOUS
    <2> HIDE DEF P
    <2> QED
        BY <1>8, <1>9, <2>1, Induction
<1> QED
    BY <1>1, <1>5, <1>10

LEMMA MatchFields ==
    \A m \in Match : m.severity \in Nat /\ m.score \in Nat /\ m.start \in Nat /\ m.end \in Nat
BY DEF Match, Severity, Score

LEMMA SortKey ==
    ASSUME NEW a \in Match, NEW b \in Match
    PROVE  Before(a, b) <=>
             \/ a.severity > b.severity
             \/ a.severity = b.severity /\ a.score > b.score
             \/ a.severity = b.severity /\ a.score = b.score /\ a.start < b.start
             \/ a.severity = b.severity /\ a.score = b.score /\ a.start = b.start /\ a.end > b.end
<1> DEFINE ka == <<-a.severity, -a.score, a.start, -a.end>>
           kb == <<-b.severity, -b.score, b.start, -b.end>>
<1>1. Before(a, b) <=> \E i \in 1 .. 4 : ka[i] < kb[i] /\ \A j \in 1 .. i - 1 : ka[j] = kb[j]
    BY DEF Before
<1>2. /\ a.severity \in Int /\ a.score \in Int /\ a.start \in Int /\ a.end \in Int
      /\ b.severity \in Int /\ b.score \in Int /\ b.start \in Int /\ b.end \in Int
    BY DEF Match, Severity, Score
<1>3. /\ ka[1] = -a.severity /\ ka[2] = -a.score /\ ka[3] = a.start /\ ka[4] = -a.end
      /\ kb[1] = -b.severity /\ kb[2] = -b.score /\ kb[3] = b.start /\ kb[4] = -b.end
    OBVIOUS
<1> HIDE DEF ka, kb
<1>4. 1 .. 4 = {1, 2, 3, 4} /\ 1 .. 1 - 1 = {} /\ 1 .. 2 - 1 = {1} /\ 1 .. 3 - 1 = {1, 2}
      /\ 1 .. 4 - 1 = {1, 2, 3}
    OBVIOUS
<1>5. Before(a, b) <=>
        \/ ka[1] < kb[1]
        \/ ka[2] < kb[2] /\ ka[1] = kb[1]
        \/ ka[3] < kb[3] /\ ka[1] = kb[1] /\ ka[2] = kb[2]
        \/ ka[4] < kb[4] /\ ka[1] = kb[1] /\ ka[2] = kb[2] /\ ka[3] = kb[3]
    BY <1>1, <1>4
<1> QED
    BY <1>2, <1>3, <1>5

\* Of two hits of which one goes first, a third goes after that one or before the other.
LEMMA StrengthOrder ==
    ASSUME NEW a \in Match, NEW b \in Match, NEW c \in Match, Before(a, b)
    PROVE  ~Before(b, a) /\ (Before(a, c) \/ Before(c, b))
<1>1. /\ a.severity \in Int /\ a.score \in Int /\ a.start \in Int /\ a.end \in Int
      /\ b.severity \in Int /\ b.score \in Int /\ b.start \in Int /\ b.end \in Int
      /\ c.severity \in Int /\ c.score \in Int /\ c.start \in Int /\ c.end \in Int
    BY DEF Match, Severity, Score
<1> QED
    BY <1>1, SortKey

\* The order of the sort is strict and total, and puts the stronger first.
LEMMA SortOrders ==
    ASSUME NEW hs \in Seq(Match)
    PROVE  /\ Orders(SortOrder(hs), 1 .. Len(hs))
           /\ \A i, j \in 1 .. Len(hs) :
                 <<i, j>> \in SortOrder(hs) => AtLeast(hs[i], hs[j])
<1> DEFINE n == Len(hs)
           Prec(i, j) == Before(hs[i], hs[j]) \/ (~Before(hs[j], hs[i]) /\ i < j)
<1>1. n \in Nat /\ \A i \in 1 .. n : hs[i] \in Match
    BY LenProperties, ElementOfSeq
<1>2. \A i, j \in 1 .. n : <<i, j>> \in SortOrder(hs) <=> Prec(i, j)
    BY DEF SortOrder
<1>3. ASSUME NEW i \in 1 .. n
      PROVE  /\ hs[i].severity \in Nat /\ hs[i].score \in Nat
             /\ hs[i].start \in Nat /\ hs[i].end \in Nat
    <2>1. hs[i] \in Match
        BY <1>1
    <2> QED
        BY <2>1, MatchFields
<1>4. \A i, j \in 1 .. n :
          Before(hs[i], hs[j]) <=>
             \/ hs[i].severity > hs[j].severity
             \/ hs[i].severity = hs[j].severity /\ hs[i].score > hs[j].score
             \/ hs[i].severity = hs[j].severity /\ hs[i].score = hs[j].score
                /\ hs[i].start < hs[j].start
             \/ hs[i].severity = hs[j].severity /\ hs[i].score = hs[j].score
                /\ hs[i].start = hs[j].start /\ hs[i].end > hs[j].end
    BY <1>1, SortKey
<1>5. \A i \in 1 .. n : ~Prec(i, i)
    BY <1>1, <1>3, <1>4
<1>6. \A i, j, k \in 1 .. n : Prec(i, j) /\ Prec(j, k) => Prec(i, k)
    <2> SUFFICES ASSUME NEW i \in 1 .. n, NEW j \in 1 .. n, NEW k \in 1 .. n, Prec(i, j), Prec(j, k)
                 PROVE  Prec(i, k)
        OBVIOUS
    <2>1. i \in Nat /\ j \in Nat /\ k \in Nat
        BY <1>1
    <2>2. hs[i] \in Match /\ hs[j] \in Match /\ hs[k] \in Match
        BY <1>1
    <2>3. /\ Before(hs[i], hs[j]) => Before(hs[i], hs[k]) \/ Before(hs[k], hs[j])
          /\ Before(hs[j], hs[k]) => Before(hs[j], hs[i]) \/ Before(hs[i], hs[k])
          /\ Before(hs[i], hs[j]) => ~Before(hs[j], hs[i])
          /\ Before(hs[j], hs[k]) => ~Before(hs[k], hs[j])
          /\ Before(hs[k], hs[i]) => Before(hs[k], hs[j]) \/ Before(hs[j], hs[i])
        BY <2>2, StrengthOrder
    <2> QED
        BY <2>1, <2>3
<1>7. \A i, j \in 1 .. n : i = j \/ Prec(i, j) \/ Prec(j, i)
    BY <1>1, <1>3, <1>4
<1>8. \A i, j \in 1 .. n : Prec(i, j) => AtLeast(hs[i], hs[j])
    BY <1>1, <1>3, <1>4 DEF AtLeast
<1> HIDE DEF Prec
<1> QED
    BY <1>2, <1>5, <1>6, <1>7, <1>8 DEF Orders

\* What stays of the hits: none overlaps another, and each hit that does not stay overlaps
\* one that does and is at least as strong.
LEMMA Resolved ==
    ASSUME NEW hs \in Seq(Match)
    PROVE  LET all == {hs[i] : i \in 1 .. Len(hs)}
               kept == ResolveOverlaps(hs)
           IN  /\ kept \subseteq all
               /\ \A a, b \in kept : a = b \/ ~Overlap(a, b)
               /\ \A h \in all \ kept : \E k \in kept : Overlap(h, k) /\ AtLeast(k, h)
<1> DEFINE n == Len(hs)
           all == {hs[i] : i \in 1 .. n}
           order == SortedBy(1 .. n, SortOrder(hs))
           Next1(K, h) == IF \E k \in K : Overlap(h, k) THEN K ELSE K \cup {h}
           Value(f, i) == IF i = 0 THEN {} ELSE Next1(f[i - 1], hs[order[i]])
           Def(f) == f = [i \in 0 .. n |-> Value(f, i)]
           kept == CHOOSE f : Def(f)
           step == [q \in (1 .. n) \X SUBSET all |-> Next1(q[2], hs[order[q[1]]])]
<1>1. n \in Nat
    BY LenProperties
<1>2. /\ order \in [1 .. n -> 1 .. n]
      /\ \A i \in 1 .. n : \E m \in 1 .. n : order[m] = i
      /\ \A l, m \in 1 .. n : l < m => <<order[l], order[m]>> \in SortOrder(hs)
    <2>1. IsFiniteSet(1 .. n) /\ Cardinality(1 .. n) = n
        BY <1>1, FS_Interval, SMTT(30)
    <2>2. Orders(SortOrder(hs), 1 .. n)
        BY SortOrders
    <2> HIDE DEF n
    <2>3. /\ order \in [1 .. Cardinality(1 .. n) -> 1 .. n]
          /\ \A i \in 1 .. n : \E m \in 1 .. Cardinality(1 .. n) : order[m] = i
          /\ \A l, m \in 1 .. Cardinality(1 .. n) :
                 l < m => <<order[l], order[m]>> \in SortOrder(hs)
        BY <2>1, <2>2, Sorting
    <2> QED
        BY <2>1, <2>3
<1> HIDE DEF order, n
<1>3. \A i \in 1 .. n : order[i] \in 1 .. n /\ hs[order[i]] \in all
    BY <1>2
<1>4. step \in [(1 .. n) \X SUBSET all -> SUBSET all]
    <2>1. \A i \in 1 .. n, K \in SUBSET all : Next1(K, hs[order[i]]) \in SUBSET all
        BY <1>3
    <2> HIDE DEF Next1, all
    <2> QED
        BY <2>1
<1>5. \E f : Def(f)
    <2>1. {} \in SUBSET all
        OBVIOUS
    <2> HIDE DEF step
    <2>2. PICK f \in [0 .. n -> SUBSET all] : Follows(f, n, {}, step)
        BY <1>1, <1>4, <2>1, Recursion
    <2>3. ASSUME NEW i \in 0 .. n
          PROVE  f[i] = Value(f, i)
        <3>1. CASE i = 0
            BY <2>2, <3>1 DEF Follows
        <3>2. CASE i # 0
            <4>1. i \in 1 .. n /\ i - 1 \in 0 .. n /\ f[i - 1] \in SUBSET all
                BY <1>1, <2>2, <3>2
            <4>2. f[i] = step[<<i, f[i - 1]>>]
                BY <2>2, <4>1 DEF Follows
            <4> HIDE DEF all
            <4>3. step[<<i, f[i - 1]>>] = Next1(f[i - 1], hs[order[i]])
                BY <4>1 DEF step
            <4> QED
                BY <3>2, <4>2, <4>3
        <3> QED
            BY <3>1, <3>2
    <2>4. DOMAIN f = 0 .. n /\ f = [i \in DOMAIN f |-> f[i]]
        BY <2>2
    <2> HIDE DEF Value
    <2> QED
        BY <2>3, <2>4
<1> HIDE DEF step
<1>6. Def(kept)
    BY <1>5
<1>7. ResolveOverlaps(hs) = kept[n]
    BY DEF ResolveOverlaps, order, n
<1> HIDE DEF kept
<1>8. kept[0] = {}
    BY <1>1, <1>6
<1>9. ASSUME NEW i \in 1 .. n
      PROVE  kept[i] = Next1(kept[i - 1], hs[order[i]])
    <2>1. i \in 0 .. n /\ i # 0
        BY <1>1
    <2> QED
        BY <1>6, <2>1
<1> HIDE DEF Def
<1> DEFINE Good(i) == /\ kept[i] \subseteq {hs[order[j]] : j \in 1 .. i}
                      /\ \A a, b \in kept[i] : a = b \/ ~Overlap(a, b)
                      /\ \A j \in 1 .. i : \/ hs[order[j]] \in kept[i]
                                           \/ \E k \in kept[i] : /\ Overlap(hs[order[j]], k)
                                                                 /\ AtLeast(k, hs[order[j]])
           P == {i \in Nat : i <= n => Good(i)}
<1>10. 0 \in P
    <2>1. Good(0)
        BY <1>8
    <2> QED
        BY <2>1
<1>11. ASSUME NEW i \in P
       PROVE  i + 1 \in P
    <2> SUFFICES ASSUME i + 1 <= n
                 PROVE  Good(i + 1)
        BY <1>11
    <2>1. i \in Nat /\ i + 1 \in 1 .. n /\ (i + 1) - 1 = i
        BY <1>1, <1>11
    <2>2. Good(i)
        BY <1>1, <1>11, <2>1
    <2> DEFINE h == hs[order[i + 1]]
               K == kept[i]
    <2>3. kept[i + 1] = Next1(K, h)
        BY <1>9, <2>1
    <2>4. K \subseteq kept[i + 1] /\ kept[i + 1] \subseteq K \cup {h}
        BY <2>3
    <2>5. 1 .. i + 1 = (1 .. i) \cup {i + 1}
        BY <2>1
    <2>6. kept[i + 1] \subseteq {hs[order[j]] : j \in 1 .. i + 1}
        BY <2>2, <2>4, <2>5
    <2>7. ASSUME NEW a \in kept[i + 1], NEW b \in kept[i + 1]
          PROVE  a = b \/ ~Overlap(a, b)
        BY <2>2, <2>3, <2>7 DEF Overlap
    <2>8. ASSUME NEW j \in 1 .. i
          PROVE  \/ hs[order[j]] \in kept[i + 1]
                 \/ \E k \in kept[i + 1] : Overlap(hs[order[j]], k) /\ AtLeast(k, hs[order[j]])
        BY <2>2, <2>4
    <2>9. h \in kept[i + 1] \/ \E k \in kept[i + 1] : Overlap(h, k) /\ AtLeast(k, h)
        <3>1. CASE \E k \in K : Overlap(h, k)
            <4>1. PICK k \in K : Overlap(h, k)
                BY <3>1
            <4>2. PICK j \in 1 .. i : k = hs[order[j]]
                BY <2>2, <4>1
            <4>3. j \in 1 .. n /\ j < i + 1
                BY <1>1, <2>1
            <4>4. AtLeast(k, h)
                BY <1>2, <1>3, <2>1, <4>2, <4>3, SortOrders DEF n
            <4> QED
                BY <2>4, <4>1, <4>4
        <3>2. CASE ~\E k \in K : Overlap(h, k)
            BY <2>3, <3>2
        <3> QED
            BY <3>1, <3>2
    <2> QED
        BY <2>5, <2>6, <2>7, <2>8, <2>9
<1>12. P = Nat
    <2>1. P \in SUBSET Nat
        OBVIOUS
    <2> HIDE DEF P
    <2> QED
        BY <1>10, <1>11, <2>1, Induction
<1>13. Good(n)
    BY <1>1, <1>12
<1>14. kept[n] \subseteq all
    BY <1>3, <1>13
<1>15. ASSUME NEW x \in all \ kept[n]
       PROVE  \E k \in kept[n] : Overlap(x, k) /\ AtLeast(k, x)
    <2>1. PICK i \in 1 .. n : x = hs[i]
        OBVIOUS
    <2>2. PICK m \in 1 .. n : order[m] = i
        BY <1>2
    <2> QED
        BY <1>13, <1>15, <2>1, <2>2
<1> QED
    BY <1>7, <1>13, <1>14, <1>15 DEF n

\* For any patterns, any hits in a text and any entities: what is reported does not
\* overlap, and a valid hit is left out for something at least as strong, or because
\* max_matches cut it off, and never the first of its pattern for that.
THEOREM ReportsTheStrongest ==
    \A raw \in [1 .. Len(Patterns) -> Seq(RawHit)], entities \in SUBSET Match :
        StrongestReported(raw, entities)
<1> SUFFICES ASSUME NEW raw \in [1 .. Len(Patterns) -> Seq(RawHit)],
                    NEW entities \in SUBSET Match
             PROVE  StrongestReported(raw, entities)
    OBVIOUS
<1> DEFINE found == Found(raw)
           all == {found[i] : i \in 1 .. Len(found)}
           kept == ScanText(raw)
<1>1. found \in Seq(Match) /\ Len(found) < MaxMatches + Len(Patterns)
    BY FoundMatches DEF FoundSoFar
<1>a. HitsUpTo(raw, Len(Patterns)) = ValidHits(raw)
    BY ValidHit, DetectorBounds DEF HitsUpTo
<1>b. /\ \A i \in 1 .. Len(found) : \E h \in ValidHits(raw) : found[i] = HitOf(raw, h)
      /\ \A h \in ValidHits(raw) : CutOff(raw, h) \/ \E i \in 1 .. Len(found) : found[i] = HitOf(raw, h)
    BY <1>a, FoundMatches DEF FoundSoFar
<1>2. DOMAIN found = 1 .. Len(found)
    BY <1>1, LenProperties
<1>3. kept = ResolveOverlaps(found)
    BY DEF ScanText
<1> HIDE DEF found, kept
<1>4. /\ kept \subseteq all
      /\ \A a, b \in kept : a = b \/ ~Overlap(a, b)
      /\ \A h \in all \ kept : \E k \in kept : Overlap(h, k) /\ AtLeast(k, h)
    BY <1>1, <1>3, Resolved
<1>5. /\ kept \subseteq Analyze(raw, entities)
      /\ \A r \in Analyze(raw, entities) \ kept : \A k \in kept : ~Overlap(r, k)
    BY DEF Analyze, Covered, kept
<1>6. kept \subseteq {HitOf(raw, h) : h \in ValidHits(raw)}
    BY <1>b, <1>4
<1>7. ASSUME NEW h \in ValidHits(raw), ~CutOff(raw, h), HitOf(raw, h) \notin kept
      PROVE  \E k \in kept : Overlap(HitOf(raw, h), k) /\ AtLeast(k, HitOf(raw, h))
    BY <1>b, <1>4, <1>7
<1> QED
    BY <1>1, <1>4, <1>5, <1>6, <1>7 DEF StrongestReported, found, kept

\* What is reported of a text is a finite set of matches.
LEMMA AnalyzedMatches ==
    ASSUME NEW raw \in [1 .. Len(Patterns) -> Seq(RawHit)],
           NEW entities \in SUBSET Match, IsFiniteSet(entities)
    PROVE  Analyze(raw, entities) \subseteq Match /\ IsFiniteSet(Analyze(raw, entities))
<1> DEFINE found == Found(raw)
           all == {found[i] : i \in 1 .. Len(found)}
           kept == ScanText(raw)
<1>1. found \in Seq(Match)
    BY FoundMatches DEF FoundSoFar
<1>2. Len(found) \in Nat /\ \A i \in 1 .. Len(found) : found[i] \in Match
    BY <1>1, LenProperties, ElementOfSeq
<1>3. kept = ResolveOverlaps(found)
    BY DEF ScanText
<1> HIDE DEF found, kept
<1>4. kept \subseteq all
    BY <1>1, <1>3, Resolved
<1>5. IsFiniteSet(1 .. Len(found))
    BY <1>2, FS_Interval
<1>6. IsFiniteSet(all)
    <2> DEFINE place == [i \in 1 .. Len(found) |-> found[i]]
    <2>1. place \in Surjection(1 .. Len(found), all)
        BY DEF Surjection
    <2> HIDE DEF place, all
    <2> QED
        BY <1>5, <2>1, FS_Surjection
<1>7. IsFiniteSet(kept)
    BY <1>4, <1>6, FS_Subset
<1>8. Analyze(raw, entities) \in SUBSET (kept \cup entities)
    BY DEF Analyze, kept
<1>9. IsFiniteSet(kept \cup entities)
    BY <1>7, FS_Union
<1>10. IsFiniteSet(Analyze(raw, entities))
    BY <1>8, <1>9, FS_Subset
<1>11. kept \subseteq Match
    BY <1>2, <1>4
<1> QED
    BY <1>8, <1>10, <1>11

LEMMA SignalFields ==
    \A s \in Signal : s.score \in Nat /\ s.severity \in Nat /\ s.category \in Nat
BY DEF Signal, Score, Severity

\* The best of the rules is one of them, or none, and none has a higher score.
LEMMA BestOfRules ==
    ASSUME NEW rules \in Seq(Signal)
    PROVE  /\ BestRule(rules) \in Signal
           /\ BestRule(rules) = NoSignal \/ \E i \in 1 .. Len(rules) : BestRule(rules) = rules[i]
           /\ \A i \in 1 .. Len(rules) : rules[i].score <= BestRule(rules).score
<1> DEFINE n == Len(rules)
           Better(s, r) == IF r.score > s.score THEN r ELSE s
           Value(f, i) == IF i = 0 THEN NoSignal ELSE Better(f[i - 1], rules[i])
           Def(f) == f = [i \in 0 .. n |-> Value(f, i)]
           best == CHOOSE f : Def(f)
           step == [q \in (1 .. n) \X Signal |-> Better(q[2], rules[q[1]])]
<1>1. n \in Nat /\ \A i \in 1 .. n : rules[i] \in Signal
    BY LenProperties, ElementOfSeq
<1>2. NoSignal \in Signal
    BY DEF NoSignal, Signal, Score, Severity
<1>3. \A s \in Signal : s.score \in Nat
    BY SignalFields
<1>4. BestRule(rules) = best[n]
    BY DEF BestRule
<1> HIDE DEF n
<1>5. step \in [(1 .. n) \X Signal -> Signal]
    BY <1>1
<1>6. \E f : Def(f)
    <2> HIDE DEF step
    <2>1. PICK f \in [0 .. n -> Signal] : Follows(f, n, NoSignal, step)
        BY <1>1, <1>2, <1>5, Recursion
    <2>2. ASSUME NEW i \in 0 .. n
          PROVE  f[i] = Value(f, i)
        <3>1. CASE i = 0
            BY <2>1, <3>1 DEF Follows
        <3>2. CASE i # 0
            <4>1. i \in 1 .. n /\ i - 1 \in 0 .. n /\ f[i - 1] \in Signal
                BY <1>1, <2>1, <3>2
            <4>2. f[i] = step[<<i, f[i - 1]>>]
                BY <2>1, <4>1 DEF Follows
            <4> QED
                BY <3>2, <4>1, <4>2 DEF step
        <3> QED
            BY <3>1, <3>2
    <2>3. DOMAIN f = 0 .. n /\ f = [i \in DOMAIN f |-> f[i]]
        BY <2>1
    <2> HIDE DEF Value
    <2> QED
        BY <2>2, <2>3
<1>7. Def(best)
    BY <1>6
<1> HIDE DEF best, step
<1>8. best[0] = NoSignal
    BY <1>1, <1>7
<1>9. ASSUME NEW i \in 1 .. n
      PROVE  best[i] = Better(best[i - 1], rules[i])
    <2>1. i \in 0 .. n /\ i # 0
        BY <1>1
    <2> QED
        BY <1>7, <2>1
<1> HIDE DEF Def
<1> DEFINE Good(i) == /\ best[i] \in Signal
                      /\ best[i] = NoSignal \/ \E j \in 1 .. n : best[i] = rules[j]
                      /\ \A j \in 1 .. i : rules[j].score <= best[i].score
           P == {i \in Nat : i <= n => Good(i)}
<1>10. 0 \in P
    BY <1>2, <1>8
<1>11. ASSUME NEW i \in P
       PROVE  i + 1 \in P
    <2> SUFFICES ASSUME i + 1 <= n
                 PROVE  Good(i + 1)
        BY <1>11
    <2>1. i \in Nat /\ i + 1 \in 1 .. n /\ (i + 1) - 1 = i
        BY <1>1, <1>11
    <2>2. Good(i)
        BY <1>1, <1>11, <2>1
    <2>3. best[i + 1] = Better(best[i], rules[i + 1])
        BY <1>9, <2>1
    <2>4. rules[i + 1] \in Signal /\ rules[i + 1].score \in Nat /\ best[i].score \in Nat
        BY <1>1, <1>3, <2>1, <2>2
    <2>5. ASSUME NEW j \in 1 .. i + 1
          PROVE  rules[j].score <= best[i + 1].score
        <3>1. j \in 1 .. n /\ rules[j].score \in Nat
            BY <1>1, <1>3, <2>1
        <3>2. j = i + 1 \/ j \in 1 .. i
            BY <2>1
        <3> QED
            BY <2>2, <2>3, <2>4, <3>1, <3>2
    <2> QED
        BY <2>1, <2>2, <2>3, <2>4, <2>5
<1>12. P = Nat
    <2>1. P \in SUBSET Nat
        OBVIOUS
    <2> HIDE DEF P
    <2> QED
        BY <1>10, <1>11, <2>1, Induction
<1>13. Good(n)
    BY <1>1, <1>12
<1> QED
    BY <1>4, <1>13 DEF n

\* For any rules and any threshold: what is told of a prompt is the strongest of the
\* signals that were there, and nothing is told only if all were below the threshold.
THEOREM TellsTheStrongest ==
    \A rules \in Seq(Signal), similar \in Signal : StrongestTold(rules, similar)
<1> SUFFICES ASSUME NEW rules \in Seq(Signal), NEW similar \in Signal
             PROVE  StrongestTold(rules, similar)
    OBVIOUS
<1> DEFINE best == BestRule(rules)
           strongest == Stronger(best, similar)
           told == ScanInjection(rules, similar)
           fired == {rules[i] : i \in DOMAIN rules} \cup {similar}
<1>1. /\ best \in Signal
      /\ best = NoSignal \/ \E i \in 1 .. Len(rules) : best = rules[i]
      /\ \A i \in 1 .. Len(rules) : rules[i].score <= best.score
    BY BestOfRules
<1>2. /\ DOMAIN rules = 1 .. Len(rules)
      /\ \A i \in 1 .. Len(rules) : rules[i] \in Signal
    BY LenProperties, ElementOfSeq
<1>3. \A s \in Signal : s.score \in Nat
    BY SignalFields
<1>4. NoSignal.score = 0 /\ Threshold \in Nat \ {0}
    BY DetectorBounds DEF NoSignal
<1>5. told = IF strongest.score >= Threshold THEN strongest ELSE NoSignal
    BY DEF ScanInjection
<1>6. strongest = IF best.score >= similar.score THEN best ELSE similar
    BY DEF Stronger
<1> HIDE DEF best, strongest, told
<1>7. \A s \in fired : s.score <= strongest.score /\ s.score \in Nat
    BY <1>1, <1>2, <1>3, <1>6
<1>8. strongest \in Signal /\ (strongest = NoSignal \/ strongest \in fired)
    BY <1>1, <1>2, <1>6
<1>9. told = NoSignal => \A s \in fired : s.score < Threshold
    BY <1>3, <1>4, <1>5, <1>7, <1>8
<1>10. told # NoSignal => told \in fired /\ \A s \in fired : s.score <= told.score
    BY <1>5, <1>7, <1>8
<1> QED
    BY <1>9, <1>10 DEF StrongestTold, told

\* What the detectors are shown: the hits of every pattern, and entities; rules, and a
\* similarity.
ShownInv ==
    /\ hits = [raw |-> hits.raw, entities |-> hits.entities]
    /\ hits.raw \in [1 .. Len(Patterns) -> Seq(RawHit)]
    /\ hits.entities \in SUBSET Match
    /\ signals = [rules |-> signals.rules, similar |-> signals.similar]
    /\ signals.rules \in Seq(Signal) /\ signals.similar \in Signal

LEMMA InitShown == DetectorInit => ShownInv
<1> SUFFICES ASSUME DetectorInit
             PROVE  ShownInv
    OBVIOUS
<1>1. DOMAIN Patterns = 1 .. Len(Patterns)
    BY DetectorsAssumption, LenProperties
<1>2. <<>> \in Seq(RawHit) /\ <<>> \in Seq(Signal)
    BY EmptySeq
<1>3. NoSignal \in Signal
    BY DEF NoSignal, Signal, Score, Severity
<1> QED
    BY <1>1, <1>2, <1>3 DEF DetectorInit, ShownInv, NoHits, NoSignals

LEMMA NextShown == ShownInv /\ [DetectorNext]_detectors => ShownInv'
<1> SUFFICES ASSUME ShownInv, [DetectorNext]_detectors
             PROVE  ShownInv'
    OBVIOUS
<1>1. CASE NextHit
    <2>1. PICK p \in DOMAIN Patterns, s \in Spot, valid \in BOOLEAN :
             hits' = [hits EXCEPT !.raw[p] = Append(@,
                        [start |-> s.start, end |-> s.end, valid |-> valid])]
        BY <1>1 DEF NextHit
    <2> DEFINE hit == [start |-> s.start, end |-> s.end, valid |-> valid]
    <2>2. DOMAIN Patterns = 1 .. Len(Patterns)
        BY DetectorsAssumption, LenProperties
    <2>3. hit \in RawHit
        BY DEF Spot, RawHit
    <2>4. hits.raw[p] \in Seq(RawHit)
        BY <2>2 DEF ShownInv
    <2> HIDE DEF hit
    <2>5. Append(hits.raw[p], hit) \in Seq(RawHit)
        BY <2>3, <2>4, AppendProperties
    <2>6. hits' = [raw |-> [hits.raw EXCEPT ![p] = Append(hits.raw[p], hit)],
                   entities |-> hits.entities]
        BY <2>1 DEF ShownInv, hit
    <2>7. [hits.raw EXCEPT ![p] = Append(hits.raw[p], hit)]
             \in [1 .. Len(Patterns) -> Seq(RawHit)]
        BY <2>2, <2>5 DEF ShownInv
    <2> QED
        BY <1>1, <2>6, <2>7 DEF NextHit, ShownInv
<1>2. CASE NextEntities
    <2> DEFINE entity(spot, severity, score) ==
                 [pattern |-> 9, severity |-> severity, score |-> score,
                  start |-> spot.start, end |-> spot.end]
    <2>1. PICK s \in Spot, t \in Spot :
             hits' = [hits EXCEPT !.entities = {entity(s, 2, 70), entity(t, 0, 90)}]
        BY <1>2 DEF NextEntities
    <2>2. \A s1 \in Spot : entity(s1, 2, 70) \in Match /\ entity(s1, 0, 90) \in Match
        BY DEF Spot, Match, Severity, Score
    <2> HIDE DEF entity
    <2>3. hits' = [raw |-> hits.raw, entities |-> {entity(s, 2, 70), entity(t, 0, 90)}]
        BY <2>1 DEF ShownInv
    <2>4. signals' = signals
        BY <1>2 DEF NextEntities
    <2> QED
        BY <2>2, <2>3, <2>4 DEF ShownInv
<1>3. CASE NextRule
    <2>1. PICK score \in {55, 85, 95}, severity \in {2, 4} :
             signals' = [signals EXCEPT !.rules = Append(@,
                [score |-> score, severity |-> severity, category |-> Len(@) + 1])]
        BY <1>3 DEF NextRule
    <2> DEFINE rule == [score |-> score, severity |-> severity,
                        category |-> Len(signals.rules) + 1]
    <2>2. signals.rules \in Seq(Signal) /\ Len(signals.rules) \in Nat
        BY LenProperties DEF ShownInv
    <2>3. rule \in Signal
        BY <2>2 DEF Signal, Score, Severity
    <2>4. signals' = [rules |-> Append(signals.rules, rule), similar |-> signals.similar]
        BY <2>1 DEF ShownInv
    <2> HIDE DEF rule
    <2>5. Append(signals.rules, rule) \in Seq(Signal)
        BY <2>2, <2>3, AppendProperties
    <2> QED
        BY <1>3, <2>4, <2>5 DEF NextRule, ShownInv
<1>4. CASE NextSimilar
    <2>1. PICK score \in {30, 61, 85, 99} :
             signals' = [signals EXCEPT !.similar =
                            [score |-> score, severity |-> 3, category |-> 9]]
        BY <1>4 DEF NextSimilar
    <2>2. [score |-> score, severity |-> 3, category |-> 9] \in Signal
        BY DEF Signal, Score, Severity
    <2> QED
        BY <1>4, <2>1, <2>2 DEF NextSimilar, ShownInv
<1>5. CASE UNCHANGED detectors
    BY <1>5 DEF detectors, ShownInv
<1> QED
    BY <1>1, <1>2, <1>3, <1>4, <1>5 DEF DetectorNext

\* Of any text and any prompt that grow hit by hit and rule by rule, for any patterns and
\* any threshold: what is reported is the strongest, at every moment.
THEOREM DetectorsReport == DetectorSpec => []ReportedIsStrongest
<1>1. ShownInv => ReportedIsStrongest
    BY ReportsTheStrongest, TellsTheStrongest DEF ShownInv, ReportedIsStrongest
<1> QED
    BY <1>1, InitShown, NextShown, PTL DEF DetectorSpec

LEMMA PiiFound ==
    ASSUME NEW text, IsText(text), NEW field \in {"input", "output"}
    PROVE  PiiFindings(text, field) \subseteq Finding /\ IsFiniteSet(PiiFindings(text, field))
<1> DEFINE matches == Analyze(text.raw, text.entities)
           Of(m) == [detector |-> "pii", type |-> m.pattern, severity |-> m.severity,
                     score |-> m.score, field |-> field, start |-> m.start]
           of == [m \in matches |-> Of(m)]
<1>1. matches \subseteq Match /\ IsFiniteSet(matches)
    BY AnalyzedMatches DEF IsText
<1>2. PiiFindings(text, field) = {Of(m) : m \in matches}
    BY DEF PiiFindings
<1>3. \A m \in Match : Of(m) \in Finding
    BY DEF Match, Finding
<1> HIDE DEF Of, matches
<1>4. of \in Surjection(matches, {Of(m) : m \in matches})
    BY DEF Surjection
<1> HIDE DEF of
<1>5. IsFiniteSet({Of(m) : m \in matches})
    BY <1>1, <1>4, FS_Surjection
<1> QED
    BY <1>1, <1>2, <1>3, <1>5

LEMMA InjectionFound ==
    ASSUME NEW text, IsText(text)
    PROVE  /\ InjectionFindings(text, "input") \subseteq Finding
           /\ IsFiniteSet(InjectionFindings(text, "input"))
<1> DEFINE signal == ScanInjection(text.rules, text.similar)
<1>1. signal \in Signal
    <2>1. text.rules \in Seq(Signal) /\ text.similar \in Signal
        BY DEF IsText
    <2>2. BestRule(text.rules) \in Signal
        BY <2>1, BestOfRules
    <2>3. NoSignal \in Signal
        BY DEF NoSignal, Signal, Score, Severity
    <2> QED
        BY <2>1, <2>2, <2>3 DEF ScanInjection, Stronger
<1> HIDE DEF signal
<1> DEFINE found == [detector |-> "injection", type |-> signal.category,
                     severity |-> signal.severity, score |-> signal.score,
                     field |-> "input", start |-> 0]
<1>2. found \in Finding
    BY <1>1 DEF Signal, Finding
<1>3. InjectionFindings(text, "input") = IF signal = NoSignal THEN {} ELSE {found}
    BY DEF InjectionFindings, signal
<1>4. IsFiniteSet({}) /\ IsFiniteSet({found})
    BY FS_EmptySet, FS_Singleton
<1> HIDE DEF found
<1> QED
    BY <1>2, <1>3, <1>4

\* The scan of an event finds finitely many things.
LEMMA EventFindings ==
    ASSUME NEW e \in Ids
    PROVE  ScanEvent(Log[e]) \subseteq Finding /\ IsFiniteSet(ScanEvent(Log[e]))
<1>1. IsText(Log[e].input) /\ IsText(Log[e].output)
    BY GuardrailAssumption
<1> DEFINE p == PiiFindings(Log[e].input, "input")
           q == PiiFindings(Log[e].output, "output")
           r == IF Log[e].type \in Requests THEN InjectionFindings(Log[e].input, "input") ELSE {}
<1>2. p \subseteq Finding /\ IsFiniteSet(p) /\ q \subseteq Finding /\ IsFiniteSet(q)
    BY <1>1, PiiFound
<1>3. r \subseteq Finding /\ IsFiniteSet(r)
    BY <1>1, InjectionFound, FS_EmptySet
<1>4. ScanEvent(Log[e]) = (p \cup q) \cup r
    BY DEF ScanEvent
<1> HIDE DEF p, q, r
<1>5. IsFiniteSet(p \cup q)
    BY <1>2, FS_Union
<1>6. IsFiniteSet((p \cup q) \cup r)
    BY <1>3, <1>5, FS_Union
<1> QED
    BY <1>2, <1>3, <1>4, <1>6

LEMMA FindingFields ==
    \A f \in Finding : /\ f.severity \in Severity /\ f.severity \in Nat
                       /\ f.score \in Nat /\ f.type \in Nat
BY DEF Finding, Severity, Score

\* The worst of some findings: there is one.
LEMMA WorstFinding ==
    ASSUME NEW F \in SUBSET Finding, F # {}
    PROVE  \E f \in F : \A g \in F : Graver(f, g)
<1> DEFINE V(f) == 101 * (4 - f.severity) + (100 - f.score)
           S == {V(f) : f \in F}
<1>1. \A f \in F : f.severity \in 0 .. 4 /\ f.score \in 0 .. 100
    BY DEF Finding, Severity, Score
<1>2. \A f \in F : V(f) \in Nat
    BY <1>1
<1>3. S \in SUBSET Nat /\ S # {}
    BY <1>2
<1>4. PICK v \in S : \A w \in S : v <= w
    <2> HIDE DEF S
    <2> QED
        BY <1>3, LeastElement
<1>5. PICK f \in F : v = V(f)
    OBVIOUS
<1>6. ASSUME NEW g \in F
      PROVE  Graver(f, g)
    <2>1. V(f) <= V(g)
        BY <1>4, <1>5
    <2> DEFINE a == f.severity
               b == f.score
               c == g.severity
               d == g.score
    <2>2. a \in 0 .. 4 /\ b \in 0 .. 100 /\ c \in 0 .. 4 /\ d \in 0 .. 100
        BY <1>1
    <2>3. 101 * (4 - a) + (100 - b) <= 101 * (4 - c) + (100 - d)
        BY <2>1, Zenon
    <2> HIDE DEF V, a, b, c, d
    <2>4. a > c \/ (a = c /\ b >= d)
        BY <2>2, <2>3
    <2> QED
        BY <2>4 DEF Graver, a, b, c, d
<1> QED
    BY <1>6

-------------------------------------------------------------------------------
(* Traces                                                                  *)

\* The next trace is the lowest that is left.
LEMMA NextIsLowest ==
    ASSUME NEW p, todo[p] \in SUBSET Traces, todo[p] # {}
    PROVE  /\ NextTrace(p) \in todo[p]
           /\ \A t \in todo[p] : NextTrace(p) <= t
           /\ NextTrace(p) \in Nat
<1>1. todo[p] \in SUBSET Nat
    BY GuardrailAssumption
<1>2. \E t \in todo[p] : \A u \in todo[p] : t <= u
    BY <1>1, LeastElement
<1> QED
    BY <1>1, <1>2 DEF NextTrace, Lowest

\* The traces of a batch are traces, and natural numbers.
LEMMA WorkIsTraces ==
    ASSUME NEW b \in SUBSET Ids
    PROVE  /\ TracesOf(b) \subseteq Traces /\ TracesOf(Scannable(b)) \subseteq Traces
           /\ Traces \subseteq Nat
           /\ Scannable(b) \in SUBSET Ids
BY GuardrailAssumption DEF TracesOf, Scannable

\* What a scanner stores of a trace is of that trace, and the key names the trace.
LEMMA StoredOfTrace ==
    ASSUME NEW b, NEW t, NEW f \in FindingsOf(b, t)
    PROVE  f.trace = t
BY DEF FindingsOf, OfTrace, StoredOf, Stored

LEMMA KeyNamesTrace ==
    ASSUME NEW x, NEW f, KeyOf(x) = KeyOf(f)
    PROVE  x.trace = f.trace
BY DEF KeyOf

-------------------------------------------------------------------------------
(* The locks                                                               *)

lockVars == <<pc, batch, todo, own>>

LEMMA InitLocks == Init => LockInv
BY DEF Init, LockInv, TypeInv, OwnInv, OrderInv, KeyInv, Procs, NothingOwn

\* Nothing the other processes hold or wait for is changed by a step of p.
Only(p) ==
    \A q \in Procs \ {p} :
        /\ pc'[q] = pc[q] /\ batch'[q] = batch[q] /\ todo'[q] = todo[q]
        /\ q \in Scanners => own'[q] = own[q]

\* What OrderInv and KeyInv say of one process.
OrderOf(p) ==
    pc[p] # "idle" =>
        /\ todo[p] \subseteq Work(p)
        /\ \A t \in Work(p) \ todo[p], u \in todo[p] : t < u
        /\ pc[p] = "commit" <=> todo[p] = {}

KeysOf(s) ==
    /\ pc[s] = "idle" => own[s] = NothingOwn
    /\ \A x \in own[s].stored :
          /\ x.trace \in Work(s)
          /\ x.trace \in todo[s] => pc[s] = "upsert" /\ x.trace = NextTrace(s)

\* A step of p has to establish what is said of p only.
LEMMA OneProcess ==
    ASSUME LockInv, NEW p \in Procs, Only(p), TypeInv', OwnInv', OrderOf(p)',
           p \in Scanners => KeysOf(p)'
    PROVE  LockInv'
<1>1. ASSUME NEW q \in Procs PROVE OrderOf(q)'
    <2>1. CASE q = p
        BY <2>1
    <2>2. CASE q # p
        BY <2>2, <1>1 DEF LockInv, OrderInv, OrderOf, Only, Work
    <2> QED
        BY <2>1, <2>2
<1>2. ASSUME NEW q \in Scanners PROVE KeysOf(q)'
    <2>1. q \in Procs
        BY DEF Procs
    <2>2. CASE q = p
        BY <2>2
    <2>3. CASE q # p
        BY <2>1, <2>3, <1>2 DEF LockInv, KeyInv, KeysOf, Only, Work, NextTrace
    <2> QED
        BY <2>2, <2>3
<1> QED
    BY <1>1, <1>2 DEF LockInv, OrderInv, KeyInv, OrderOf, KeysOf

\* One field of what a scanner has written is replaced.
LEMMA StoredReplaced ==
    ASSUME OwnInv, NEW s \in Scanners, NEW F, own' = [own EXCEPT ![s].stored = @ \cup F]
    PROVE  /\ OwnInv'
           /\ own'[s].stored = own[s].stored \cup F
           /\ own'[s].rows = own[s].rows /\ own'[s].alerts = own[s].alerts
           /\ \A q \in Scanners \ {s} : own'[q] = own[q]
<1>1. /\ own' = [q \in Scanners |-> own'[q]]
      /\ \A q \in Scanners \ {s} : own'[q] = own[q]
      /\ own'[s] = [own[s] EXCEPT !.stored = @ \cup F]
    BY DEF OwnInv
<1>2. own[s] = [stored |-> own[s].stored, rows |-> own[s].rows, alerts |-> own[s].alerts]
    BY DEF OwnInv
<1>3. own'[s] = [stored |-> own[s].stored \cup F, rows |-> own[s].rows,
                 alerts |-> own[s].alerts]
    BY <1>1, <1>2
<1> QED
    BY <1>1, <1>3 DEF OwnInv

LEMMA RowsReplaced ==
    ASSUME OwnInv, NEW s \in Scanners, NEW f, NEW g,
           own' = [own EXCEPT ![s].rows = Over(f, @), ![s].alerts = Over(g, @)]
    PROVE  /\ OwnInv'
           /\ own'[s].stored = own[s].stored
           /\ own'[s].rows = Over(f, own[s].rows)
           /\ own'[s].alerts = Over(g, own[s].alerts)
           /\ \A q \in Scanners \ {s} : own'[q] = own[q]
<1>1. /\ own' = [q \in Scanners |-> own'[q]]
      /\ \A q \in Scanners \ {s} : own'[q] = own[q]
      /\ own'[s] = [own[s] EXCEPT !.rows = Over(f, @), !.alerts = Over(g, @)]
    BY DEF OwnInv
<1>2. own[s] = [stored |-> own[s].stored, rows |-> own[s].rows, alerts |-> own[s].alerts]
    BY DEF OwnInv
<1>3. own'[s] = [stored |-> own[s].stored, rows |-> Over(f, own[s].rows),
                 alerts |-> Over(g, own[s].alerts)]
    BY <1>1, <1>2
<1> QED
    BY <1>1, <1>3 DEF OwnInv

LEMMA OwnDropped ==
    ASSUME OwnInv, NEW s \in Scanners, own' = [own EXCEPT ![s] = NothingOwn]
    PROVE  /\ OwnInv'
           /\ own'[s] = NothingOwn /\ own'[s].stored = {}
           /\ \A q \in Scanners \ {s} : own'[q] = own[q]
BY DEF OwnInv, NothingOwn

LEMMA BeginLocks ==
    ASSUME LockInv, NEW s \in Scanners, NEW b \in SUBSET Ids, Begin(s, b)
    PROVE  LockInv'
<1> s \in Procs /\ s \notin Writers
    BY GuardrailAssumption DEF Procs
<1>1. own' = own
    BY DEF Begin
<1>2. OwnInv'
    BY <1>1 DEF LockInv, OwnInv
<1>3. CASE Scannable(b) = {}
    <2>1. UNCHANGED lockVars
        BY <1>3 DEF Begin, lockVars
    <2> QED
        BY <2>1 DEF lockVars, LockInv, TypeInv, OwnInv, OrderInv, KeyInv, Work, NextTrace
<1>4. CASE Scannable(b) # {}
    <2>1. TracesOf(Scannable(b)) \subseteq Traces /\ TracesOf(Scannable(b)) # {}
        BY <1>4, WorkIsTraces DEF TracesOf
    <2>2. /\ pc' = [pc EXCEPT ![s] = "read"] /\ batch' = [batch EXCEPT ![s] = b]
          /\ todo' = [todo EXCEPT ![s] = TracesOf(Scannable(b))]
        BY <1>4 DEF Begin
    <2>3. TypeInv'
        BY <2>1, <2>2 DEF LockInv, TypeInv
    <2>4. Only(s)
        BY <1>1, <2>2 DEF Only, LockInv, TypeInv
    <2>5. pc'[s] = "read" /\ batch'[s] = b /\ todo'[s] = TracesOf(Scannable(b))
        BY <2>2 DEF LockInv, TypeInv
    <2>6. OrderOf(s)'
        BY <2>1, <2>5 DEF OrderOf, Work
    <2>7. KeysOf(s)'
        <3>1. pc[s] = "idle"
            BY DEF Begin, Hand
        <3>2. own'[s].stored = {}
            BY <1>1, <3>1 DEF LockInv, KeyInv, NothingOwn
        <3> QED
            BY <2>5, <3>2 DEF KeysOf
    <2> QED
        BY <1>2, <2>3, <2>4, <2>6, <2>7, OneProcess
<1> QED
    BY <1>3, <1>4

LEMMA ReadLocks ==
    ASSUME LockInv, NEW s \in Scanners, Read(s)
    PROVE  LockInv'
<1> DEFINE t == NextTrace(s)
           new == NewOf(FindingsOf(batch[s], t))
<1> s \in Procs /\ s \notin Writers
    BY GuardrailAssumption DEF Procs
<1>1. own' = [own EXCEPT ![s].stored = @ \cup new]
    BY DEF Read
<1>2. /\ OwnInv'
      /\ own'[s].stored = own[s].stored \cup new
      /\ \A q \in Scanners \ {s} : own'[q] = own[q]
    <2> HIDE DEF new
    <2> QED
        BY <1>1, StoredReplaced, Zenon DEF LockInv
<1>3. pc[s] = "read" /\ pc' = [pc EXCEPT ![s] = "upsert"] /\ batch' = batch /\ todo' = todo
    BY DEF Read
<1>4. TypeInv'
    BY <1>3 DEF LockInv, TypeInv
<1>5. Only(s)
    BY <1>2, <1>3 DEF Only, LockInv, TypeInv
<1>6. todo[s] \in SUBSET Traces /\ todo[s] # {} /\ todo[s] \subseteq Work(s)
    BY <1>3 DEF LockInv, TypeInv, OrderInv
<1>7. t \in todo[s]
    BY <1>6, NextIsLowest
<1>8. \A x \in new : x.trace = t
    BY StoredOfTrace DEF NewOf
<1> HIDE DEF t, new
<1>9. OrderOf(s)'
    BY <1>3, <1>6 DEF OrderOf, LockInv, OrderInv, TypeInv, Work
<1>10. KeysOf(s)'
    <2>1. t = NextTrace(s)'
        BY <1>3 DEF t, NextTrace
    <2>2. pc'[s] = "upsert" /\ Work(s)' = Work(s) /\ todo'[s] = todo[s]
        BY <1>3 DEF LockInv, TypeInv, Work
    <2>3. \A x \in own[s].stored : x.trace \in Work(s) /\ x.trace \notin todo[s]
        BY <1>3 DEF LockInv, KeyInv
    <2> QED
        BY <1>2, <1>6, <1>7, <1>8, <2>1, <2>2, <2>3 DEF KeysOf
<1> QED
    BY <1>2, <1>4, <1>5, <1>9, <1>10, OneProcess

\* The next trace is locked: what is left lies above it, as what was locked lies below.
LEMMA LockNext ==
    ASSUME LockInv, NEW p \in Procs, NEW after \in {"read", "upsert"}, pc[p] = "upsert",
           p \in Writers => after = "upsert",
           batch' = batch, todo' = [todo EXCEPT ![p] = @ \ {NextTrace(p)}],
           pc' = [pc EXCEPT ![p] = IF todo[p] = {NextTrace(p)} THEN "commit" ELSE after]
    PROVE  /\ TypeInv' /\ OrderOf(p)'
           /\ todo'[p] = todo[p] \ {NextTrace(p)} /\ Work(p)' = Work(p) /\ pc'[p] # "idle"
           /\ \A q \in Procs \ {p} : pc'[q] = pc[q] /\ todo'[q] = todo[q]
<1> DEFINE t == NextTrace(p)
<1>1. todo[p] \in SUBSET Traces /\ todo[p] # {} /\ todo[p] \subseteq Work(p)
    BY DEF LockInv, TypeInv, OrderInv
<1>2. t \in todo[p] /\ (\A u \in todo[p] : t <= u) /\ t \in Nat
    BY <1>1, NextIsLowest
<1>3. \A u \in todo[p] : u \in Nat
    BY <1>1, GuardrailAssumption
<1>4. TypeInv'
    BY DEF LockInv, TypeInv
<1>5. /\ todo'[p] = todo[p] \ {t} /\ Work(p)' = Work(p)
      /\ pc'[p] = IF todo[p] = {t} THEN "commit" ELSE after
      /\ \A q \in Procs \ {p} : pc'[q] = pc[q] /\ todo'[q] = todo[q]
    BY DEF LockInv, TypeInv, Work
<1>6. \A u \in Work(p) \ todo[p], v \in todo[p] : u < v
    BY DEF LockInv, OrderInv
<1> HIDE DEF t
<1>7. \A u \in Work(p) \ todo'[p], v \in todo'[p] : u < v
    BY <1>2, <1>3, <1>5, <1>6
<1>8. OrderOf(p)'
    BY <1>1, <1>2, <1>5, <1>7 DEF OrderOf
<1> QED
    BY <1>4, <1>5, <1>8 DEF t

LEMMA UpsertLocks ==
    ASSUME LockInv, NEW s \in Scanners, Upsert(s)
    PROVE  LockInv'
<1> s \in Procs /\ s \notin Writers
    BY GuardrailAssumption DEF Procs
<1>1. /\ pc[s] = "upsert" /\ batch' = batch
      /\ todo' = [todo EXCEPT ![s] = @ \ {NextTrace(s)}]
      /\ pc' = [pc EXCEPT ![s] = IF todo[s] = {NextTrace(s)} THEN "commit" ELSE "read"]
    BY DEF Upsert
<1>2. /\ TypeInv' /\ OrderOf(s)'
      /\ todo'[s] = todo[s] \ {NextTrace(s)} /\ Work(s)' = Work(s) /\ pc'[s] # "idle"
      /\ \A q \in Procs \ {s} : pc'[q] = pc[q] /\ todo'[q] = todo[q]
    BY <1>1, LockNext
<1>3. own' = [own EXCEPT
                ![s].rows = Over([u \in {NextTrace(s)} |->
                                    MergedRow(seen[s], Combined(batch[s], NextTrace(s)))], @),
                ![s].alerts = Over(AlertsFor(batch[s], NextTrace(s)), @)]
    BY DEF Upsert
<1>4. /\ OwnInv' /\ own'[s].stored = own[s].stored
      /\ \A q \in Scanners \ {s} : own'[q] = own[q]
    BY <1>3, RowsReplaced, Zenon DEF LockInv
<1>5. Only(s)
    BY <1>1, <1>2, <1>4 DEF Only
<1>6. KeysOf(s)'
    BY <1>2, <1>4 DEF KeysOf, LockInv, KeyInv
<1> QED
    BY <1>2, <1>4, <1>5, <1>6, OneProcess

\* The end of a transaction.
LEMMA LeaveLocks ==
    ASSUME LockInv, NEW p \in Procs, Leave(p),
           IF p \in Scanners THEN own' = [own EXCEPT ![p] = NothingOwn] ELSE own' = own
    PROVE  LockInv'
<1>1. TypeInv' /\ pc'[p] = "idle"
    BY DEF Leave, LockInv, TypeInv
<1>2. OwnInv' /\ (\A q \in Scanners \ {p} : own'[q] = own[q])
             /\ (p \in Scanners => own'[p] = NothingOwn /\ own'[p].stored = {})
    BY OwnDropped DEF LockInv, OwnInv
<1>3. Only(p)
    BY <1>2 DEF Only, Leave, LockInv, TypeInv
<1>4. OrderOf(p)' /\ (p \in Scanners => KeysOf(p)')
    BY <1>1, <1>2 DEF OrderOf, KeysOf
<1> QED
    BY <1>1, <1>2, <1>3, <1>4, OneProcess

LEMMA StoreBeginLocks ==
    ASSUME LockInv, NEW w \in Writers, NEW b \in StoreBatches, StoreBegin(w, b)
    PROVE  LockInv'
<1> w \in Procs /\ w \notin Scanners /\ b \in SUBSET Ids /\ b # {}
    BY GuardrailAssumption DEF Procs
<1>1. TracesOf(b) \subseteq Traces /\ TracesOf(b) # {}
    BY WorkIsTraces DEF TracesOf
<1>2. /\ pc' = [pc EXCEPT ![w] = "upsert"] /\ batch' = [batch EXCEPT ![w] = b]
      /\ todo' = [todo EXCEPT ![w] = TracesOf(b)] /\ own' = own
    BY DEF StoreBegin
<1>3. TypeInv' /\ OwnInv'
    BY <1>1, <1>2 DEF LockInv, TypeInv, OwnInv
<1>4. Only(w)
    BY <1>2 DEF Only, LockInv, TypeInv
<1>5. pc'[w] = "upsert" /\ batch'[w] = b /\ todo'[w] = TracesOf(b)
    BY <1>2 DEF LockInv, TypeInv
<1>6. OrderOf(w)'
    BY <1>1, <1>5 DEF OrderOf, Work
<1> QED
    BY <1>3, <1>4, <1>6, OneProcess

LEMMA StoreUpsertLocks ==
    ASSUME LockInv, NEW w \in Writers, StoreUpsert(w)
    PROVE  LockInv'
<1> w \in Procs /\ w \notin Scanners
    BY GuardrailAssumption DEF Procs
<1>1. /\ pc[w] = "upsert" /\ batch' = batch /\ own' = own
      /\ todo' = [todo EXCEPT ![w] = @ \ {NextTrace(w)}]
      /\ pc' = [pc EXCEPT ![w] = IF todo[w] = {NextTrace(w)} THEN "commit" ELSE "upsert"]
    BY DEF StoreUpsert
<1>2. /\ TypeInv' /\ OrderOf(w)'
      /\ \A q \in Procs \ {w} : pc'[q] = pc[q] /\ todo'[q] = todo[q]
    BY <1>1, LockNext
<1>3. OwnInv' /\ Only(w)
    BY <1>1, <1>2 DEF LockInv, OwnInv, Only
<1> QED
    BY <1>2, <1>3, OneProcess

LEMMA NextLocks == LockInv /\ [Next]_vars => LockInv'
<1> SUFFICES ASSUME LockInv, [Next]_vars PROVE LockInv'
    OBVIOUS
<1>1. ASSUME NEW s \in Scanners, Scan(s) PROVE LockInv'
    <2> s \in Procs
        BY DEF Procs
    <2>1. ASSUME NEW b \in SUBSET Ids, Begin(s, b) PROVE LockInv'
        BY <2>1, BeginLocks
    <2>2. CASE Read(s)
        BY <2>2, ReadLocks
    <2>3. CASE Upsert(s)
        BY <2>3, UpsertLocks
    <2>4. ASSUME NEW acked \in BOOLEAN, Commit(s, acked) PROVE LockInv'
        BY <2>4, LeaveLocks DEF Commit
    <2>5. CASE Abort(s)
        BY <2>5, LeaveLocks DEF Abort
    <2> QED
        BY <1>1, <2>1, <2>2, <2>3, <2>4, <2>5 DEF Scan
<1>2. ASSUME NEW w \in Writers, Store(w) PROVE LockInv'
    <2> w \in Procs /\ w \notin Scanners
        BY GuardrailAssumption DEF Procs
    <2>1. ASSUME NEW b \in StoreBatches, StoreBegin(w, b) PROVE LockInv'
        BY <2>1, StoreBeginLocks
    <2>2. CASE StoreUpsert(w)
        BY <2>2, StoreUpsertLocks
    <2>3. CASE StoreCommit(w)
        BY <2>3, LeaveLocks DEF StoreCommit
    <2> QED
        BY <1>2, <2>1, <2>2, <2>3 DEF Store
<1>3. CASE UNCHANGED lockVars
    BY <1>3 DEF lockVars, LockInv, TypeInv, OwnInv, OrderInv, KeyInv, Work, NextTrace
<1>4. CASE Retain
    <2>1. UNCHANGED lockVars
        BY <1>4 DEF Retain, PurgeChildren, PurgeTraces, PurgeAbort, lockVars
    <2> QED
        BY <1>3, <2>1
<1>5. ASSUME NEW k, NEW resolve, Acknowledge(k, resolve) PROVE LockInv'
    <2>1. UNCHANGED lockVars
        BY <1>5 DEF Acknowledge, lockVars
    <2> QED
        BY <1>3, <2>1
<1>6. CASE UNCHANGED vars
    BY <1>3, <1>6 DEF vars, lockVars
<1> QED
    BY <1>1, <1>2, <1>4, <1>5, <1>6 DEF Next

\* In a state: who waits for whom.
LEMMA LocksHold == Spec => []LockInv
<1>1. Init => LockInv
    BY InitLocks
<1>2. LockInv /\ [Next]_vars => LockInv'
    BY NextLocks
<1> QED
    BY <1>1, <1>2, PTL DEF Spec

-------------------------------------------------------------------------------
(* Waiting                                                                 *)

\* How far a process that waits is from the end of the global order: twice the traces
\* above its next one, and one more while it has still to insert that one's findings.
Left(p) ==
    2 * Cardinality({t \in Traces : t > NextTrace(p)}) + IF pc[p] = "read" THEN 1 ELSE 0

\* Fewer traces lie above a higher one.
LEMMA FewerAbove ==
    ASSUME NEW a \in Traces, NEW b \in Traces, a < b
    PROVE  /\ Cardinality({t \in Traces : t > a}) \in Nat
           /\ Cardinality({t \in Traces : t > b}) \in Nat
           /\ Cardinality({t \in Traces : t > b}) + 1 <= Cardinality({t \in Traces : t > a})
<1> DEFINE A == {t \in Traces : t > a}
           B == {t \in Traces : t > b}
<1>1. a \in Nat /\ b \in Nat /\ Traces \subseteq Nat /\ IsFiniteSet(Traces)
    BY GuardrailAssumption
<1>2. B \in SUBSET A /\ b \in A /\ b \notin B /\ A \in SUBSET Traces
    <2>1. \A t \in Traces : t \in Nat /\ (t > b => t > a)
        BY <1>1
    <2>2. b > a /\ ~(b > b)
        BY <1>1
    <2> QED
        BY <2>1, <2>2
<1> HIDE DEF A, B
<1>3. IsFiniteSet(A)
    BY <1>1, <1>2, FS_Subset
<1>4. IsFiniteSet(B) /\ Cardinality(B) <= Cardinality(A) /\ Cardinality(A) # Cardinality(B)
    BY <1>2, <1>3, FS_Subset
<1>5. Cardinality(A) \in Nat /\ Cardinality(B) \in Nat
    BY <1>3, <1>4, FS_CardinalityType
<1>6. Cardinality(B) + 1 <= Cardinality(A)
    BY <1>4, <1>5
<1> QED
    BY <1>5, <1>6 DEF A, B

\* A process that waits has a next trace.
LEMMA WaitingHasNext ==
    ASSUME LockInv, NEW p \in Procs, pc[p] \in {"read", "upsert"}
    PROVE  /\ NextTrace(p) \in todo[p] /\ NextTrace(p) \in Traces
           /\ \A t \in Work(p) \ todo[p] : t < NextTrace(p)
           /\ Left(p) \in Nat
<1>1. todo[p] \in SUBSET Traces /\ todo[p] # {}
    BY DEF LockInv, TypeInv, OrderInv
<1>2. NextTrace(p) \in todo[p] /\ NextTrace(p) \in Traces
    BY <1>1, NextIsLowest
<1>3. \A t \in Work(p) \ todo[p] : t < NextTrace(p)
    BY <1>2 DEF LockInv, OrderInv
<1>4. IsFiniteSet({t \in Traces : t > NextTrace(p)})
    BY GuardrailAssumption, FS_Subset
<1>5. Cardinality({t \in Traces : t > NextTrace(p)}) \in Nat
    BY <1>4, FS_CardinalityType
<1> QED
    BY <1>2, <1>3, <1>5 DEF Left

\* Whoever is waited for, and waits himself, is further in the order.
LEMMA WaitsForLess ==
    ASSUME LockInv, NEW p \in Procs, NEW q \in Procs, WaitsFor(p, q),
           pc[q] \in {"read", "upsert"}
    PROVE  Left(q) < Left(p)
<1>1. pc[p] \in {"read", "upsert"}
    BY DEF WaitsFor
<1>2. /\ NextTrace(p) \in Traces /\ NextTrace(q) \in Traces
      /\ NextTrace(p) \in Nat /\ NextTrace(q) \in Nat
      /\ Left(p) \in Nat /\ Left(q) \in Nat
    BY <1>1, WaitingHasNext, GuardrailAssumption
<1>3. ASSUME NextTrace(p) < NextTrace(q) PROVE Left(q) < Left(p)
    <2> DEFINE m == Cardinality({t \in Traces : t > NextTrace(p)})
               n == Cardinality({t \in Traces : t > NextTrace(q)})
    <2>1. m \in Nat /\ n \in Nat /\ n + 1 <= m
        BY <1>2, <1>3, FewerAbove
    <2>2. Left(p) \in {2 * m, 2 * m + 1} /\ Left(q) \in {2 * n, 2 * n + 1}
        <3> HIDE DEF m, n
        <3>1. 2 * m + 0 = 2 * m /\ 2 * n + 0 = 2 * n
            BY <2>1
        <3> QED
            BY <3>1 DEF Left, m, n
    <2> HIDE DEF m, n
    <2> QED
        BY <2>1, <2>2
<1>4. CASE pc[p] = "upsert" /\ NextTrace(p) \in Locked(q)
    <2>1. NextTrace(p) \in Work(q) \ todo[q]
        BY <1>4 DEF Locked, Work
    <2> QED
        BY <2>1, <1>3, WaitingHasNext
<1>5. CASE /\ {p, q} \subseteq Scanners /\ pc[p] = "read"
           /\ \E x \in own[q].stored, f \in FindingsOf(batch[p], NextTrace(p)) :
                 KeyOf(x) = KeyOf(f)
    <2>1. PICK x \in own[q].stored, f \in FindingsOf(batch[p], NextTrace(p)) :
              KeyOf(x) = KeyOf(f)
        BY <1>5
    <2>2. x.trace = NextTrace(p)
        BY <2>1, StoredOfTrace, KeyNamesTrace
    <2>3. /\ x.trace \in Work(q)
          /\ x.trace \in todo[q] => pc[q] = "upsert" /\ x.trace = NextTrace(q)
        BY <1>5, <2>1 DEF LockInv, KeyInv
    <2>4. CASE x.trace \notin todo[q]
        BY <1>3, <2>2, <2>3, <2>4, WaitingHasNext
    <2>5. CASE x.trace \in todo[q]
        <3>1. pc[q] = "upsert" /\ NextTrace(q) = NextTrace(p)
            BY <2>2, <2>3, <2>5
        <3> DEFINE n == Cardinality({t \in Traces : t > NextTrace(p)})
        <3>2. n \in Nat
            <4>1. IsFiniteSet({t \in Traces : t > NextTrace(p)})
                BY GuardrailAssumption, FS_Subset
            <4> QED
                BY <4>1, FS_CardinalityType
        <3>3. Left(p) = 2 * n + 1 /\ Left(q) = 2 * n
            BY <1>5, <3>1, <3>2 DEF Left
        <3> HIDE DEF n
        <3> QED
            BY <3>2, <3>3
    <2> QED
        BY <2>4, <2>5
<1> QED
    BY <1>4, <1>5 DEF WaitsFor

LEMMA NobodyInACircle == LockInv => NoLockCycle
<1> SUFFICES ASSUME LockInv, NEW S \in (SUBSET Procs) \ {{}},
                    \A p \in S : \E q \in S : WaitsFor(p, q)
             PROVE  FALSE
    BY DEF NoLockCycle
<1> S \subseteq Procs /\ S # {}
    OBVIOUS
<1>1. \A p \in S : pc[p] \in {"read", "upsert"}
    BY DEF WaitsFor
<1>2. \A p \in S : Left(p) \in Nat
    BY <1>1, WaitingHasNext
<1> DEFINE N == {Left(p) : p \in S}
<1>3. N \in SUBSET Nat /\ N # {}
    BY <1>2
<1>4. PICK n \in N : \A m \in N : n <= m
    <2> HIDE DEF N
    <2> QED
        BY <1>3, LeastElement
<1>5. PICK p \in S : n = Left(p)
    BY <1>4
<1>6. PICK q \in S : WaitsFor(p, q)
    OBVIOUS
<1>7. Left(q) < Left(p)
    BY <1>1, <1>6, WaitsForLess
<1>8. Left(q) \in N /\ Left(p) \in Nat /\ Left(q) \in Nat
    BY <1>2
<1> QED
    BY <1>4, <1>5, <1>7, <1>8

\* Replicas of the scanner and of the storage writer never wait for each other in a
\* circle, however many they are and whatever their batches: the traces they lock, and
\* before each the keys they insert, have one order (guardrail_scanner.py:79-83).
THEOREM NoCircle == Spec => []NoLockCycle
BY LocksHold, NobodyInACircle, PTL

-------------------------------------------------------------------------------
(* The purge, and the operator                                             *)

\* A finding has its row, or was written while its trace was purged; the rows a
\* transaction has locked are among those it will commit.
RowInv ==
    /\ NothingStranded
    /\ \A s \in Scanners :
          pc[s] # "idle" => \A t \in Work(s) \ todo[s] : t \in DOMAIN own[s].rows

LEMMA InitRows == Init => RowInv
BY DEF Init, RowInv, NothingStranded, Procs

\* A step that leaves a scanner where it is leaves what it has locked and written.
LEMMA RowsOfOthers ==
    ASSUME RowInv, NEW p, NEW s \in Scanners, s # p, Only(p), Procs = Scanners \cup Writers
    PROVE  pc'[s] # "idle" => \A t \in (Work(s) \ todo[s])' : t \in DOMAIN own'[s].rows
BY DEF RowInv, Only, Work

LEMMA NextRows == LockInv /\ RowInv /\ [Next]_vars => RowInv'
<1> SUFFICES ASSUME LockInv, RowInv, [Next]_vars PROVE RowInv'
    OBVIOUS
<1> DEFINE Mine(s) == pc[s] # "idle" => \A t \in Work(s) \ todo[s] : t \in DOMAIN own[s].rows
<1>1. ASSUME NEW s \in Scanners, NEW b \in SUBSET Ids, Begin(s, b) PROVE RowInv'
    <2> s \in Procs
        BY DEF Procs
    <2>1. NothingStranded'
        BY <1>1 DEF Begin, RowInv, NothingStranded
    <2>2. ASSUME NEW q \in Scanners PROVE Mine(q)'
        <3> q \in Procs
            BY DEF Procs
        <3>1. CASE q # s \/ Scannable(b) = {}
            BY <1>1, <3>1 DEF Begin, LockInv, TypeInv, RowInv, Work
        <3>2. CASE q = s /\ Scannable(b) # {}
            <4>1. (Work(q) \ todo[q])' = {}
                BY <1>1, <3>2 DEF Begin, LockInv, TypeInv, Work
            <4> QED
                BY <4>1
        <3> QED
            BY <3>1, <3>2
    <2> QED
        BY <2>1, <2>2 DEF RowInv
<1>2. ASSUME NEW s \in Scanners, Read(s) PROVE RowInv'
    <2> s \in Procs
        BY DEF Procs
    <2>1. NothingStranded'
        BY <1>2 DEF Read, RowInv, NothingStranded
    <2>2. \A q \in Scanners : own'[q].rows = own[q].rows
        <3> DEFINE new == NewOf(FindingsOf(batch[s], NextTrace(s)))
        <3>1. own' = [own EXCEPT ![s].stored = @ \cup new]
            BY <1>2 DEF Read
        <3> HIDE DEF new
        <3> QED
            BY <3>1, StoredReplaced, Zenon DEF LockInv
    <2>3. pc[s] = "read" /\ pc' = [pc EXCEPT ![s] = "upsert"] /\ UNCHANGED <<batch, todo>>
        BY <1>2 DEF Read
    <2>4. ASSUME NEW q \in Scanners PROVE Mine(q)'
        BY <2>2, <2>3 DEF LockInv, TypeInv, RowInv, Work, Procs
    <2> QED
        BY <2>1, <2>4 DEF RowInv
<1>3. ASSUME NEW s \in Scanners, Upsert(s) PROVE RowInv'
    <2> s \in Procs /\ s \notin Writers
        BY GuardrailAssumption DEF Procs
    <2> DEFINE row == [u \in {NextTrace(s)} |-> MergedRow(seen[s], Combined(batch[s], NextTrace(s)))]
               raise == AlertsFor(batch[s], NextTrace(s))
    <2>1. NothingStranded'
        BY <1>3 DEF Upsert, RowInv, NothingStranded
    <2>2. own' = [own EXCEPT ![s].rows = Over(row, @), ![s].alerts = Over(raise, @)]
        BY <1>3 DEF Upsert
    <2>3. DOMAIN row = {NextTrace(s)}
        OBVIOUS
    <2> HIDE DEF row, raise
    <2>4. own'[s].rows = Over(row, own[s].rows) /\ \A q \in Scanners \ {s} : own'[q] = own[q]
        BY <2>2, RowsReplaced, Zenon DEF LockInv
    <2>5. DOMAIN own'[s].rows = {NextTrace(s)} \cup DOMAIN own[s].rows
        BY <2>3, <2>4 DEF Over
    <2>6. /\ pc[s] = "upsert" /\ batch' = batch
          /\ todo' = [todo EXCEPT ![s] = @ \ {NextTrace(s)}]
          /\ pc' = [pc EXCEPT ![s] = IF todo[s] = {NextTrace(s)} THEN "commit" ELSE "read"]
        BY <1>3 DEF Upsert
    <2>7. /\ todo'[s] = todo[s] \ {NextTrace(s)} /\ Work(s)' = Work(s)
          /\ \A q \in Procs \ {s} : pc'[q] = pc[q] /\ todo'[q] = todo[q]
        BY <2>6, LockNext
    <2>8. ASSUME NEW q \in Scanners PROVE Mine(q)'
        <3>1. CASE q = s
            BY <2>5, <2>6, <2>7, <3>1 DEF RowInv
        <3>2. CASE q # s
            BY <2>4, <2>6, <2>7, <3>2 DEF RowInv, Work, Procs
        <3> QED
            BY <3>1, <3>2
    <2> QED
        BY <2>1, <2>8 DEF RowInv
<1>4. ASSUME NEW s \in Scanners, NEW acked \in BOOLEAN, Commit(s, acked) PROVE RowInv'
    <2> s \in Procs
        BY DEF Procs
    <2>1. todo[s] = {} /\ pc[s] = "commit"
        BY <1>4 DEF Commit, LockInv, OrderInv
    <2>2. \A x \in own[s].stored : x.trace \in DOMAIN own[s].rows
        BY <2>1 DEF LockInv, KeyInv, RowInv
    <2>3. DOMAIN rows' = DOMAIN own[s].rows \cup DOMAIN rows
        BY <1>4 DEF Commit, Over
    <2>4. NothingStranded'
        BY <1>4, <2>2, <2>3 DEF Commit, RowInv, NothingStranded
    <2>5. ASSUME NEW q \in Scanners PROVE Mine(q)'
        BY <1>4 DEF Commit, Leave, LockInv, TypeInv, OwnInv, RowInv, Work, Procs
    <2> QED
        BY <2>4, <2>5 DEF RowInv
<1>5. ASSUME NEW s \in Scanners, Abort(s) PROVE RowInv'
    <2>1. NothingStranded'
        BY <1>5 DEF Abort, RowInv, NothingStranded
    <2>2. ASSUME NEW q \in Scanners PROVE Mine(q)'
        BY <1>5 DEF Abort, Leave, LockInv, TypeInv, OwnInv, RowInv, Work, Procs
    <2> QED
        BY <2>1, <2>2 DEF RowInv
<1>6. ASSUME NEW w \in Writers, Store(w) PROVE RowInv'
    <2> w \in Procs /\ w \notin Scanners
        BY GuardrailAssumption DEF Procs
    <2>1. DOMAIN rows \subseteq DOMAIN rows' /\ findings' = findings /\ raced' = raced
        BY <1>6 DEF Store, StoreBegin, StoreUpsert, StoreCommit, Over
    <2>2. NothingStranded'
        BY <2>1 DEF RowInv, NothingStranded
    <2>3. ASSUME NEW q \in Scanners PROVE Mine(q)'
        <3>1. q \in Procs /\ q # w
            BY DEF Procs
        <3>2. /\ pc'[q] = pc[q] /\ batch'[q] = batch[q] /\ todo'[q] = todo[q]
              /\ own' = own
            BY <1>6, <3>1 DEF Store, StoreBegin, StoreUpsert, StoreCommit, Leave, LockInv, TypeInv
        <3> QED
            BY <3>2 DEF RowInv, Work
    <2> QED
        BY <2>2, <2>3 DEF RowInv
<1>7. CASE Retain
    <2>1. UNCHANGED lockVars
        BY <1>7 DEF Retain, PurgeChildren, PurgeTraces, PurgeAbort, lockVars
    <2>2. ASSUME NEW q \in Scanners PROVE Mine(q)'
        BY <2>1 DEF lockVars, RowInv, Work
    <2>3. ASSUME PurgeTraces PROVE NothingStranded'
        <3>1. DOMAIN rows' = DOMAIN rows \ purge.ids
            BY <2>3 DEF PurgeTraces
        <3>2. ASSUME NEW x \in findings' PROVE x.trace \in DOMAIN rows' \cup raced'
            <4>1. x \in findings \ purge.doomed
                BY <2>3 DEF PurgeTraces, Doomed
            <4>2. x.trace \in DOMAIN rows \cup raced
                BY <4>1 DEF RowInv, NothingStranded
            <4>3. CASE x.trace \in purge.ids
                BY <2>3, <4>1, <4>3 DEF PurgeTraces
            <4>4. CASE x.trace \notin purge.ids
                BY <2>3, <3>1, <4>2, <4>4 DEF PurgeTraces
            <4> QED
                BY <4>3, <4>4
        <3> QED
            BY <3>2 DEF NothingStranded
    <2>4. ASSUME PurgeAbort \/ \E ids \in SUBSET Traces : PurgeChildren(ids)
          PROVE  NothingStranded'
        BY <2>4 DEF PurgeAbort, PurgeChildren, RowInv, NothingStranded
    <2> QED
        BY <1>7, <2>2, <2>3, <2>4 DEF Retain, RowInv
<1>8. CASE UNCHANGED <<lockVars, findings, rows, raced>>
    BY <1>8 DEF lockVars, RowInv, NothingStranded, Work
<1>9. ASSUME NEW k, NEW resolve, Acknowledge(k, resolve) PROVE RowInv'
    BY <1>8, <1>9 DEF Acknowledge, lockVars
<1>10. CASE UNCHANGED vars
    BY <1>8, <1>10 DEF vars, lockVars
<1> QED
    BY <1>1, <1>2, <1>3, <1>4, <1>5, <1>6, <1>7, <1>9, <1>10 DEF Next, Scan

\* The purge takes a trace whole: no finding outlives its trace (retention.py:67-70),
\* but one that a scanner stored while the purge was under way.
THEOREM PurgeIsWhole == Spec => []NothingStranded
<1>1. Init => LockInv /\ RowInv
    BY InitLocks, InitRows
<1>2. LockInv /\ RowInv /\ [Next]_vars => LockInv' /\ RowInv'
    BY NextLocks, NextRows
<1>3. RowInv => NothingStranded
    BY DEF RowInv
<1> QED
    BY <1>1, <1>2, <1>3, PTL DEF Spec

\* An alert is a record of three fields; alerts is a table of them.
AlertInv ==
    /\ alerts = [k \in DOMAIN alerts |-> alerts[k]]
    /\ \A k \in DOMAIN alerts :
          alerts[k] = [severity |-> alerts[k].severity, status |-> alerts[k].status,
                       acknowledged |-> alerts[k].acknowledged]

\* What a step may not do to an alert that is there.
Kept(k) ==
    /\ k \in DOMAIN alerts'
    /\ alerts[k].acknowledged => alerts'[k].acknowledged
    /\ alerts[k].status = "resolved" => alerts'[k].status = "resolved"

\* An upsert of raise_alert leaves what the operator has set of a row that exists.
LEMMA RefreshKeeps ==
    ASSUME AlertInv, NEW k \in DOMAIN alerts, NEW severity
    PROVE  Refreshed(alerts[k], severity) =
             [severity |-> severity, status |-> alerts[k].status,
              acknowledged |-> alerts[k].acknowledged]
<1>1. alerts[k] = [severity |-> alerts[k].severity, status |-> alerts[k].status,
                   acknowledged |-> alerts[k].acknowledged]
    BY DEF AlertInv
<1> QED
    BY <1>1 DEF Refreshed

LEMMA CommitKeeps ==
    ASSUME AlertInv, NEW s \in Scanners, NEW acked, Commit(s, acked)
    PROVE  /\ AlertInv' /\ \A k \in DOMAIN alerts : Kept(k)
           /\ DOMAIN alerts' = DOMAIN alerts \cup DOMAIN own[s].alerts
           /\ \A k \in DOMAIN alerts' :
                 alerts'[k].severity = IF k \in DOMAIN own[s].alerts THEN own[s].alerts[k]
                                       ELSE alerts[k].severity
<1> DEFINE new == own[s].alerts
<1>1. alerts' = Raised(new)
    BY DEF Commit
<1> HIDE DEF new
<1>2. DOMAIN alerts' = DOMAIN alerts \cup DOMAIN new
    BY <1>1 DEF Raised
<1>3. ASSUME NEW k \in DOMAIN alerts
      PROVE  \/ alerts'[k] = alerts[k]
             \/ alerts'[k] = [severity |-> new[k], status |-> alerts[k].status,
                              acknowledged |-> alerts[k].acknowledged]
    BY <1>1, <1>2, RefreshKeeps DEF Raised
<1>4. ASSUME NEW k \in DOMAIN alerts', k \notin DOMAIN alerts
      PROVE  alerts'[k] = [severity |-> new[k], status |-> "open", acknowledged |-> FALSE]
    BY <1>1, <1>2, <1>4 DEF Raised
<1>5. \A k \in DOMAIN alerts : Kept(k)
    BY <1>2, <1>3 DEF Kept
<1>6. ASSUME NEW k \in DOMAIN alerts'
      PROVE  alerts'[k] = [severity |-> alerts'[k].severity, status |-> alerts'[k].status,
                           acknowledged |-> alerts'[k].acknowledged]
    <2>1. CASE k \notin DOMAIN alerts
        BY <1>4, <2>1
    <2>2. CASE k \in DOMAIN alerts
        <3>1. CASE alerts'[k] = alerts[k]
            BY <2>2, <3>1 DEF AlertInv
        <3>2. CASE alerts'[k] # alerts[k]
            <4>1. alerts'[k] = [severity |-> new[k], status |-> alerts[k].status,
                                acknowledged |-> alerts[k].acknowledged]
                BY <1>3, <2>2, <3>2
            <4> QED
                BY <4>1
        <3> QED
            BY <3>1, <3>2
    <2> QED
        BY <2>1, <2>2
<1>7. alerts' = [k \in DOMAIN alerts' |-> alerts'[k]]
    BY <1>1 DEF Raised
<1>8. ASSUME NEW k \in DOMAIN alerts'
      PROVE  alerts'[k].severity = IF k \in DOMAIN new THEN new[k] ELSE alerts[k].severity
    <2>1. CASE k \notin DOMAIN alerts
        <3>1. alerts'[k] = [severity |-> new[k], status |-> "open", acknowledged |-> FALSE]
            BY <1>4, <2>1
        <3>2. k \in DOMAIN new
            BY <1>2, <2>1
        <3> QED
            BY <3>1, <3>2
    <2>2. CASE k \in DOMAIN alerts /\ k \in DOMAIN new
        <3>1. alerts'[k] = [severity |-> new[k], status |-> alerts[k].status,
                            acknowledged |-> alerts[k].acknowledged]
            BY <1>1, <1>2, <2>2, RefreshKeeps DEF Raised
        <3> QED
            BY <2>2, <3>1
    <2>3. CASE k \in DOMAIN alerts /\ k \notin DOMAIN new
        BY <1>1, <1>2, <2>3 DEF Raised
    <2> QED
        BY <2>1, <2>2, <2>3
<1> QED
    BY <1>2, <1>5, <1>6, <1>7, <1>8 DEF AlertInv, new

LEMMA AcknowledgeKeeps ==
    ASSUME AlertInv, NEW j, NEW resolve, Acknowledge(j, resolve)
    PROVE  /\ AlertInv' /\ \A k \in DOMAIN alerts : Kept(k)
           /\ DOMAIN alerts' = DOMAIN alerts
           /\ \A k \in DOMAIN alerts : alerts'[k].severity = alerts[k].severity
<1> DEFINE after == IF resolve THEN "resolved" ELSE alerts[j].status
<1>1. j \in DOMAIN alerts
    BY DEF Acknowledge
<1>2. alerts' = [alerts EXCEPT ![j].acknowledged = TRUE,
                               ![j].status = IF resolve THEN "resolved" ELSE @]
    BY DEF Acknowledge
<1>3. alerts[j] = [severity |-> alerts[j].severity, status |-> alerts[j].status,
                   acknowledged |-> alerts[j].acknowledged]
    BY <1>1 DEF AlertInv
<1>4. /\ DOMAIN alerts' = DOMAIN alerts /\ alerts' = [k \in DOMAIN alerts' |-> alerts'[k]]
      /\ \A k \in DOMAIN alerts \ {j} : alerts'[k] = alerts[k]
      /\ alerts'[j] = [alerts[j] EXCEPT !.acknowledged = TRUE,
                                        !.status = IF resolve THEN "resolved" ELSE @]
    BY <1>1, <1>2 DEF AlertInv
<1>5. alerts'[j] = [severity |-> alerts[j].severity, status |-> after, acknowledged |-> TRUE]
    BY <1>3, <1>4
<1>6. \A k \in DOMAIN alerts : Kept(k)
    BY <1>4, <1>5 DEF Kept
<1>7. ASSUME NEW k \in DOMAIN alerts'
      PROVE  alerts'[k] = [severity |-> alerts'[k].severity, status |-> alerts'[k].status,
                           acknowledged |-> alerts'[k].acknowledged]
    <2>1. CASE k = j
        <3> HIDE DEF after
        <3> QED
            BY <1>5, <2>1
    <2>2. CASE k # j
        BY <1>4, <2>2 DEF AlertInv
    <2> QED
        BY <2>1, <2>2
<1>8. \A k \in DOMAIN alerts : alerts'[k].severity = alerts[k].severity
    <2>1. alerts'[j].severity = alerts[j].severity
        BY <1>5
    <2> QED
        BY <1>4, <2>1
<1> QED
    BY <1>4, <1>6, <1>7, <1>8 DEF AlertInv

LEMMA NextKeeps ==
    AlertInv /\ [Next]_vars => AlertInv' /\ \A k \in DOMAIN alerts : Kept(k)
<1> SUFFICES ASSUME AlertInv, [Next]_vars
             PROVE  AlertInv' /\ \A k \in DOMAIN alerts : Kept(k)
    OBVIOUS
<1>1. CASE UNCHANGED alerts
    BY <1>1 DEF AlertInv, Kept
<1>2. ASSUME NEW s \in Scanners, Scan(s), ~\E acked \in BOOLEAN : Commit(s, acked)
      PROVE  UNCHANGED alerts
    BY <1>2 DEF Scan, Begin, Read, Upsert, Abort
<1>3. ASSUME NEW w \in Writers, Store(w) PROVE UNCHANGED alerts
    BY <1>3 DEF Store, StoreBegin, StoreUpsert, StoreCommit
<1>4. ASSUME Retain PROVE UNCHANGED alerts
    BY <1>4 DEF Retain, PurgeChildren, PurgeTraces, PurgeAbort
<1>5. ASSUME UNCHANGED vars PROVE UNCHANGED alerts
    BY <1>5 DEF vars
<1>6. CASE \E s \in Scanners, acked \in BOOLEAN : Commit(s, acked)
    BY <1>6, CommitKeeps
<1>7. CASE \E k \in DOMAIN alerts, resolve \in BOOLEAN : Acknowledge(k, resolve)
    BY <1>7, AcknowledgeKeeps
<1> QED
    BY <1>1, <1>2, <1>3, <1>4, <1>5, <1>6, <1>7 DEF Next

\* What an operator has acknowledged or resolved stays so, however often the same
\* finding is scanned again and by however many replicas (alerts.py:69-70).
THEOREM AcknowledgementStays == Spec => AcknowledgedStays
<1>1. Init => AlertInv
    BY DEF Init, AlertInv
<1>2. AlertInv /\ [Next]_vars => AlertInv'
    BY NextKeeps
<1>3. AlertInv /\ [Next]_vars =>
        [\A k \in DOMAIN alerts :
            /\ alerts[k].acknowledged => alerts'[k].acknowledged
            /\ alerts[k].status = "resolved" => alerts'[k].status = "resolved"]_alerts
    BY NextKeeps DEF Kept
<1> QED
    BY <1>1, <1>2, <1>3, PTL DEF Spec, AcknowledgedStays

-------------------------------------------------------------------------------
(* What is serious                                                         *)

\* A trace whose findings the transaction of s has inserted.
Inserted(s, t) == t \notin todo[s] \/ (pc[s] = "upsert" /\ t = NextTrace(s))

\* Once a transaction has inserted the findings of a trace, each is in the table, by its
\* transaction or by another, unless the trace was purged meanwhile.
ReadOf(s) ==
    pc[s] # "idle" =>
        \A t \in Work(s) : Inserted(s, t) =>
            \/ t \in swept /\ t \in raced
            \/ \A f \in FindingsOf(batch[s], t) :
                  \E x \in findings \cup own[s].stored : KeyOf(x) = KeyOf(f)

\* What a transaction raises is at the floor or above, and it raises something for each
\* trace it has locked and has a serious finding of.
RaiseOf(s) ==
    /\ \A k \in DOMAIN own[s].alerts : own[s].alerts[k] \in Nat /\ own[s].alerts[k] >= Floor
    /\ \A x \in own[s].stored :
          /\ x \in FindingsOf(batch[s], x.trace)
          /\ x.severity >= Floor /\ x.trace \notin todo[s] =>
                \E k \in DOMAIN own[s].alerts : k[1] = x.trace

AckInv ==
    \A e \in settled : Log[e].broken \/ Log[e].trace \in swept
                       \/ \A f \in StoredOf(e) : \E x \in findings : KeyOf(x) = KeyOf(f)

RaisedInv ==
    \A x \in findings : x.severity >= Floor =>
        \E k \in DOMAIN alerts : k[1] = x.trace /\ alerts[k].severity >= Floor

SeriousInv ==
    /\ \A s \in Scanners : ReadOf(s) /\ RaiseOf(s)
    /\ \A x \in purge.doomed : x.trace \in purge.ids
    /\ AckInv /\ RaisedInv /\ settled \subseteq Ids

\* Of the findings of a batch with one key the first is stored.
LEMMA FirstIsStored ==
    ASSUME NEW b \in SUBSET Ids, NEW t, NEW e \in OfTrace(b, t), NEW f \in StoredOf(e)
    PROVE  \E g \in FindingsOf(b, t) : KeyOf(g) = KeyOf(f)
<1> DEFINE D == {d \in OfTrace(b, t) : \E g \in StoredOf(d) : KeyOf(g) = KeyOf(f)}
<1>1. OfTrace(b, t) \subseteq Nat
    <2>1. Len(Log) \in Nat
        BY GuardrailAssumption
    <2>2. Ids \subseteq Nat
        BY <2>1 DEF Ids
    <2> QED
        BY <2>2 DEF OfTrace, Scannable
<1>2. D \in SUBSET Nat /\ e \in D
    BY <1>1
<1>3. PICK d \in D : \A c \in D : d <= c
    <2> HIDE DEF D
    <2> QED
        BY <1>2, LeastElement
<1>4. PICK g \in StoredOf(d) : KeyOf(g) = KeyOf(f)
    BY <1>3
<1>5. d \in OfTrace(b, t) /\ d \in Nat
    BY <1>1, <1>3
<1>6. ASSUME NEW c \in OfTrace(b, t), c < d, NEW h \in StoredOf(c)
      PROVE  KeyOf(h) # KeyOf(g)
    <2>1. c \in Nat /\ c \notin D
        BY <1>1, <1>3, <1>5, <1>6
    <2> QED
        BY <1>4, <1>6, <2>1
<1>7. g \in FindingsOf(b, t)
    BY <1>4, <1>5, <1>6 DEF FindingsOf
<1> QED
    BY <1>4, <1>7

LEMMA InitSerious == Init => SeriousInv
<1> SUFFICES ASSUME Init PROVE SeriousInv
    OBVIOUS
<1>1. \A s \in Scanners : pc[s] = "idle" /\ own[s] = NothingOwn
    BY DEF Init, Procs
<1>2. \A s \in Scanners : ReadOf(s) /\ RaiseOf(s)
    <2> SUFFICES ASSUME NEW s \in Scanners PROVE ReadOf(s) /\ RaiseOf(s)
        OBVIOUS
    <2>1. own[s].stored = {} /\ own[s].alerts = <<>> /\ DOMAIN <<>> = {}
        BY <1>1 DEF NothingOwn
    <2> QED
        BY <1>1, <2>1 DEF ReadOf, RaiseOf
<1>3. findings = {} /\ settled = {} /\ purge.doomed = {}
    BY DEF Init, NoPurge
<1> QED
    BY <1>2, <1>3 DEF SeriousInv, AckInv, RaisedInv

\* A step that leaves a scanner where it is keeps what is said of it, if what goes from
\* the findings is of traces that are purged, and raced when the scanner is on them.
LEMMA ReadOfOthers ==
    ASSUME NEW s \in Scanners, ReadOf(s), RaiseOf(s),
           pc'[s] = pc[s], batch'[s] = batch[s], todo'[s] = todo[s], own'[s] = own[s],
           swept \subseteq swept', raced \subseteq raced',
           \A x \in findings \ findings' :
              /\ x.trace \in swept'
              /\ pc[s] # "idle" /\ x.trace \in Work(s) => x.trace \in raced'
    PROVE  ReadOf(s)' /\ RaiseOf(s)'
<1>1. RaiseOf(s)'
    BY DEF RaiseOf
<1>2. Work(s)' = Work(s) /\ (NextTrace(s))' = NextTrace(s)
    BY DEF Work, NextTrace
<1>3. ASSUME pc[s] # "idle", NEW t \in Work(s), Inserted(s, t),
             ~(t \in swept' /\ t \in raced'), NEW f \in FindingsOf(batch[s], t)
      PROVE  \E x \in findings' \cup own'[s].stored : KeyOf(x) = KeyOf(f)
    <2>1. PICK x \in findings \cup own[s].stored : KeyOf(x) = KeyOf(f)
        BY <1>3 DEF ReadOf
    <2>2. x.trace = t
        BY <1>3, <2>1, StoredOfTrace, KeyNamesTrace
    <2> QED
        BY <1>3, <2>1, <2>2
<1>4. \A t \in Work(s) : Inserted(s, t)' <=> Inserted(s, t)
    BY <1>2 DEF Inserted
<1>5. ReadOf(s)'
    BY <1>2, <1>3, <1>4 DEF ReadOf
<1> QED
    BY <1>1, <1>5

LEMMA AlertsAreSerious ==
    ASSUME NEW b \in SUBSET Ids, NEW t
    PROVE  /\ \A k \in DOMAIN AlertsFor(b, t) :
                 /\ k[1] = t /\ AlertsFor(b, t)[k] \in Nat /\ AlertsFor(b, t)[k] >= Floor
           /\ \A x \in FindingsOf(b, t) : x.severity >= Floor => DOMAIN AlertsFor(b, t) # {}
<1> DEFINE serious == SeriousOf(b, t)
           worst == CHOOSE f \in serious : \A g \in serious : Graver(f, g)
<1>1. OfTrace(b, t) \subseteq Ids
    BY DEF OfTrace, Scannable
<1>2. serious \in SUBSET Finding
    BY <1>1, EventFindings DEF SeriousOf
<1>3. AlertsFor(b, t) = IF serious = {} THEN <<>>
                        ELSE [k \in {AlertKey(t, worst)} |-> worst.severity]
    BY DEF AlertsFor
<1>4. serious # {} => worst \in serious
    <2> HIDE DEF serious
    <2> QED
        BY <1>2, WorstFinding
<1>5. serious # {} => worst.severity \in Nat /\ worst.severity >= Floor
    BY <1>2, <1>4, FindingFields DEF SeriousOf
<1>6. AlertKey(t, worst)[1] = t
    BY DEF AlertKey
<1>7. DOMAIN <<>> = {}
    OBVIOUS
<1> HIDE DEF serious, worst
<1>8. CASE serious = {}
    <2>1. ASSUME NEW x \in FindingsOf(b, t), x.severity >= Floor
          PROVE  FALSE
        <3>1. PICK e \in OfTrace(b, t) : x \in StoredOf(e)
            BY <2>1 DEF FindingsOf
        <3>2. PICK f \in ScanEvent(Log[e]) : x = Stored(e, f)
            BY <3>1 DEF StoredOf
        <3>3. x.severity = f.severity
            BY <3>2 DEF Stored
        <3>4. f \in serious
            BY <2>1, <3>1, <3>2, <3>3 DEF serious, SeriousOf
        <3> QED
            BY <1>8, <3>4
    <2> QED
        BY <1>3, <1>7, <1>8, <2>1
<1>9. CASE serious # {}
    <2>1. AlertsFor(b, t) = [k \in {AlertKey(t, worst)} |-> worst.severity]
        BY <1>3, <1>9
    <2> QED
        BY <1>5, <1>6, <1>9, <2>1
<1> QED
    BY <1>8, <1>9

\* A step of another process, or of the operator.
LEMMA SeriousElsewhere ==
    ASSUME SeriousInv, UNCHANGED <<findings, purge, settled, swept>>, raced \subseteq raced', NEW p,
           \A s \in Scanners \ {p} : /\ pc'[s] = pc[s] /\ batch'[s] = batch[s]
                                     /\ todo'[s] = todo[s] /\ own'[s] = own[s],
           p \in Scanners => ReadOf(p)' /\ RaiseOf(p)',
           DOMAIN alerts' = DOMAIN alerts,
           \A k \in DOMAIN alerts : alerts'[k].severity = alerts[k].severity
    PROVE  SeriousInv'
<1>1. ASSUME NEW s \in Scanners, s # p PROVE ReadOf(s)' /\ RaiseOf(s)'
    BY <1>1, ReadOfOthers DEF SeriousInv
<1>2. AckInv'
    BY DEF SeriousInv, AckInv
<1>3. RaisedInv'
    BY DEF SeriousInv, RaisedInv
<1> QED
    BY <1>1, <1>2, <1>3 DEF SeriousInv

\* A scanner that is idle, or has only begun, has inserted nothing.
LEMMA NothingInserted ==
    ASSUME NEW s \in Scanners, own'[s] = NothingOwn,
           pc'[s] = "idle" \/ (pc'[s] = "read" /\ todo'[s] = Work(s)')
    PROVE  ReadOf(s)' /\ RaiseOf(s)'
<1>1. own'[s].stored = {} /\ own'[s].alerts = <<>> /\ DOMAIN <<>> = {}
    BY DEF NothingOwn
<1> QED
    BY <1>1 DEF ReadOf, RaiseOf, Inserted

LEMMA BeginSerious ==
    ASSUME LockInv, SeriousInv, NEW s \in Scanners, NEW b \in SUBSET Ids, Begin(s, b)
    PROVE  SeriousInv'
<1> s \in Procs
    BY DEF Procs
<1>1. pc[s] = "idle" /\ own[s] = NothingOwn /\ UNCHANGED <<findings, alerts, own, purge, swept, raced>>
    BY DEF Begin, Hand, LockInv, KeyInv
<1>2. CASE Scannable(b) = {}
    <2>1. settled' = settled \cup b /\ UNCHANGED <<pc, batch, todo>>
        BY <1>2 DEF Begin
    <2>2. \A e \in b : Log[e].broken
        BY <1>2 DEF Scannable
    <2>3. AckInv'
        BY <1>1, <2>1, <2>2 DEF SeriousInv, AckInv
    <2>4. RaisedInv'
        BY <1>1 DEF SeriousInv, RaisedInv
    <2>5. ASSUME NEW q \in Scanners PROVE ReadOf(q)' /\ RaiseOf(q)'
        BY <1>1, <2>1, ReadOfOthers DEF SeriousInv
    <2> QED
        BY <1>1, <2>1, <2>3, <2>4, <2>5 DEF SeriousInv
<1>3. CASE Scannable(b) # {}
    <2>1. /\ pc' = [pc EXCEPT ![s] = "read"] /\ batch' = [batch EXCEPT ![s] = b]
          /\ todo' = [todo EXCEPT ![s] = TracesOf(Scannable(b))] /\ settled' = settled
        BY <1>3 DEF Begin
    <2>2. pc'[s] = "read" /\ todo'[s] = Work(s)' /\ own'[s] = NothingOwn
        BY <1>1, <2>1 DEF LockInv, TypeInv, Work
    <2>3. ReadOf(s)' /\ RaiseOf(s)'
        BY <2>2, NothingInserted
    <2>4. \A q \in Scanners \ {s} : /\ pc'[q] = pc[q] /\ batch'[q] = batch[q]
                                    /\ todo'[q] = todo[q] /\ own'[q] = own[q]
        BY <1>1, <2>1 DEF LockInv, TypeInv, Procs
    <2> QED
        BY <1>1, <2>1, <2>3, <2>4, SeriousElsewhere
<1> QED
    BY <1>2, <1>3

LEMMA ReadSerious ==
    ASSUME LockInv, SeriousInv, NEW s \in Scanners, Read(s)
    PROVE  SeriousInv'
<1> DEFINE t == NextTrace(s)
           F == FindingsOf(batch[s], t)
           new == NewOf(F)
<1> s \in Procs
    BY DEF Procs
<1>1. own' = [own EXCEPT ![s].stored = @ \cup new]
    BY DEF Read
<1>2. /\ own'[s].stored = own[s].stored \cup new /\ own'[s].alerts = own[s].alerts
      /\ \A q \in Scanners \ {s} : own'[q] = own[q]
    <2> HIDE DEF new
    <2> QED
        BY <1>1, StoredReplaced, Zenon DEF LockInv
<1>3. /\ pc[s] = "read" /\ pc' = [pc EXCEPT ![s] = "upsert"]
      /\ UNCHANGED <<findings, alerts, batch, todo, purge, settled, swept, raced>>
    BY DEF Read
<1>4. pc'[s] = "upsert" /\ Work(s)' = Work(s) /\ NextTrace(s)' = t
    BY <1>3 DEF LockInv, TypeInv, Work, NextTrace
<1>5. \A f \in F : f \in new \/ \E x \in findings : KeyOf(x) = KeyOf(f)
    BY DEF NewOf
<1>6. t \in todo[s]
    <2>1. todo[s] \in SUBSET Traces /\ todo[s] # {}
        BY <1>3 DEF LockInv, TypeInv, OrderInv
    <2> QED
        BY <2>1, NextIsLowest
<1>7. \A x \in new : x \in F /\ x.trace = t
    BY StoredOfTrace DEF NewOf
<1>8. RaiseOf(s)'
    <2>1. \A x \in own[s].stored :
              /\ x \in FindingsOf(batch[s], x.trace)
              /\ x.severity >= Floor /\ x.trace \notin todo[s] =>
                    \E k \in DOMAIN own[s].alerts : k[1] = x.trace
        BY DEF SeriousInv, RaiseOf
    <2>2. \A x \in new : x \in FindingsOf(batch[s], x.trace) /\ x.trace \in todo[s]
        BY <1>6, <1>7
    <2>3. \A k \in DOMAIN own[s].alerts : own[s].alerts[k] \in Nat /\ own[s].alerts[k] >= Floor
        BY DEF SeriousInv, RaiseOf
    <2> HIDE DEF new, F
    <2> QED
        BY <1>2, <1>3, <2>1, <2>2, <2>3 DEF RaiseOf
<1>9. ReadOf(s)'
    <2> SUFFICES ASSUME NEW u \in Work(s), u \notin todo[s] \/ u = t,
                        ~(u \in swept' /\ u \in raced'),
                        NEW f \in FindingsOf(batch[s], u)
                 PROVE  \E x \in findings \cup own'[s].stored : KeyOf(x) = KeyOf(f)
        BY <1>3, <1>4 DEF ReadOf, Inserted
    <2>1. CASE u = t
        <3>1. f \in F
            BY <2>1
        <3> HIDE DEF F, new, t
        <3> QED
            BY <1>2, <1>5, <3>1
    <2>2. CASE u # t
        <3>1. \E x \in findings \cup own[s].stored : KeyOf(x) = KeyOf(f)
            BY <1>3, <2>2 DEF SeriousInv, ReadOf, Inserted
        <3> HIDE DEF F, new, t
        <3> QED
            BY <1>2, <3>1
    <2> QED
        BY <2>1, <2>2
<1>10. \A q \in Scanners \ {s} : /\ pc'[q] = pc[q] /\ batch'[q] = batch[q]
                                 /\ todo'[q] = todo[q] /\ own'[q] = own[q]
    BY <1>2, <1>3 DEF LockInv, TypeInv, Procs
<1> QED
    BY <1>3, <1>8, <1>9, <1>10, SeriousElsewhere

LEMMA UpsertSerious ==
    ASSUME LockInv, SeriousInv, NEW s \in Scanners, Upsert(s)
    PROVE  SeriousInv'
<1> DEFINE t == NextTrace(s)
           raise == AlertsFor(batch[s], t)
           row == [u \in {t} |-> MergedRow(seen[s], Combined(batch[s], t))]
<1> s \in Procs /\ s \notin Writers
    BY GuardrailAssumption DEF Procs
<1>1. own' = [own EXCEPT ![s].rows = Over(row, @), ![s].alerts = Over(raise, @)]
    BY DEF Upsert
<1>2. /\ own'[s].stored = own[s].stored /\ own'[s].alerts = Over(raise, own[s].alerts)
      /\ \A q \in Scanners \ {s} : own'[q] = own[q]
    <2> HIDE DEF raise, row
    <2>1. OwnInv
        BY DEF LockInv
    <2> QED
        BY <1>1, <2>1, RowsReplaced, ZenonT(60)
<1>3. /\ pc[s] = "upsert" /\ batch' = batch
      /\ todo' = [todo EXCEPT ![s] = @ \ {NextTrace(s)}]
      /\ pc' = [pc EXCEPT ![s] = IF todo[s] = {NextTrace(s)} THEN "commit" ELSE "read"]
      /\ UNCHANGED <<findings, alerts, purge, settled, swept>> /\ raced \subseteq raced'
    BY DEF Upsert
<1>4. /\ todo'[s] = todo[s] \ {t} /\ Work(s)' = Work(s) /\ pc'[s] \in {"commit", "read"}
      /\ \A q \in Procs \ {s} : pc'[q] = pc[q] /\ todo'[q] = todo[q]
    <2>1. pc'[s] \in {"commit", "read"}
        BY <1>3 DEF LockInv, TypeInv
    <2> QED
        BY <1>3, <2>1, LockNext
<1>5. /\ \A k \in DOMAIN raise : k[1] = t /\ raise[k] \in Nat /\ raise[k] >= Floor
      /\ \A x \in FindingsOf(batch[s], t) : x.severity >= Floor => DOMAIN raise # {}
    BY AlertsAreSerious DEF LockInv, TypeInv
<1>6. /\ \A k \in DOMAIN own[s].alerts : own[s].alerts[k] \in Nat /\ own[s].alerts[k] >= Floor
      /\ \A x \in own[s].stored :
            /\ x \in FindingsOf(batch[s], x.trace)
            /\ x.severity >= Floor /\ x.trace \notin todo[s] =>
                  \E k \in DOMAIN own[s].alerts : k[1] = x.trace
    BY DEF SeriousInv, RaiseOf
<1>7. /\ DOMAIN own'[s].alerts = DOMAIN raise \cup DOMAIN own[s].alerts
      /\ \A k \in DOMAIN own'[s].alerts :
            own'[s].alerts[k] = IF k \in DOMAIN raise THEN raise[k] ELSE own[s].alerts[k]
    <2> HIDE DEF raise
    <2> QED
        BY <1>2 DEF Over
<1>8. RaiseOf(s)'
    <2>1. ASSUME NEW x \in own[s].stored, x.severity >= Floor, x.trace \notin todo[s] \ {t}
          PROVE  \E k \in DOMAIN own'[s].alerts : k[1] = x.trace
        <3>1. CASE x.trace = t
            <4>1. DOMAIN raise # {}
                BY <1>5, <1>6, <2>1, <3>1
            <4> HIDE DEF raise
            <4> QED
                BY <1>5, <1>7, <3>1, <4>1
        <3>2. CASE x.trace # t
            <4>1. x.trace \notin todo[s]
                BY <2>1, <3>2
            <4> QED
                BY <1>6, <1>7, <2>1, <4>1
        <3> QED
            BY <3>1, <3>2
    <2> HIDE DEF raise, t
    <2>2. \A k \in DOMAIN own'[s].alerts :
              own'[s].alerts[k] \in Nat /\ own'[s].alerts[k] >= Floor
        BY <1>5, <1>6, <1>7
    <2> QED
        BY <1>2, <1>3, <1>4, <1>6, <2>1, <2>2 DEF RaiseOf
<1>9. ReadOf(s)'
    <2> SUFFICES ASSUME NEW u \in Work(s), u \notin todo[s] \/ u = t,
                        ~(u \in swept' /\ u \in raced'),
                        NEW f \in FindingsOf(batch[s], u)
                 PROVE  \E x \in findings \cup own[s].stored : KeyOf(x) = KeyOf(f)
        BY <1>2, <1>3, <1>4 DEF ReadOf, Inserted
    <2> QED
        BY <1>3 DEF SeriousInv, ReadOf, Inserted
<1>10. \A q \in Scanners \ {s} : /\ pc'[q] = pc[q] /\ batch'[q] = batch[q]
                                 /\ todo'[q] = todo[q] /\ own'[q] = own[q]
    BY <1>2, <1>3, <1>4 DEF Procs
<1> QED
    BY <1>3, <1>8, <1>9, <1>10, SeriousElsewhere

LEMMA CommitSerious ==
    ASSUME LockInv, AlertInv, SeriousInv, NEW s \in Scanners, NEW acked \in BOOLEAN,
           Commit(s, acked)
    PROVE  SeriousInv'
<1> s \in Procs
    BY DEF Procs
<1>1. pc[s] = "commit" /\ todo[s] = {} /\ batch[s] \in SUBSET Ids
    BY DEF Commit, LockInv, OrderInv, TypeInv
<1>2. /\ findings' = findings \cup own[s].stored
      /\ settled' = IF acked THEN settled \cup batch[s] ELSE settled
      /\ UNCHANGED <<purge, swept, raced>>
    BY DEF Commit
<1>3. AckInv'
    <2>1. ASSUME NEW e \in batch[s], ~Log[e].broken, Log[e].trace \notin swept,
                 NEW f \in StoredOf(e)
          PROVE  \E x \in findings' : KeyOf(x) = KeyOf(f)
        <3> DEFINE t == Log[e].trace
        <3>1. e \in OfTrace(batch[s], t) /\ t \in Work(s)
            BY <2>1 DEF OfTrace, Scannable, Work, TracesOf
        <3>2. PICK g \in FindingsOf(batch[s], t) : KeyOf(g) = KeyOf(f)
            BY <1>1, <3>1, FirstIsStored
        <3>3. \E x \in findings \cup own[s].stored : KeyOf(x) = KeyOf(g)
            BY <1>1, <2>1, <3>1 DEF SeriousInv, ReadOf, Inserted
        <3> QED
            BY <1>2, <3>2, <3>3
    <2> QED
        BY <1>2, <2>1 DEF SeriousInv, AckInv
<1>4. /\ DOMAIN alerts' = DOMAIN alerts \cup DOMAIN own[s].alerts
      /\ \A k \in DOMAIN alerts' :
            alerts'[k].severity = IF k \in DOMAIN own[s].alerts THEN own[s].alerts[k]
                                  ELSE alerts[k].severity
    BY CommitKeeps
<1>5. \A k \in DOMAIN own[s].alerts : own[s].alerts[k] >= Floor
    BY DEF SeriousInv, RaiseOf
<1>6. RaisedInv'
    <2> SUFFICES ASSUME NEW x \in findings', x.severity >= Floor
                 PROVE  \E k \in DOMAIN alerts' : k[1] = x.trace /\ alerts'[k].severity >= Floor
        BY DEF RaisedInv
    <2>1. CASE x \in findings
        BY <1>4, <1>5, <2>1 DEF SeriousInv, RaisedInv
    <2>2. CASE x \in own[s].stored
        <3>1. PICK k \in DOMAIN own[s].alerts : k[1] = x.trace
            BY <1>1, <2>2 DEF SeriousInv, RaiseOf
        <3> QED
            BY <1>4, <1>5, <3>1
    <2> QED
        BY <1>2, <2>1, <2>2
<1>7. /\ own'[s] = NothingOwn /\ pc'[s] = "idle"
      /\ \A q \in Scanners \ {s} : /\ pc'[q] = pc[q] /\ batch'[q] = batch[q]
                                   /\ todo'[q] = todo[q] /\ own'[q] = own[q]
    BY DEF Commit, Leave, LockInv, TypeInv, OwnInv, Procs
<1>8. ASSUME NEW q \in Scanners PROVE ReadOf(q)' /\ RaiseOf(q)'
    <2>1. CASE q = s
        BY <1>7, <2>1, NothingInserted
    <2>2. CASE q # s
        BY <1>2, <1>7, <2>2, ReadOfOthers DEF SeriousInv
    <2> QED
        BY <2>1, <2>2
<1> QED
    BY <1>1, <1>2, <1>3, <1>6, <1>8 DEF SeriousInv

LEMMA PurgeSerious ==
    ASSUME LockInv, SeriousInv, Retain
    PROVE  SeriousInv'
<1>1. UNCHANGED lockVars /\ UNCHANGED <<alerts, settled>> /\ findings' \subseteq findings
                         /\ raced \subseteq raced'
    BY DEF Retain, PurgeChildren, PurgeTraces, PurgeAbort, lockVars
<1>2. /\ swept \subseteq swept'
      /\ \A x \in findings \ findings' :
            /\ x.trace \in swept'
            /\ \A s \in Scanners : pc[s] # "idle" /\ x.trace \in Work(s) => x.trace \in raced'
      /\ \A x \in purge'.doomed : x.trace \in purge'.ids
    <2>1. ASSUME NEW ids, PurgeChildren(ids)
          PROVE  /\ findings' = findings /\ swept' = swept
                 /\ \A x \in purge'.doomed : x.trace \in purge'.ids
        BY <2>1 DEF PurgeChildren
    <2>2. CASE PurgeTraces
        <3>1. \A x \in findings \ findings' : x.trace \in purge.ids /\ x.trace \in swept'
            <4>1. findings' = findings \ purge.doomed /\ swept' = swept \cup purge.ids
                BY <2>2 DEF PurgeTraces, Doomed
            <4>2. \A x \in purge.doomed : x.trace \in purge.ids
                BY DEF SeriousInv
            <4> QED
                BY <4>1, <4>2
        <3>2. \A s \in Scanners : \A t \in Work(s) : t \in TracesOf(batch[s])
            BY DEF Work, TracesOf, Scannable
        <3>3. \A t \in purge.ids, s \in Scanners :
                  pc[s] # "idle" /\ t \in Work(s) => t \in raced'
            BY <2>2, <3>2 DEF PurgeTraces
        <3>4. swept \subseteq swept' /\ purge'.doomed = {}
            BY <2>2 DEF PurgeTraces, NoPurge
        <3> QED
            BY <3>1, <3>3, <3>4
    <2>3. CASE PurgeAbort
        BY <2>3 DEF PurgeAbort, NoPurge
    <2> QED
        BY <2>1, <2>2, <2>3 DEF Retain
<1>3. ASSUME NEW q \in Scanners PROVE ReadOf(q)' /\ RaiseOf(q)'
    BY <1>1, <1>2, ReadOfOthers DEF SeriousInv, lockVars
<1>4. RaisedInv'
    BY <1>1 DEF SeriousInv, RaisedInv
<1>5. AckInv'
    <2> SUFFICES ASSUME NEW e \in settled, ~Log[e].broken, Log[e].trace \notin swept',
                        NEW f \in StoredOf(e)
                 PROVE  \E x \in findings' : KeyOf(x) = KeyOf(f)
        BY <1>1 DEF AckInv
    <2>1. PICK x \in findings : KeyOf(x) = KeyOf(f)
        BY <1>2 DEF SeriousInv, AckInv
    <2>2. x.trace = f.trace /\ f.trace = Log[e].trace
        BY <2>1, KeyNamesTrace DEF StoredOf, Stored
    <2> QED
        BY <1>2, <2>1, <2>2
<1> QED
    BY <1>1, <1>2, <1>3, <1>4, <1>5 DEF SeriousInv

LEMMA NextSerious == LockInv /\ AlertInv /\ SeriousInv /\ [Next]_vars => SeriousInv'
<1> SUFFICES ASSUME LockInv, AlertInv, SeriousInv, [Next]_vars PROVE SeriousInv'
    OBVIOUS
<1>1. ASSUME NEW s \in Scanners, Abort(s) PROVE SeriousInv'
    <2>1. /\ own'[s] = NothingOwn /\ pc'[s] = "idle"
          /\ \A q \in Scanners \ {s} : /\ pc'[q] = pc[q] /\ batch'[q] = batch[q]
                                       /\ todo'[q] = todo[q] /\ own'[q] = own[q]
        BY <1>1 DEF Abort, Leave, LockInv, TypeInv, OwnInv, Procs
    <2>2. UNCHANGED <<findings, alerts, purge, settled, swept, raced>>
        BY <1>1 DEF Abort
    <2> QED
        BY <2>1, <2>2, NothingInserted, SeriousElsewhere
<1>2. ASSUME NEW s \in Scanners, Scan(s) PROVE SeriousInv'
    BY <1>1, <1>2, BeginSerious, ReadSerious, UpsertSerious, CommitSerious DEF Scan
<1>3. ASSUME NEW w \in Writers, Store(w) PROVE SeriousInv'
    <2>1. w \notin Scanners
        BY GuardrailAssumption
    <2>2. \A q \in Scanners : /\ pc'[q] = pc[q] /\ batch'[q] = batch[q]
                              /\ todo'[q] = todo[q] /\ own'[q] = own[q]
        BY <1>3, <2>1 DEF Store, StoreBegin, StoreUpsert, StoreCommit, Leave,
                          LockInv, TypeInv, Procs
    <2>3. UNCHANGED <<findings, alerts, purge, settled, swept, raced>>
        BY <1>3 DEF Store, StoreBegin, StoreUpsert, StoreCommit
    <2> QED
        BY <2>1, <2>2, <2>3, SeriousElsewhere
<1>4. CASE Retain
    BY <1>4, PurgeSerious
<1>5. ASSUME UNCHANGED lockVars, UNCHANGED <<findings, purge, settled, swept, raced>>,
             DOMAIN alerts' = DOMAIN alerts,
             \A k \in DOMAIN alerts : alerts'[k].severity = alerts[k].severity
      PROVE  SeriousInv'
    <2>1. ASSUME NEW q \in Scanners PROVE ReadOf(q)' /\ RaiseOf(q)'
        BY <1>5, ReadOfOthers DEF SeriousInv, lockVars
    <2>2. AckInv' /\ RaisedInv'
        BY <1>5 DEF SeriousInv, AckInv, RaisedInv
    <2> QED
        BY <1>5, <2>1, <2>2 DEF SeriousInv
<1>6. ASSUME NEW k, NEW resolve, Acknowledge(k, resolve) PROVE SeriousInv'
    <2>1. UNCHANGED lockVars /\ UNCHANGED <<findings, purge, settled, swept, raced>>
        BY <1>6 DEF Acknowledge, lockVars
    <2> QED
        BY <1>5, <1>6, <2>1, AcknowledgeKeeps
<1>7. CASE UNCHANGED vars
    BY <1>5, <1>7 DEF vars, lockVars
<1> QED
    BY <1>2, <1>3, <1>4, <1>6, <1>7 DEF Next

\* An event that is acked has its findings in the table, and a trace with a finding at the
\* floor has an alert at the floor or above that was committed with it, however batches
\* are split, redelivered, rolled back and purged (guardrail_scanner.py:108-168).
THEOREM SeriousIsAlerted == Spec => []SeriousAlerted
<1>1. Init => LockInv /\ AlertInv /\ SeriousInv
    BY InitLocks, InitSerious DEF Init, AlertInv
<1>2. LockInv /\ AlertInv /\ SeriousInv /\ [Next]_vars => LockInv' /\ AlertInv' /\ SeriousInv'
    BY NextLocks, NextKeeps, NextSerious
<1>3. SeriousInv => SeriousAlerted
    BY DEF SeriousInv, AckInv, RaisedInv, SeriousAlerted
<1> QED
    BY <1>1, <1>2, <1>3, PTL DEF Spec

-------------------------------------------------------------------------------
(* What a trace's flags cover                                              *)

\* Flags that cover some findings: as many, as grave, and of the same kinds of data.
Covers(g, F) ==
    /\ IsFiniteSet(F) /\ \A x \in F : x.severity \in Severity
    /\ g.findings \in Nat /\ Cardinality(F) <= g.findings /\ (F = {} => g.findings = 0)
    /\ g.severity \in Nat /\ \A x \in F : x.severity <= g.severity
    /\ g.risk \in Nat /\ \A x \in F : SeverityBase[x.severity + 1] <= g.risk
    /\ g.piiTypes = {x.type : x \in OfDetector(F, "pii")}

RowCovers(row, F) == Covers(row.flags, F) /\ (row.status = "flagged" <=> row.flags.findings > 0)

\* No two transactions have locked one trace.
MutexInv == \A p, q \in Procs : p # q => Locked(p) \cap Locked(q) = {}

OwnOf(s, t) == {x \in own[s].stored : x.trace = t}

\* A row that is committed covers what is stored of its trace; a row that is not covers
\* what its transaction has inserted besides.
RowOf(s) ==
    \A t \in DOMAIN own[s].rows :
        /\ t \in Locked(s)
        /\ t \notin raced => RowCovers(own[s].rows[t], OfRow(t) \cup OwnOf(s, t))

CoverInv ==
    /\ \A t \in DOMAIN rows \ raced : RowCovers(rows[t], OfRow(t))
    /\ \A s \in Scanners : RowOf(s)

\* SeverityBase, read: it grows with the severity.
LEMMA Bases ==
    /\ \A s \in Severity : SeverityBase[s + 1] \in 0 .. 100
    /\ \A s, t \in Severity : s <= t => SeverityBase[s + 1] <= SeverityBase[t + 1]
<1>1. \A s \in Severity : s = 0 \/ s = 1 \/ s = 2 \/ s = 3 \/ s = 4
    BY DEF Severity
<1>2. /\ SeverityBase[0 + 1] = 0 /\ SeverityBase[1 + 1] = 15 /\ SeverityBase[2 + 1] = 35
      /\ SeverityBase[3 + 1] = 70 /\ SeverityBase[4 + 1] = 95
    BY DEF SeverityBase
<1> QED
    BY <1>1, <1>2

\* The highest of some severities.
LEMMA WorstOf ==
    ASSUME NEW S \in SUBSET Severity
    PROVE  /\ Worst(S) \in Severity /\ Worst(S) \in S \cup {0} /\ \A t \in S : t <= Worst(S)
           /\ S # {} => Worst(S) \in S
<1> DEFINE Below == {4 - s : s \in S \cup {0}}
<1>1. S \cup {0} \subseteq 0 .. 4
    BY DEF Severity
<1>2. Below \in SUBSET Nat /\ Below # {}
    BY <1>1
<1>3. PICK b \in Below : \A c \in Below : b <= c
    <2> HIDE DEF Below
    <2> QED
        BY <1>2, LeastElement
<1>4. PICK s \in S \cup {0} : b = 4 - s
    BY <1>3
<1>5. \A t \in S : t <= s
    <2> SUFFICES ASSUME NEW t \in S PROVE t <= s
        OBVIOUS
    <2>1. 4 - t \in Below
        OBVIOUS
    <2>2. 4 - s <= 4 - t
        BY <1>3, <1>4, <2>1
    <2>3. \A x, y \in 0 .. 4 : 4 - x <= 4 - y => y <= x
        OBVIOUS
    <2>4. s \in 0 .. 4 /\ t \in 0 .. 4
        BY <1>1
    <2> QED
        BY <2>2, <2>3, <2>4
<1>6. Worst(S) \in S \cup {0} /\ \A t \in S : t <= Worst(S)
    BY <1>5 DEF Worst
<1>7. Worst(S) \in Severity
    BY <1>1, <1>6 DEF Severity
<1>8. ASSUME S # {} PROVE Worst(S) \in S
    <2>1. PICK t \in S : TRUE
        BY <1>8
    <2>2. CASE Worst(S) = 0
        <3>1. t = 0
            BY <1>1, <1>6, <2>1, <2>2
        <3> QED
            BY <2>1, <2>2, <3>1
    <2>3. CASE Worst(S) # 0
        BY <1>6, <2>3
    <2> QED
        BY <2>2, <2>3
<1> QED
    BY <1>6, <1>7, <1>8

\* The injection of the highest score: there is one.
LEMMA WorstInjectionOf ==
    ASSUME NEW F \in SUBSET Finding
    PROVE  WorstInjection(F) \in Finding \cup {None}
<1> SUFFICES ASSUME F # {}
             PROVE  \E f \in F : \A g \in F : g.score <= f.score
    BY DEF WorstInjection
<1> DEFINE Below == {100 - f.score : f \in F}
<1>1. \A f \in F : f.score \in 0 .. 100
    BY DEF Finding, Score
<1>2. Below \in SUBSET Nat /\ Below # {}
    BY <1>1
<1>3. PICK b \in Below : \A c \in Below : b <= c
    <2> HIDE DEF Below
    <2> QED
        BY <1>2, LeastElement
<1>4. PICK f \in F : b = 100 - f.score
    BY <1>3
<1>5. ASSUME NEW g \in F PROVE g.score <= f.score
    <2>1. 100 - g.score \in Below
        BY <1>5, Zenon
    <2>2. 100 - f.score <= 100 - g.score
        BY <1>3, <1>4, <2>1, Zenon
    <2>3. \A x, y \in 0 .. 100 : 100 - x <= 100 - y => y <= x
        OBVIOUS
    <2>4. f.score \in 0 .. 100 /\ g.score \in 0 .. 100
        BY <1>1, <1>4, <1>5, Zenon
    <2> QED
        BY <2>2, <2>3, <2>4, Zenon
<1> QED
    BY <1>5

\* What is made of each of finitely many things is finite, and no more.
LEMMA Images ==
    ASSUME NEW S, IsFiniteSet(S), NEW f, DOMAIN f = S, f = [x \in S |-> f[x]]
    PROVE  /\ IsFiniteSet({f[x] : x \in S})
           /\ Cardinality({f[x] : x \in S}) <= Cardinality(S)
<1>1. f \in Surjection(S, {f[x] : x \in S})
    BY DEF Surjection
<1> QED
    BY <1>1, FS_Surjection

LEMMA FlagFields ==
    \A g \in Flags : /\ g.findings \in Nat /\ g.risk \in 0 .. 100 /\ g.severity \in Severity
                     /\ g.piiCount \in Nat /\ g.piiTypes \in SUBSET Nat
                     /\ g.piiSeverity \in Severity /\ g.injection \in Finding \cup {None}
BY DEF Flags

\* The risk of some findings is that of the worst at least.
LEMMA RiskOf ==
    ASSUME NEW F \in SUBSET Finding, IsFiniteSet(F)
    PROVE  /\ Risk(F) \in 0 .. 100
           /\ \A x \in F : SeverityBase[x.severity + 1] <= Risk(F)
<1> DEFINE worst == Worst(Severities(F))
           base == SeverityBase[worst + 1]
           types == Cardinality(TypesOf(F))
           kind == [f \in F |-> <<f.detector, f.type>>]
<1>1. Severities(F) \in SUBSET Severity
    BY FindingFields DEF Severities
<1>2. worst \in Severity /\ \A x \in F : x.severity \in Severity /\ x.severity <= worst
    BY <1>1, WorstOf DEF Severities
<1>3. /\ base \in 0 .. 100
      /\ \A x \in F : SeverityBase[x.severity + 1] \in Nat /\ SeverityBase[x.severity + 1] <= base
    <2> HIDE DEF worst
    <2> QED
        BY <1>2, Bases
<1>4. types \in Nat /\ (F # {} => types >= 1)
    <2>1. TypesOf(F) = {kind[f] : f \in F}
        BY DEF TypesOf
    <2>2. DOMAIN kind = F /\ kind = [f \in F |-> kind[f]]
        OBVIOUS
    <2> HIDE DEF kind
    <2>3. IsFiniteSet(TypesOf(F)) /\ types \in Nat
        BY <2>1, <2>2, Images, FS_CardinalityType
    <2>4. F # {} => TypesOf(F) # {}
        BY <2>1
    <2> QED
        BY <2>3, <2>4, FS_EmptySet
<1> DEFINE sum == base + AdditionalTypeWeight * (types - 1)
<1>5. Risk(F) = IF F = {} THEN 0 ELSE IF sum > 100 THEN 100 ELSE sum
    BY DEF Risk
<1>6. F # {} => sum \in Nat /\ sum >= base
    <2> HIDE DEF base, types
    <2> QED
        BY <1>3, <1>4 DEF AdditionalTypeWeight
<1> HIDE DEF sum, base
<1> QED
    BY <1>3, <1>5, <1>6

\* The summary of an event covers its findings.
LEMMA SummaryCovers ==
    ASSUME NEW F \in SUBSET Finding, IsFiniteSet(F)
    PROVE  Summarize(F) \in Flags /\ Covers(Summarize(F), F)
<1> DEFINE pii == OfDetector(F, "pii")
           flags == Summarize(F)
<1>1. pii \in SUBSET F /\ IsFiniteSet(pii) /\ OfDetector(F, "injection") \in SUBSET Finding
    BY FS_Subset DEF OfDetector
<1>2. Cardinality(F) \in Nat /\ Cardinality(pii) \in Nat /\ (F = {} => Cardinality(F) = 0)
    BY <1>1, FS_CardinalityType, FS_EmptySet
<1>3. Severities(F) \in SUBSET Severity /\ Severities(pii) \in SUBSET Severity
    BY <1>1, FindingFields DEF Severities
<1>4. Worst(Severities(F)) \in Severity /\ Worst(Severities(pii)) \in Severity
      /\ \A x \in F : x.severity <= Worst(Severities(F))
    <2>1. \A x \in F : x.severity \in Severities(F)
        BY DEF Severities
    <2> QED
        BY <1>3, <2>1, WorstOf
<1>5. {f.type : f \in pii} \in SUBSET Nat
    BY <1>1, FindingFields
<1>6. /\ flags.findings = Cardinality(F) /\ flags.risk = Risk(F)
      /\ flags.severity = Worst(Severities(F)) /\ flags.piiTypes = {f.type : f \in pii}
    BY DEF Summarize
<1>7. flags \in Flags
    BY <1>1, <1>2, <1>4, <1>5, RiskOf, WorstInjectionOf DEF Summarize, Flags
<1>8. \A x \in F : x.severity \in Severity
    BY FindingFields
<1>9. Worst(Severities(F)) \in Nat /\ Risk(F) \in Nat
    BY <1>4, RiskOf DEF Severity
<1> HIDE DEF flags
<1> QED
    BY <1>2, <1>4, <1>6, <1>7, <1>8, <1>9, RiskOf DEF Covers, flags

\* So it does when they are stored.
LEMMA StoredCovers ==
    ASSUME NEW e \in Ids
    PROVE  /\ Summarize(ScanEvent(Log[e])) \in Flags
           /\ Covers(Summarize(ScanEvent(Log[e])), StoredOf(e))
<1> DEFINE F == ScanEvent(Log[e])
           stored == [f \in F |-> Stored(e, f)]
           flags == Summarize(F)
<1>1. F \in SUBSET Finding /\ IsFiniteSet(F)
    BY EventFindings
<1>2. flags \in Flags /\ Covers(flags, F)
    <2> HIDE DEF F
    <2> QED
        BY <1>1, SummaryCovers
<1>3. StoredOf(e) = {stored[f] : f \in F}
    BY DEF StoredOf
<1>4. \A f \in F : /\ stored[f].severity = f.severity /\ stored[f].type = f.type
                   /\ stored[f].detector = f.detector
    BY DEF Stored
<1>5. DOMAIN stored = F /\ stored = [f \in F |-> stored[f]]
    OBVIOUS
<1> HIDE DEF F, stored, flags
<1>6. IsFiniteSet(StoredOf(e)) /\ Cardinality(StoredOf(e)) <= Cardinality(F)
    BY <1>1, <1>3, <1>5, Images
<1>7. Cardinality(StoredOf(e)) \in Nat /\ Cardinality(F) \in Nat
    BY <1>1, <1>6, FS_CardinalityType
<1>8. flags.findings \in Nat /\ Cardinality(F) <= flags.findings
    BY <1>2 DEF Covers
<1>9. Cardinality(StoredOf(e)) <= flags.findings
    BY <1>6, <1>7, <1>8
<1>10. (StoredOf(e) = {}) <=> (F = {})
    BY <1>3
<1>11. \A x \in StoredOf(e) : /\ x.severity \in Severity /\ x.severity <= flags.severity
                              /\ SeverityBase[x.severity + 1] <= flags.risk
    BY <1>2, <1>3, <1>4 DEF Covers
<1>12. {x.type : x \in OfDetector(StoredOf(e), "pii")} = {f.type : f \in OfDetector(F, "pii")}
    BY <1>3, <1>4 DEF OfDetector
<1> QED
    BY <1>2, <1>6, <1>8, <1>9, <1>10, <1>11, <1>12 DEF Covers, flags, F

LEMMA NothingCovers == NoFlags \in Flags /\ Covers(NoFlags, {})
<1>1. NoFlags \in Flags
    BY DEF NoFlags, Flags, Severity
<1>2. Cardinality({}) = 0 /\ IsFiniteSet({})
    BY FS_EmptySet
<1> QED
    BY <1>1, <1>2 DEF NoFlags, Covers, OfDetector

\* Flags that are merged are flags, and cover what each of the two covers.
LEMMA MergedFlags ==
    ASSUME NEW old \in Flags, NEW new \in Flags
    PROVE  MergeFlags(old, new) \in Flags
<1>1. /\ old.findings + new.findings \in Nat /\ old.piiCount + new.piiCount \in Nat
      /\ Larger(old.risk, new.risk) \in 0 .. 100
      /\ Larger(old.severity, new.severity) \in Severity
      /\ Larger(old.piiSeverity, new.piiSeverity) \in Severity
      /\ old.piiTypes \cup new.piiTypes \in SUBSET Nat
    BY FlagFields DEF Larger
<1>2. MergedInjection(old.injection, new.injection) \in Finding \cup {None}
    BY FlagFields DEF MergedInjection
<1> QED
    BY <1>1, <1>2 DEF MergeFlags, Flags

LEMMA MergeCovers ==
    ASSUME NEW old, NEW new, NEW F, NEW G, Covers(old, F), Covers(new, G)
    PROVE  Covers(MergeFlags(old, new), F \cup G)
<1> DEFINE merged == MergeFlags(old, new)
<1>1. /\ merged.findings = old.findings + new.findings
      /\ merged.risk = Larger(old.risk, new.risk)
      /\ merged.severity = Larger(old.severity, new.severity)
      /\ merged.piiTypes = old.piiTypes \cup new.piiTypes
    BY DEF MergeFlags
<1> HIDE DEF merged
<1>2. /\ IsFiniteSet(F) /\ IsFiniteSet(G)
      /\ \A x \in F \cup G : x.severity \in Severity
      /\ old.findings \in Nat /\ new.findings \in Nat
      /\ old.severity \in Nat /\ new.severity \in Nat /\ old.risk \in Nat /\ new.risk \in Nat
      /\ Cardinality(F) <= old.findings /\ Cardinality(G) <= new.findings
      /\ (F = {} => old.findings = 0) /\ (G = {} => new.findings = 0)
    BY DEF Covers
<1>3. IsFiniteSet(F \cup G) /\ Cardinality(F \cup G) <= merged.findings
    <2>1. IsFiniteSet(F \cup G) /\ IsFiniteSet(F \cap G)
          /\ Cardinality(F \cup G) = Cardinality(F) + Cardinality(G) - Cardinality(F \cap G)
        BY <1>2, FS_Union, FS_Subset
    <2>2. Cardinality(F) \in Nat /\ Cardinality(G) \in Nat /\ Cardinality(F \cap G) \in Nat
        BY <1>2, <2>1, FS_CardinalityType
    <2> QED
        BY <1>1, <1>2, <2>1, <2>2
<1>4. merged.findings \in Nat /\ merged.severity \in Nat /\ merged.risk \in Nat
      /\ ((F \cup G) = {} => merged.findings = 0)
    BY <1>1, <1>2 DEF Larger
<1>5. \A x \in F \cup G : x.severity \in Nat /\ SeverityBase[x.severity + 1] \in Nat
    BY <1>2, Bases DEF Severity
<1>6. \A x \in F \cup G : x.severity <= merged.severity
    <2>1. /\ \A x \in F : x.severity <= old.severity
          /\ \A x \in G : x.severity <= new.severity
        BY DEF Covers
    <2> QED
        BY <1>1, <1>2, <1>5, <2>1 DEF Larger
<1>7. \A x \in F \cup G : SeverityBase[x.severity + 1] <= merged.risk
    <2>1. /\ \A x \in F : SeverityBase[x.severity + 1] <= old.risk
          /\ \A x \in G : SeverityBase[x.severity + 1] <= new.risk
        BY DEF Covers
    <2> QED
        BY <1>1, <1>2, <1>5, <2>1 DEF Larger
<1>8. merged.piiTypes = {x.type : x \in OfDetector(F \cup G, "pii")}
    BY <1>1 DEF Covers, OfDetector
<1> QED
    BY <1>2, <1>3, <1>4, <1>6, <1>7, <1>8 DEF Covers, merged

\* Flags cover fewer findings too, if some are left and no kind of data is gone.
LEMMA FewerCovered ==
    ASSUME NEW g, NEW F, NEW G \in SUBSET F, Covers(g, F), G = {} => F = {},
           \A x \in F : \E y \in G : y.type = x.type /\ y.detector = x.detector
    PROVE  Covers(g, G)
<1>1. IsFiniteSet(F) /\ g.findings \in Nat /\ Cardinality(F) <= g.findings
    BY DEF Covers
<1>2. IsFiniteSet(G) /\ Cardinality(G) <= Cardinality(F)
    BY <1>1, FS_Subset
<1>3. Cardinality(G) <= g.findings
    BY <1>1, <1>2, FS_CardinalityType
<1>4. {x.type : x \in OfDetector(F, "pii")} = {x.type : x \in OfDetector(G, "pii")}
    BY DEF OfDetector
<1> QED
    BY <1>2, <1>3, <1>4 DEF Covers

\* What the events of trace t in the batch store, before their keys are compared.
AllOf(b, t) == UNION {StoredOf(e) : e \in OfTrace(b, t)}

\* The summaries of the events of a batch, one after the other, cover what they store.
LEMMA CombinedCovers ==
    ASSUME NEW b \in SUBSET Ids, NEW t
    PROVE  Combined(b, t) \in Flags /\ Covers(Combined(b, t), AllOf(b, t))
<1> DEFINE N == Len(Log)
           Of(e) == Summarize(ScanEvent(Log[e]))
           Def(f) == f = [e \in 0 .. N |->
                             IF e = 0 THEN NoFlags
                             ELSE IF e \in OfTrace(b, t) THEN MergeFlags(f[e - 1], Of(e))
                             ELSE f[e - 1]]
           merged == CHOOSE f : Def(f)
           step == [q \in (1 .. N) \X Flags |->
                       IF q[1] \in OfTrace(b, t) THEN MergeFlags(q[2], Of(q[1])) ELSE q[2]]
           UpTo(n) == UNION {StoredOf(e) : e \in {d \in OfTrace(b, t) : d <= n}}
<1>1. N \in Nat /\ Ids = 1 .. N /\ OfTrace(b, t) \subseteq Ids
    <2>1. N \in Nat
        BY GuardrailAssumption
    <2> QED
        BY <2>1 DEF Ids, OfTrace, Scannable
<1>2. \A e \in OfTrace(b, t) : Of(e) \in Flags /\ Covers(Of(e), StoredOf(e))
    BY <1>1, StoredCovers
<1> HIDE DEF Of, N
<1>3. ASSUME NEW e \in 1 .. N, NEW g \in Flags
      PROVE  (IF e \in OfTrace(b, t) THEN MergeFlags(g, Of(e)) ELSE g) \in Flags
    BY <1>2, MergedFlags
<1>4. \E f : Def(f)
    <2>1. step \in [(1 .. N) \X Flags -> Flags]
        BY <1>3
    <2>2. NoFlags \in Flags
        BY NothingCovers
    <2> HIDE DEF step
    <2>3. PICK f \in [0 .. N -> Flags] : Follows(f, N, NoFlags, step)
        BY <1>1, <2>1, <2>2, Recursion
    <2>4. ASSUME NEW i \in 0 .. N, i # 0
          PROVE  step[<<i, f[i - 1]>>] =
                    IF i \in OfTrace(b, t) THEN MergeFlags(f[i - 1], Of(i)) ELSE f[i - 1]
        <3>1. i \in 1 .. N /\ f[i - 1] \in Flags
            BY <1>1, <2>3, <2>4
        <3> QED
            BY <3>1 DEF step
    <2>5. ASSUME NEW i \in 0 .. N
          PROVE  f[i] = IF i = 0 THEN NoFlags
                        ELSE IF i \in OfTrace(b, t) THEN MergeFlags(f[i - 1], Of(i))
                        ELSE f[i - 1]
        <3>1. CASE i = 0
            BY <2>3, <3>1 DEF Follows
        <3>2. CASE i # 0
            <4>1. i \in 1 .. N
                BY <1>1, <3>2
            <4>2. f[i] = step[<<i, f[i - 1]>>]
                BY <2>3, <4>1 DEF Follows
            <4> QED
                BY <2>4, <3>2, <4>2
        <3> QED
            BY <3>1, <3>2
    <2>6. DOMAIN f = 0 .. N /\ f = [i \in DOMAIN f |-> f[i]]
        BY <2>3
    <2> QED
        BY <2>5, <2>6
<1> HIDE DEF step
<1>5. Def(merged)
    BY <1>4
<1>6. Combined(b, t) = merged[N]
    BY DEF Combined, Of, N
<1> HIDE DEF merged
<1>7. merged[0] = NoFlags
    BY <1>1, <1>5
<1>8. ASSUME NEW e \in 1 .. N
      PROVE  merged[e] = IF e \in OfTrace(b, t) THEN MergeFlags(merged[e - 1], Of(e))
                         ELSE merged[e - 1]
    <2>1. e \in 0 .. N /\ e # 0
        BY <1>1
    <2> QED
        BY <1>5, <2>1, Zenon
<1> HIDE DEF Def
<1> DEFINE P == {e \in Nat : e <= N => merged[e] \in Flags /\ Covers(merged[e], UpTo(e))}
<1>9. 0 \in P
    <2>1. UpTo(0) = {}
        BY <1>1
    <2> HIDE DEF UpTo
    <2> QED
        BY <1>7, <2>1, NothingCovers
<1>10. ASSUME NEW e \in P
       PROVE  e + 1 \in P
    <2> SUFFICES ASSUME e + 1 <= N
                 PROVE  merged[e + 1] \in Flags /\ Covers(merged[e + 1], UpTo(e + 1))
        BY <1>10
    <2>1. e \in Nat /\ e + 1 \in 1 .. N /\ (e + 1) - 1 = e
        BY <1>1, <1>10
    <2>2. merged[e] \in Flags /\ Covers(merged[e], UpTo(e))
        BY <1>1, <1>10, <2>1
    <2>3. merged[e + 1] = IF e + 1 \in OfTrace(b, t) THEN MergeFlags(merged[e], Of(e + 1))
                          ELSE merged[e]
        BY <1>8, <2>1
    <2>4. \A d \in OfTrace(b, t) : d <= e + 1 <=> (d <= e \/ d = e + 1)
        BY <1>1, <2>1
    <2>5. CASE e + 1 \in OfTrace(b, t)
        <3>1. UpTo(e + 1) = UpTo(e) \cup StoredOf(e + 1)
            BY <2>4, <2>5
        <3> HIDE DEF UpTo
        <3> QED
            BY <1>2, <2>2, <2>3, <2>5, <3>1, MergedFlags, MergeCovers
    <2>6. CASE e + 1 \notin OfTrace(b, t)
        <3>1. UpTo(e + 1) = UpTo(e)
            BY <2>4, <2>6
        <3> HIDE DEF UpTo
        <3> QED
            BY <2>2, <2>3, <2>6, <3>1
    <2> QED
        BY <2>5, <2>6
<1>11. P = Nat
    <2>1. P \in SUBSET Nat
        OBVIOUS
    <2> HIDE DEF P
    <2> QED
        BY <1>9, <1>10, <2>1, Induction
<1>12. UpTo(N) = AllOf(b, t)
    <2>1. \A d \in OfTrace(b, t) : d <= N
        BY <1>1
    <2> QED
        BY <2>1 DEF AllOf
<1>13. N \in P /\ N <= N
    <2> HIDE DEF P
    <2> QED
        BY <1>1, <1>11
<1> HIDE DEF UpTo
<1> QED
    BY <1>6, <1>12, <1>13

\* What is kept of a batch's findings is some of them, and of each key one.
LEMMA KeptOfAll ==
    ASSUME NEW b \in SUBSET Ids, NEW t
    PROVE  /\ FindingsOf(b, t) \subseteq AllOf(b, t)
           /\ \A x \in AllOf(b, t) : \E g \in FindingsOf(b, t) : KeyOf(g) = KeyOf(x)
BY FirstIsStored DEF FindingsOf, AllOf

LEMMA KeyNamesKind ==
    ASSUME NEW x, NEW f, KeyOf(x) = KeyOf(f)
    PROVE  x.detector = f.detector /\ x.type = f.type
BY DEF KeyOf

-------------------------------------------------------------------------------
(* Who has locked what                                                     *)

LEMMA ScanAlone ==
    ASSUME LockInv, NEW s \in Scanners, Scan(s)
    PROVE  Only(s)
<1>1. ASSUME Commit(s, TRUE) \/ Commit(s, FALSE) \/ Abort(s) PROVE Only(s)
    <2>1. Leave(s) /\ own' = [own EXCEPT ![s] = NothingOwn]
        BY <1>1 DEF Commit, Abort
    <2> QED
        BY <2>1 DEF Leave, Only, LockInv, TypeInv, OwnInv
<1>2. ASSUME NEW b, Begin(s, b) PROVE Only(s)
    BY <1>2 DEF Begin, Only, LockInv, TypeInv
<1>3. ASSUME Read(s) PROVE Only(s)
    <2> DEFINE new == NewOf(FindingsOf(batch[s], NextTrace(s)))
    <2>1. own' = [own EXCEPT ![s].stored = @ \cup new]
        BY <1>3 DEF Read
    <2> HIDE DEF new
    <2>2. \A q \in Scanners \ {s} : own'[q] = own[q]
        BY <2>1, StoredReplaced, Zenon DEF LockInv
    <2> QED
        BY <1>3, <2>2 DEF Read, Only, LockInv, TypeInv
<1>4. ASSUME Upsert(s) PROVE Only(s)
    <2> DEFINE row == [u \in {NextTrace(s)} |->
                          MergedRow(seen[s], Combined(batch[s], NextTrace(s)))]
               raise == AlertsFor(batch[s], NextTrace(s))
    <2>1. own' = [own EXCEPT ![s].rows = Over(row, @), ![s].alerts = Over(raise, @)]
        BY <1>4 DEF Upsert
    <2> HIDE DEF row, raise
    <2>2. \A q \in Scanners \ {s} : own'[q] = own[q]
        BY <2>1, RowsReplaced, Zenon DEF LockInv
    <2> QED
        BY <1>4, <2>2 DEF Upsert, Only, LockInv, TypeInv
<1> QED
    BY <1>1, <1>2, <1>3, <1>4 DEF Scan

LEMMA StoreAlone ==
    ASSUME LockInv, NEW w \in Writers, Store(w)
    PROVE  Only(w)
<1>1. own' = own
    BY DEF Store, StoreBegin, StoreUpsert, StoreCommit
<1> QED
    BY <1>1 DEF Store, StoreBegin, StoreUpsert, StoreCommit, Leave, Only, LockInv, TypeInv

\* A process locks one trace at a time, which nobody has locked.
LEMMA OneLocks ==
    ASSUME MutexInv, NEW p \in Procs, Only(p), NEW T, Locked(p)' \subseteq Locked(p) \cup T,
           \A q \in Procs \ {p} : T \cap Locked(q) = {}
    PROVE  MutexInv'
<1>1. \A q \in Procs \ {p} : Locked(q)' = Locked(q)
    BY DEF Only, Locked
<1> QED
    BY <1>1 DEF MutexInv

LEMMA NextMutex == LockInv /\ MutexInv /\ [Next]_vars => MutexInv'
<1> SUFFICES ASSUME LockInv, MutexInv, [Next]_vars PROVE MutexInv'
    OBVIOUS
<1>1. ASSUME NEW p \in Procs, Only(p), Locked(p)' \subseteq Locked(p) PROVE MutexInv'
    BY <1>1, OneLocks
<1>2. ASSUME NEW p \in Procs, Only(p), pc[p] = "upsert", Free(p, NextTrace(p)),
             batch' = batch, todo' = [todo EXCEPT ![p] = @ \ {NextTrace(p)}]
      PROVE  MutexInv'
    <2>1. batch'[p] = batch[p] /\ todo'[p] = todo[p] \ {NextTrace(p)}
        BY <1>2 DEF LockInv, TypeInv
    <2>2. Locked(p)' \subseteq Locked(p) \cup {NextTrace(p)}
        BY <1>2, <2>1 DEF Locked
    <2>3. \A q \in Procs \ {p} : {NextTrace(p)} \cap Locked(q) = {}
        BY <1>2 DEF Free
    <2> QED
        BY <1>2, <2>2, <2>3, OneLocks
<1>3. ASSUME NEW s \in Scanners, Scan(s) PROVE MutexInv'
    <2> s \in Procs
        BY DEF Procs
    <2>1. Only(s)
        BY <1>3, ScanAlone
    <2>2. ASSUME NEW b \in SUBSET Ids, Begin(s, b) PROVE Locked(s)' \subseteq Locked(s)
        <3>1. CASE Scannable(b) = {}
            BY <2>2, <3>1 DEF Begin, Locked
        <3>2. CASE Scannable(b) # {}
            <4>1. todo'[s] = TracesOf(Scannable(b)) /\ batch'[s] = b
                BY <2>2, <3>2 DEF Begin, LockInv, TypeInv
            <4> QED
                BY <4>1 DEF Locked
        <3> QED
            BY <3>1, <3>2
    <2>3. ASSUME Read(s) PROVE Locked(s)' \subseteq Locked(s)
        BY <2>3 DEF Read, Locked
    <2>4. ASSUME Upsert(s) PROVE MutexInv'
        BY <1>2, <2>1, <2>4 DEF Upsert
    <2>5. ASSUME Leave(s) PROVE Locked(s)' \subseteq Locked(s)
        BY <2>5 DEF Leave, Locked, LockInv, TypeInv
    <2> QED
        BY <1>1, <1>3, <2>1, <2>2, <2>3, <2>4, <2>5 DEF Scan, Commit, Abort
<1>4. ASSUME NEW w \in Writers, Store(w) PROVE MutexInv'
    <2> w \in Procs /\ w \notin Scanners
        BY GuardrailAssumption DEF Procs
    <2>1. Only(w)
        BY <1>4, StoreAlone
    <2>2. ASSUME NEW b \in StoreBatches, StoreBegin(w, b) PROVE Locked(w)' \subseteq Locked(w)
        <3>1. todo'[w] = TracesOf(b) /\ batch'[w] = b
            BY <2>2 DEF StoreBegin, LockInv, TypeInv
        <3> QED
            BY <3>1 DEF Locked
    <2>3. ASSUME StoreUpsert(w) PROVE MutexInv'
        BY <1>2, <2>1, <2>3 DEF StoreUpsert
    <2>4. ASSUME Leave(w) PROVE Locked(w)' \subseteq Locked(w)
        BY <2>4 DEF Leave, Locked, LockInv, TypeInv
    <2> QED
        BY <1>1, <1>4, <2>1, <2>2, <2>3, <2>4 DEF Store, StoreCommit
<1>5. CASE UNCHANGED lockVars
    BY <1>5 DEF lockVars, MutexInv, Locked
<1>6. CASE Retain \/ \E k \in DOMAIN alerts, resolve \in BOOLEAN : Acknowledge(k, resolve)
    <2>1. UNCHANGED lockVars
        BY <1>6 DEF Retain, PurgeChildren, PurgeTraces, PurgeAbort, Acknowledge, lockVars
    <2> QED
        BY <1>5, <2>1
<1>7. CASE UNCHANGED vars
    BY <1>5, <1>7 DEF vars, lockVars
<1> QED
    BY <1>3, <1>4, <1>6, <1>7 DEF Next

-------------------------------------------------------------------------------
(* The flags of a row                                                      *)

\* A scanner that does not step, as long as what is stored of the traces it has locked
\* stays what it is.
LEMMA RowOfOthers ==
    ASSUME NEW s \in Scanners, RowOf(s), pc'[s] = pc[s], batch'[s] = batch[s],
           todo'[s] = todo[s], own'[s] = own[s], raced \subseteq raced',
           \A t \in Locked(s) : OfRow(t)' = OfRow(t)
    PROVE  RowOf(s)'
<1>1. Locked(s)' = Locked(s)
    BY DEF Locked
<1>2. ASSUME NEW t \in DOMAIN own[s].rows
      PROVE  /\ t \in Locked(s) /\ OfRow(t)' = OfRow(t)
             /\ {x \in own'[s].stored : x.trace = t} = OwnOf(s, t)
             /\ t \notin raced' => RowCovers(own[s].rows[t], OfRow(t) \cup OwnOf(s, t))
    BY <1>2 DEF RowOf, OwnOf
<1> QED
    BY <1>1, <1>2 DEF RowOf, OwnOf, OfRow

\* Nothing is committed.
LEMMA CoverElsewhere ==
    ASSUME CoverInv, UNCHANGED <<findings, rows>>, raced \subseteq raced', NEW p,
           \A s \in Scanners \ {p} : /\ pc'[s] = pc[s] /\ batch'[s] = batch[s]
                                     /\ todo'[s] = todo[s] /\ own'[s] = own[s],
           p \in Scanners => RowOf(p)'
    PROVE  CoverInv'
<1>1. \A t : OfRow(t)' = OfRow(t)
    BY DEF OfRow
<1>2. ASSUME NEW s \in Scanners, s # p PROVE RowOf(s)'
    BY <1>1, <1>2, RowOfOthers DEF CoverInv
<1>3. \A t \in DOMAIN rows' \ raced' : RowCovers(rows'[t], OfRow(t)')
    BY <1>1 DEF CoverInv
<1> QED
    BY <1>2, <1>3 DEF CoverInv, OfRow

\* A scanner that has written nothing.
LEMMA NothingWritten ==
    ASSUME NEW s \in Scanners, own'[s] = NothingOwn
    PROVE  RowOf(s)'
<1>1. DOMAIN own'[s].rows = {}
    BY DEF NothingOwn
<1> QED
    BY <1>1 DEF RowOf

LEMMA BeginCovers ==
    ASSUME LockInv, CoverInv, NEW s \in Scanners, NEW b \in SUBSET Ids, Begin(s, b)
    PROVE  CoverInv'
<1>1. own'[s] = NothingOwn
    BY DEF Begin, Hand, LockInv, KeyInv
<1>2. Only(s)
    BY ScanAlone DEF Scan
<1>3. \A q \in Scanners \ {s} : /\ pc'[q] = pc[q] /\ batch'[q] = batch[q]
                                /\ todo'[q] = todo[q] /\ own'[q] = own[q]
    BY <1>2 DEF Only, Procs
<1>4. UNCHANGED <<findings, rows, raced>>
    BY DEF Begin
<1> QED
    BY <1>1, <1>3, <1>4, NothingWritten, CoverElsewhere

LEMMA ReadCovers ==
    ASSUME LockInv, CoverInv, NEW s \in Scanners, Read(s)
    PROVE  CoverInv'
<1> DEFINE t == NextTrace(s)
           new == NewOf(FindingsOf(batch[s], t))
<1> s \in Procs
    BY DEF Procs
<1>1. Only(s)
    BY ScanAlone DEF Scan
<1>2. \A q \in Scanners \ {s} : /\ pc'[q] = pc[q] /\ batch'[q] = batch[q]
                                /\ todo'[q] = todo[q] /\ own'[q] = own[q]
    BY <1>1 DEF Only, Procs
<1>3. own' = [own EXCEPT ![s].stored = @ \cup new]
    BY DEF Read
<1>4. own'[s].stored = own[s].stored \cup new /\ own'[s].rows = own[s].rows
    <2> HIDE DEF new
    <2> QED
        BY <1>3, StoredReplaced, Zenon DEF LockInv
<1>5. /\ pc[s] = "read" /\ pc'[s] = "upsert"
      /\ UNCHANGED <<findings, rows, batch, todo, raced>>
    BY DEF Read, LockInv, TypeInv
<1>6. t \in todo[s]
    <2>1. todo[s] \in SUBSET Traces /\ todo[s] # {}
        BY <1>5 DEF LockInv, TypeInv, OrderInv
    <2> QED
        BY <2>1, NextIsLowest
<1>7. \A x \in new : x.trace = t
    BY StoredOfTrace DEF NewOf
<1> HIDE DEF new, t
<1>8. Locked(s)' = Locked(s) /\ t \notin Locked(s)
    BY <1>5, <1>6 DEF Locked
<1>9. ASSUME NEW u \in DOMAIN own[s].rows
      PROVE  /\ u \in Locked(s) /\ {x \in own'[s].stored : x.trace = u} = OwnOf(s, u)
             /\ u \notin raced => RowCovers(own[s].rows[u], OfRow(u) \cup OwnOf(s, u))
    <2>1. u \in Locked(s) /\ (u \notin raced => RowCovers(own[s].rows[u], OfRow(u) \cup OwnOf(s, u)))
        BY <1>9 DEF CoverInv, RowOf
    <2>2. u # t
        BY <1>8, <2>1
    <2> QED
        BY <1>4, <1>7, <2>1, <2>2 DEF OwnOf
<1>10. RowOf(s)'
    BY <1>4, <1>5, <1>8, <1>9 DEF RowOf, OwnOf, OfRow
<1> QED
    BY <1>2, <1>5, <1>10, CoverElsewhere

\* The flags a scanner reads cover what is stored of the trace, if nobody has written it.
LEMMA FlagsCover ==
    ASSUME RowInv, CoverInv, NEW t, t \notin raced
    PROVE  Covers(FlagsOf(t), OfRow(t))
<1>1. CASE t \in DOMAIN rows
    BY <1>1 DEF FlagsOf, CoverInv, RowCovers
<1>2. CASE t \notin DOMAIN rows
    <2>1. OfRow(t) = {}
        BY <1>2 DEF RowInv, NothingStranded, OfRow
    <2> QED
        BY <1>2, <2>1, NothingCovers DEF FlagsOf
<1> QED
    BY <1>1, <1>2

\* The row that a scanner makes of the flags it has read and of its batch.
LEMMA MergedRowCovers ==
    ASSUME LockInv, RowInv, SeriousInv, CoverInv, NEW s \in Scanners, pc[s] = "upsert",
           NEW t, t = NextTrace(s), t \notin raced, seen[s] = FlagsOf(t)
    PROVE  RowCovers(MergedRow(seen[s], Combined(batch[s], t)), OfRow(t) \cup OwnOf(s, t))
<1> DEFINE b == batch[s]
           A == AllOf(b, t)
           merged == MergeFlags(seen[s], Combined(b, t))
           left == OfRow(t) \cup OwnOf(s, t)
<1> s \in Procs
    BY DEF Procs
<1>1. b \in SUBSET Ids /\ t \in Work(s)
    <2>1. todo[s] \in SUBSET Traces /\ todo[s] # {} /\ todo[s] \subseteq Work(s)
        BY DEF LockInv, TypeInv, OrderInv
    <2> QED
        BY <2>1, NextIsLowest DEF LockInv, TypeInv
<1>2. Covers(seen[s], OfRow(t)) /\ Covers(Combined(b, t), A)
    BY <1>1, FlagsCover, CombinedCovers
<1>3. Covers(merged, OfRow(t) \cup A)
    BY <1>2, MergeCovers
<1>4. \A x \in own[s].stored : x \in FindingsOf(b, x.trace)
    BY DEF SeriousInv, RaiseOf
<1>5. OwnOf(s, t) \subseteq A
    BY <1>1, <1>4, KeptOfAll DEF OwnOf
<1>6. ASSUME NEW x \in A
      PROVE  \E y \in left : y.type = x.type /\ y.detector = x.detector
    <2>1. PICK g \in FindingsOf(b, t) : KeyOf(g) = KeyOf(x)
        BY <1>1, KeptOfAll
    <2>2. PICK y \in findings \cup own[s].stored : KeyOf(y) = KeyOf(g)
        BY <1>1, <2>1 DEF SeriousInv, ReadOf, Inserted
    <2>3. y.trace = t /\ y.detector = x.detector /\ y.type = x.type
        BY <2>1, <2>2, StoredOfTrace, KeyNamesTrace, KeyNamesKind
    <2> QED
        BY <2>2, <2>3 DEF OfRow, OwnOf
<1> HIDE DEF A, b, merged
<1>7. Covers(merged, left)
    <2>1. left \in SUBSET (OfRow(t) \cup A)
        BY <1>5
    <2>2. \A x \in OfRow(t) \cup A : \E y \in left : y.type = x.type /\ y.detector = x.detector
        BY <1>6
    <2>3. left = {} => (OfRow(t) \cup A) = {}
        BY <2>2
    <2> HIDE DEF left
    <2> QED
        BY <1>3, <2>1, <2>2, <2>3, FewerCovered
<1>8. MergedRow(seen[s], Combined(batch[s], t)) =
          [status |-> IF merged.findings > 0 THEN "flagged" ELSE "clean", flags |-> merged]
    BY DEF MergedRow, merged, b
<1> QED
    BY <1>7, <1>8 DEF RowCovers

LEMMA UpsertCovers ==
    ASSUME LockInv, RowInv, SeriousInv, CoverInv, NEW s \in Scanners, Upsert(s)
    PROVE  CoverInv'
<1> DEFINE t == NextTrace(s)
           row == [u \in {t} |-> MergedRow(seen[s], Combined(batch[s], t))]
           raise == AlertsFor(batch[s], t)
<1> s \in Procs /\ s \notin Writers
    BY GuardrailAssumption DEF Procs
<1>1. Only(s)
    BY ScanAlone DEF Scan
<1>2. \A q \in Scanners \ {s} : /\ pc'[q] = pc[q] /\ batch'[q] = batch[q]
                                /\ todo'[q] = todo[q] /\ own'[q] = own[q]
    BY <1>1 DEF Only, Procs
<1>3. own' = [own EXCEPT ![s].rows = Over(row, @), ![s].alerts = Over(raise, @)]
    BY DEF Upsert
<1>4. own'[s].stored = own[s].stored /\ own'[s].rows = Over(row, own[s].rows)
    <2> HIDE DEF raise, row
    <2> QED
        BY <1>3, RowsReplaced, Zenon DEF LockInv
<1>5. /\ pc[s] = "upsert" /\ batch' = batch
      /\ todo' = [todo EXCEPT ![s] = @ \ {NextTrace(s)}]
      /\ pc' = [pc EXCEPT ![s] = IF todo[s] = {NextTrace(s)} THEN "commit" ELSE "read"]
      /\ UNCHANGED <<findings, rows>>
      /\ raced' = IF FlagsOf(t) = seen[s] THEN raced ELSE raced \cup {t}
    BY DEF Upsert
<1>6. todo'[s] = todo[s] \ {t} /\ Work(s)' = Work(s) /\ pc'[s] # "idle"
    BY <1>5, LockNext
<1>7. t \in Work(s)
    <2>1. todo[s] \in SUBSET Traces /\ todo[s] # {} /\ todo[s] \subseteq Work(s)
        BY <1>5 DEF LockInv, TypeInv, OrderInv
    <2> QED
        BY <2>1, NextIsLowest
<1>8. Locked(s) \subseteq Locked(s)' /\ t \in Locked(s)'
    <2>1. Locked(s) = Work(s) \ todo[s] /\ Locked(s)' = Work(s)' \ todo'[s]
        BY <1>5, <1>6 DEF Locked, Work
    <2> QED
        BY <1>6, <1>7, <2>1
<1>9. /\ DOMAIN own'[s].rows = {t} \cup DOMAIN own[s].rows
      /\ own'[s].rows[t] = MergedRow(seen[s], Combined(batch[s], t))
      /\ \A u \in DOMAIN own[s].rows \ {t} : own'[s].rows[u] = own[s].rows[u]
    BY <1>4 DEF Over
<1>10. t \notin raced' =>
          RowCovers(MergedRow(seen[s], Combined(batch[s], t)), OfRow(t) \cup OwnOf(s, t))
    BY <1>5, MergedRowCovers
<1> HIDE DEF t, row, raise
<1>11. ASSUME NEW u \in DOMAIN own'[s].rows
       PROVE  /\ u \in Locked(s)'
              /\ u \notin raced' => RowCovers(own'[s].rows[u], OfRow(u) \cup OwnOf(s, u))
    <2>1. CASE u = t
        BY <1>8, <1>9, <1>10, <2>1
    <2>2. CASE u # t
        <3>1. u \in DOMAIN own[s].rows /\ own'[s].rows[u] = own[s].rows[u]
            BY <1>9, <2>2
        <3> QED
            BY <1>5, <1>8, <3>1 DEF CoverInv, RowOf
    <2> QED
        BY <2>1, <2>2
<1>12. RowOf(s)'
    BY <1>4, <1>5, <1>11 DEF RowOf, OwnOf, OfRow
<1> QED
    BY <1>2, <1>5, <1>12, CoverElsewhere

LEMMA CommitCovers ==
    ASSUME LockInv, MutexInv, RowInv, CoverInv, NEW s \in Scanners, NEW acked \in BOOLEAN,
           Commit(s, acked)
    PROVE  CoverInv'
<1> s \in Procs
    BY DEF Procs
<1>1. Only(s)
    BY ScanAlone DEF Scan
<1>2. /\ findings' = findings \cup own[s].stored /\ rows' = Over(own[s].rows, rows)
      /\ raced' = raced /\ own' = [own EXCEPT ![s] = NothingOwn]
      /\ pc[s] = "commit"
    BY DEF Commit
<1>3. Locked(s) = Work(s) /\ todo[s] = {}
    BY <1>2 DEF LockInv, OrderInv, Locked, Work
<1>4. \A x \in own[s].stored : x.trace \in Locked(s)
    BY <1>3 DEF LockInv, KeyInv
<1>5. DOMAIN own[s].rows = Locked(s)
    BY <1>2, <1>3 DEF RowInv, CoverInv, RowOf
<1>6. \A t : OfRow(t)' = OfRow(t) \cup OwnOf(s, t)
    BY <1>2 DEF OfRow, OwnOf
<1>7. \A t : t \notin Locked(s) => OwnOf(s, t) = {}
    BY <1>4 DEF OwnOf
<1>8. ASSUME NEW t \in DOMAIN rows' \ raced'
      PROVE  RowCovers(rows'[t], OfRow(t)')
    <2>1. CASE t \in DOMAIN own[s].rows
        <3>1. rows'[t] = own[s].rows[t]
            BY <1>2, <2>1 DEF Over
        <3>2. RowCovers(own[s].rows[t], OfRow(t) \cup OwnOf(s, t))
            BY <1>2, <1>8, <2>1 DEF CoverInv, RowOf
        <3> QED
            BY <1>6, <3>1, <3>2
    <2>2. CASE t \notin DOMAIN own[s].rows
        <3>1. t \in DOMAIN rows \ raced /\ rows'[t] = rows[t]
            BY <1>2, <1>8, <2>2 DEF Over
        <3>2. OfRow(t)' = OfRow(t)
            BY <1>5, <1>6, <1>7, <2>2
        <3> QED
            BY <3>1, <3>2 DEF CoverInv
    <2> QED
        BY <2>1, <2>2
<1>9. RowOf(s)'
    <2>1. own'[s] = NothingOwn
        BY <1>2 DEF LockInv, OwnInv
    <2> QED
        BY <2>1, NothingWritten
<1>10. ASSUME NEW q \in Scanners, q # s PROVE RowOf(q)'
    <2>1. q \in Procs
        BY DEF Procs
    <2>2. \A t \in Locked(q) : OfRow(t)' = OfRow(t)
        BY <1>6, <1>7, <1>10, <2>1 DEF MutexInv
    <2> QED
        BY <1>1, <1>2, <1>10, <2>1, <2>2, RowOfOthers DEF Only, CoverInv
<1> QED
    BY <1>8, <1>9, <1>10 DEF CoverInv, OfRow

LEMMA StoreCovers ==
    ASSUME LockInv, RowInv, CoverInv, NEW w \in Writers, Store(w)
    PROVE  CoverInv'
<1>1. Only(w) /\ w \notin Scanners
    BY StoreAlone, GuardrailAssumption
<1>2. \A q \in Scanners \ {w} : /\ pc'[q] = pc[q] /\ batch'[q] = batch[q]
                                /\ todo'[q] = todo[q] /\ own'[q] = own[q]
    BY <1>1 DEF Only, Procs
<1>3. findings' = findings /\ raced' = raced
    BY DEF Store, StoreBegin, StoreUpsert, StoreCommit
<1>4. \A t : OfRow(t)' = OfRow(t)
    BY <1>3 DEF OfRow
<1>5. CASE rows' = rows
    BY <1>1, <1>2, <1>3, <1>5, CoverElsewhere
<1>6. CASE StoreCommit(w)
    <2> DEFINE fresh == [t \in TracesOf(batch[w]) |-> FreshRow]
    <2>1. rows' = Over(rows, fresh)
        BY <1>6 DEF StoreCommit
    <2>2. ASSUME NEW t \in DOMAIN rows' \ raced'
          PROVE  RowCovers(rows'[t], OfRow(t)')
        <3>1. CASE t \in DOMAIN rows
            <4>1. rows'[t] = rows[t]
                BY <2>1, <2>2, <3>1 DEF Over
            <4> QED
                BY <1>3, <1>4, <2>2, <3>1, <4>1 DEF CoverInv
        <3>2. CASE t \notin DOMAIN rows
            <4>1. rows'[t] = FreshRow
                BY <2>1, <2>2, <3>2 DEF Over
            <4>2. OfRow(t) = {}
                BY <1>3, <2>2, <3>2 DEF RowInv, NothingStranded, OfRow
            <4>3. FreshRow.flags = NoFlags /\ FreshRow.status = "pending" /\ NoFlags.findings = 0
                BY DEF FreshRow, NoFlags
            <4>4. RowCovers(FreshRow, {})
                BY <4>3, NothingCovers DEF RowCovers
            <4> QED
                BY <1>4, <4>1, <4>2, <4>4
        <3> QED
            BY <3>1, <3>2
    <2>3. ASSUME NEW q \in Scanners PROVE RowOf(q)'
        BY <1>1, <1>2, <1>3, <1>4, RowOfOthers DEF CoverInv
    <2> QED
        BY <2>2, <2>3 DEF CoverInv, OfRow
<1> QED
    BY <1>5, <1>6 DEF Store, StoreBegin, StoreUpsert

LEMMA PurgeCovers ==
    ASSUME SeriousInv, CoverInv, PurgeTraces
    PROVE  CoverInv'
<1>1. /\ findings' = findings \ purge.doomed /\ raced \subseteq raced'
      /\ rows' = [t \in DOMAIN rows \ purge.ids |-> rows[t]]
      /\ \A p \in Procs : Locked(p) \cap purge.ids = {}
      /\ UNCHANGED lockVars
    BY DEF PurgeTraces, Doomed, lockVars
<1>2. \A t : t \notin purge.ids => OfRow(t)' = OfRow(t)
    BY <1>1 DEF OfRow, SeriousInv
<1>3. ASSUME NEW t \in DOMAIN rows' \ raced' PROVE RowCovers(rows'[t], OfRow(t)')
    <2>1. t \in DOMAIN rows \ raced /\ t \notin purge.ids /\ rows'[t] = rows[t]
        BY <1>1, <1>3
    <2> QED
        BY <1>2, <2>1 DEF CoverInv
<1>4. ASSUME NEW q \in Scanners PROVE RowOf(q)'
    <2>1. \A t \in Locked(q) : OfRow(t)' = OfRow(t)
        BY <1>1, <1>2 DEF Procs
    <2> QED
        BY <1>1, <2>1, RowOfOthers DEF CoverInv, lockVars
<1> QED
    BY <1>3, <1>4 DEF CoverInv, OfRow

LEMMA NextCovers ==
    LockInv /\ MutexInv /\ RowInv /\ SeriousInv /\ CoverInv /\ [Next]_vars => CoverInv'
<1> SUFFICES ASSUME LockInv, MutexInv, RowInv, SeriousInv, CoverInv, [Next]_vars
             PROVE  CoverInv'
    OBVIOUS
<1>1. ASSUME NEW s \in Scanners, Abort(s) PROVE CoverInv'
    <2>1. Only(s)
        BY <1>1, ScanAlone DEF Scan
    <2>2. own'[s] = NothingOwn /\ UNCHANGED <<findings, rows, raced>>
        BY <1>1 DEF Abort, LockInv, OwnInv
    <2>3. \A q \in Scanners \ {s} : /\ pc'[q] = pc[q] /\ batch'[q] = batch[q]
                                    /\ todo'[q] = todo[q] /\ own'[q] = own[q]
        BY <2>1 DEF Only, Procs
    <2> QED
        BY <2>2, <2>3, NothingWritten, CoverElsewhere
<1>2. ASSUME NEW s \in Scanners, Scan(s) PROVE CoverInv'
    BY <1>1, <1>2, BeginCovers, ReadCovers, UpsertCovers, CommitCovers DEF Scan
<1>3. ASSUME NEW w \in Writers, Store(w) PROVE CoverInv'
    BY <1>3, StoreCovers
<1>4. CASE UNCHANGED lockVars /\ UNCHANGED <<findings, rows, raced>>
    <2>1. ASSUME NEW q \in Scanners PROVE RowOf(q)'
        BY <1>4, RowOfOthers DEF CoverInv, lockVars, OfRow
    <2> QED
        BY <1>4, <2>1 DEF CoverInv, OfRow
<1>5. CASE Retain
    <2>1. PurgeTraces \/ (UNCHANGED lockVars /\ UNCHANGED <<findings, rows, raced>>)
        BY <1>5 DEF Retain, PurgeChildren, PurgeAbort, lockVars
    <2> QED
        BY <1>4, <2>1, PurgeCovers
<1>6. CASE \E k \in DOMAIN alerts, resolve \in BOOLEAN : Acknowledge(k, resolve)
    <2>1. UNCHANGED lockVars /\ UNCHANGED <<findings, rows, raced>>
        BY <1>6 DEF Acknowledge, lockVars
    <2> QED
        BY <1>4, <2>1
<1>7. CASE UNCHANGED vars
    BY <1>4, <1>7 DEF vars, lockVars
<1> QED
    BY <1>2, <1>3, <1>5, <1>6, <1>7 DEF Next

LEMMA InitCovers == Init => MutexInv /\ CoverInv
<1> SUFFICES ASSUME Init PROVE MutexInv /\ CoverInv
    OBVIOUS
<1>1. \A p \in Procs : Locked(p) = {}
    BY DEF Init, Locked
<1>2. \A s \in Scanners : DOMAIN own[s].rows = {}
    BY DEF Init, NothingOwn
<1>3. ASSUME NEW t \in DOMAIN rows PROVE RowCovers(rows[t], OfRow(t))
    <2>1. OfRow(t) = {} /\ rows[t] = FreshRow
        BY <1>3 DEF Init, OfRow
    <2>2. FreshRow.flags = NoFlags /\ FreshRow.status = "pending" /\ NoFlags.findings = 0
        BY DEF FreshRow, NoFlags
    <2> QED
        BY <2>1, <2>2, NothingCovers DEF RowCovers
<1> QED
    BY <1>1, <1>2, <1>3 DEF MutexInv, CoverInv, RowOf

\* What covers the findings of a trace says of them what the property asks for.
LEMMA CoverIsEnough == CoverInv => FlagsCoverFindings
<1> SUFFICES ASSUME CoverInv, NEW t \in DOMAIN rows \ raced
             PROVE  IF OfRow(t) = {} THEN rows[t].status # "flagged"
                    ELSE /\ rows[t].status = "flagged"
                         /\ rows[t].flags.findings >= Cardinality(OfRow(t))
                         /\ rows[t].flags.severity >= Worst(Severities(OfRow(t)))
                         /\ rows[t].flags.risk >= SeverityBase[Worst(Severities(OfRow(t))) + 1]
                         /\ rows[t].flags.piiTypes = {x.type : x \in OfDetector(OfRow(t), "pii")}
    BY DEF FlagsCoverFindings
<1> DEFINE F == OfRow(t)
           g == rows[t].flags
           worst == Worst(Severities(F))
<1>1. Covers(g, F) /\ (rows[t].status = "flagged" <=> g.findings > 0)
    BY DEF CoverInv, RowCovers
<1> HIDE DEF F, g
<1>2. CASE F = {}
    BY <1>1, <1>2 DEF Covers, F
<1>3. CASE F # {}
    <2>1. g.findings \in Nat /\ g.severity \in Nat /\ g.risk \in Nat /\ Cardinality(F) <= g.findings
        BY <1>1 DEF Covers
    <2>2. Cardinality(F) \in Nat /\ Cardinality(F) # 0
        BY <1>1, <1>3, FS_CardinalityType, FS_EmptySet DEF Covers
    <2>3. Severities(F) \in SUBSET Severity /\ Severities(F) # {}
        BY <1>1, <1>3 DEF Covers, Severities
    <2>4. worst \in Severities(F) /\ worst \in Severity
        BY <2>3, WorstOf
    <2>5. PICK x \in F : worst = x.severity
        BY <2>4 DEF Severities
    <2>6. worst <= g.severity /\ SeverityBase[worst + 1] <= g.risk
        BY <1>1, <2>5 DEF Covers
    <2>7. worst \in Nat /\ SeverityBase[worst + 1] \in Nat
        BY <2>4, Bases DEF Severity
    <2> HIDE DEF worst
    <2>8. g.severity >= worst /\ g.risk >= SeverityBase[worst + 1]
        BY <2>1, <2>6, <2>7
    <2>9. g.findings > 0 /\ g.findings >= Cardinality(F)
        BY <2>1, <2>2
    <2>10. g.piiTypes = {y.type : y \in OfDetector(F, "pii")}
        BY <1>1 DEF Covers
    <2> QED
        BY <1>1, <1>3, <2>8, <2>9, <2>10 DEF worst, F, g
<1> QED
    BY <1>2, <1>3

\* A trace's summary covers every finding stored of it, and flags nothing else, however
\* many scanners share its events, and however they are split into batches, redelivered,
\* rolled back and purged, unless another transaction wrote the row between the read and
\* the lock (engine.py:259-264, guardrail_scanner.py:116-128).
THEOREM FlagsAreComplete == Spec => []FlagsCoverFindings
<1>1. Init => LockInv /\ RowInv /\ AlertInv /\ SeriousInv /\ MutexInv /\ CoverInv
    BY InitLocks, InitRows, InitSerious, InitCovers DEF Init, AlertInv
<1>2. LockInv /\ RowInv /\ AlertInv /\ SeriousInv /\ MutexInv /\ CoverInv /\ [Next]_vars
        => LockInv' /\ RowInv' /\ AlertInv' /\ SeriousInv' /\ MutexInv' /\ CoverInv'
    BY NextLocks, NextRows, NextKeeps, NextSerious, NextMutex, NextCovers
<1>3. CoverInv => FlagsCoverFindings
    BY CoverIsEnough
<1> QED
    BY <1>1, <1>2, <1>3, PTL DEF Spec
===============================================================================
