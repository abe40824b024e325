------------------------------ MODULE Detectors ------------------------------
(***************************************************************************)
(* guardrails/patterns.py, pii.py and injection.py: from the raw hits of   *)
(* the regular expressions, of Presidio, of the rules and of the signature *)
(* corpus, what is reported of one text. A hit is its place and its        *)
(* weight; what the expressions match is data. Scores are in hundredths.   *)
(***************************************************************************)
EXTENDS Integers, Sequences, FiniteSets, TLC

CONSTANTS
    Patterns,        \* PATTERNS: for each, its severity and its score
    MaxMatches,      \* max_matches: the hits after which a pattern is left
    PresidioMin,     \* PRESIDIO_MIN_SCORE
    Threshold        \* injection_threshold

Severity == 0 .. 4              \* SEVERITY_RANK: info, low, medium, high, critical
Score == 0 .. 100

ASSUME DetectorsAssumption ==
    /\ Patterns \in Seq([severity : Severity, score : Score])
    /\ MaxMatches \in Nat \ {0}
    /\ PresidioMin \in Score /\ Threshold \in Score \ {0}

\* A raw hit of a pattern: where it is, and whether its validator accepts the value.
RawHit == [start : Nat, end : Nat, valid : BOOLEAN]
Match == [pattern : Nat, severity : Severity, score : Score, start : Nat, end : Nat]

\* The highest of a set of severities; nothing found is info.
Worst(S) == CHOOSE s \in S \cup {0} : \A t \in S : t <= s

Overlap(a, b) == a.start < b.end /\ b.start < a.end

\* The members of S one after another, by a strict total order: the n-th has n - 1 before it.
SortedBy(S, R) ==
    [n \in 1 .. Cardinality(S) |->
        CHOOSE x \in S : Cardinality({y \in S : <<y, x>> \in R}) = n - 1]

-------------------------------------------------------------------------------
(* patterns.py                                                             *)

MatchOf(p, hit) == [pattern |-> p, severity |-> Patterns[p].severity,
                    score |-> Patterns[p].score, start |-> hit.start, end |-> hit.end]

\* The hits of pattern p that are taken when there are n already: past max_matches each
\* pattern still adds the one that breaks its loop.
Taken(p, hits, n) ==
    LET places == {i \in DOMAIN hits : hits[i].valid}
        valid == SortedBy(places, {q \in places \X places : q[1] < q[2]})
        room == IF n < MaxMatches THEN MaxMatches - n ELSE 1
    IN  [i \in 1 .. (IF Len(valid) < room THEN Len(valid) ELSE room) |->
             MatchOf(p, hits[valid[i]])]

\* The loop of scan_text, pattern by pattern. raw[p]: the raw hits of p, in text order.
Found(raw) ==
    LET found[p \in 0 .. Len(Patterns)] ==
          IF p = 0 THEN <<>>
          ELSE found[p - 1] \o Taken(p, raw[p], Len(found[p - 1]))
    IN  found[Len(Patterns)]

\* Mutant of Before: the longest hit goes first, whatever its severity.
LongestFirst(a, b) ==
    LET key(m) == <<m.start - m.end, m.start>>
    IN  \E i \in 1 .. 2 : key(a)[i] < key(b)[i] /\ \A j \in 1 .. i - 1 : key(a)[j] = key(b)[j]

\* The sort key of _resolve_overlaps.
Before(a, b) ==
    LET key(m) == <<-m.severity, -m.score, m.start, -m.end>>
    IN  \E i \in 1 .. 4 : key(a)[i] < key(b)[i] /\ \A j \in 1 .. i - 1 : key(a)[j] = key(b)[j]

\* The order of a stable sort: hits with the same key stay in the registry's order.
SortOrder(hits) ==
    {p \in (1 .. Len(hits)) \X (1 .. Len(hits)) :
        \/ Before(hits[p[1]], hits[p[2]])
        \/ ~Before(hits[p[2]], hits[p[1]]) /\ p[1] < p[2]}

\* _resolve_overlaps: from the strongest on, a hit stays if it overlaps none that stayed.
ResolveOverlaps(hits) ==
    LET order == SortedBy(1 .. Len(hits), SortOrder(hits))
        kept[i \in 0 .. Len(hits)] ==
          IF i = 0 THEN {}
          ELSE IF \E k \in kept[i - 1] : Overlap(hits[order[i]], k) THEN kept[i - 1]
          ELSE kept[i - 1] \cup {hits[order[i]]}
    IN  kept[Len(hits)]

ScanText(raw) == ResolveOverlaps(Found(raw))

-------------------------------------------------------------------------------
(* pii.py                                                                  *)

\* An entity that the checksummed patterns already cover is not reported again.
Covered(r, m) == Overlap(r, m)

\* PresidioPiiEngine.analyze. results: what the analyzer answers, {} when it fails; an
\* entity of severity info, or of a low score, is not reported.
Analyze(raw, results) ==
    LET builtin == ScanText(raw)
    IN  builtin \cup {r \in results : /\ r.score >= PresidioMin
                                      /\ ~\E m \in builtin : Covered(r, m)
                                      /\ r.severity # 0}

-------------------------------------------------------------------------------
(* injection.py                                                            *)

Signal == [score : Score, severity : Severity, category : Nat]
NoSignal == [score |-> 0, severity |-> 0, category |-> 0]

\* Of the rules that fire, in their order, the first of the highest score.
BestRule(rules) ==
    LET best[i \in 0 .. Len(rules)] ==
          IF i = 0 THEN NoSignal
          ELSE IF rules[i].score > best[i - 1].score THEN rules[i] ELSE best[i - 1]
    IN  best[Len(rules)]

\* Mutant of Stronger: the category is that of the rule whenever a rule fired.
RuleSpeaks(rule, similar) ==
    IF rule # NoSignal THEN [rule EXCEPT !.score = IF similar.score > @ THEN similar.score ELSE @]
    ELSE similar

\* The stronger of the two signals; the rule when they are equal.
Stronger(rule, similar) == IF rule.score >= similar.score THEN rule ELSE similar

\* InjectionDetector.scan: the signal that is reported, or none.
ScanInjection(rules, similar) ==
    LET signal == Stronger(BestRule(rules), similar)
    IN  IF signal.score >= Threshold THEN signal ELSE NoSignal

-------------------------------------------------------------------------------
(* What a report is for.                                                   *)

AtLeast(a, b) == a.severity > b.severity \/ (a.severity = b.severity /\ a.score >= b.score)

\* The hits that their validators accept, each by its pattern and its number.
ValidHits(raw) ==
    UNION {{p} \X {i \in DOMAIN raw[p] : raw[p][i].valid} : p \in DOMAIN Patterns}
HitOf(raw, h) == MatchOf(h[1], raw[h[1]][h[2]])

\* The limit is reached before h, and h is not the one hit that its pattern still adds.
CutOff(raw, h) ==
    LET earlier == {g \in ValidHits(raw) : g[1] < h[1] \/ (g[1] = h[1] /\ g[2] < h[2])}
    IN  Cardinality(earlier) >= MaxMatches /\ \E g \in earlier : g[1] = h[1]

\* What is reported of a text does not overlap, and a valid hit is left out for one that
\* is at least as strong, or because the limit cut it off, whatever its severity; no
\* entity is reported where a checksummed pattern is (patterns.py:370-403, pii.py:50-51).
StrongestReported(raw, entities) ==
    LET kept == ScanText(raw)
        reported == Analyze(raw, entities)
    IN  /\ Len(Found(raw)) < MaxMatches + Len(Patterns)
        /\ \A a, b \in kept : a = b \/ ~Overlap(a, b)
        /\ kept \subseteq {HitOf(raw, h) : h \in ValidHits(raw)}
        /\ \A h \in ValidHits(raw) :
              \/ HitOf(raw, h) \in kept \/ CutOff(raw, h)
              \/ \E k \in kept : Overlap(HitOf(raw, h), k) /\ AtLeast(k, HitOf(raw, h))
        /\ kept \subseteq reported
        /\ \A r \in reported \ kept : \A k \in kept : ~Overlap(r, k)

\* Of a prompt, what is reported is a signal that was there and that no other outdoes.
StrongestTold(rules, similar) ==
    LET told == ScanInjection(rules, similar)
        fired == {rules[i] : i \in DOMAIN rules} \cup {similar}
    IN  IF told = NoSignal THEN \A s \in fired : s.score < Threshold
        ELSE told \in fired /\ \A s \in fired : s.score <= told.score
==============================================================================
