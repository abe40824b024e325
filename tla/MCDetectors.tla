----------------------------- MODULE MCDetectors -----------------------------
(***************************************************************************)
(* Texts and prompts for the detectors of the guardrails, that grow one    *)
(* hit and one signal at a time.                                           *)
(***************************************************************************)
EXTENDS Detectors

VARIABLES
    hits,      \* the raw hits of each pattern, and the entities of the analyzer
    signals    \* the rules that fired, and the similarity

detectors == <<hits, signals>>

ThreePatterns == << [severity |-> 2, score |-> 95], [severity |-> 4, score |-> 90],
                  [severity |-> 4, score |-> 60] >>
NoHits == [raw |-> [p \in DOMAIN Patterns |-> <<>>], entities |-> {}]
NoSignals == [rules |-> <<>>, similar |-> NoSignal]

Spot == {s \in [start : 0 .. 3, end : 0 .. 3] : s.start < s.end}
Total == Cardinality(UNION {{p} \X DOMAIN hits.raw[p] : p \in DOMAIN Patterns})

DetectorInit == hits = NoHits /\ signals = NoSignals

\* The hits of one pattern do not overlap, and come in the order of the text.
NextHit ==
    /\ signals = NoSignals /\ hits.entities = {}
    /\ \E p \in DOMAIN Patterns, s \in Spot, valid \in BOOLEAN :
         LET of == hits.raw[p]
         IN  /\ Len(of) < 2 /\ Total < 4    \* bounds
             /\ of # <<>> => of[Len(of)].end <= s.start
             /\ \A q \in DOMAIN Patterns : q > p => hits.raw[q] = <<>>
             /\ hits' = [hits EXCEPT !.raw[p] = Append(@,
                           [start |-> s.start, end |-> s.end, valid |-> valid])]
    /\ UNCHANGED signals

NextEntities ==
    /\ signals = NoSignals /\ hits.entities = {} /\ Total < 3
    /\ \E s, t \in Spot :
         LET entity(spot, severity, score) ==
               [pattern |-> 9, severity |-> severity, score |-> score,
                start |-> spot.start, end |-> spot.end]
         IN  hits' = [hits EXCEPT !.entities = {entity(s, 2, 70), entity(t, 0, 90)}]
    /\ UNCHANGED signals

NextRule ==
    /\ hits = NoHits /\ Len(signals.rules) < 2 /\ signals.similar = NoSignal
    /\ \E score \in {55, 85, 95}, severity \in {2, 4} :
         signals' = [signals EXCEPT !.rules = Append(@,
                       [score |-> score, severity |-> severity, category |-> Len(@) + 1])]
    /\ UNCHANGED hits

NextSimilar ==
    /\ hits = NoHits /\ signals.similar = NoSignal
    /\ \E score \in {30, 61, 85, 99} :
         signals' = [signals EXCEPT !.similar = [score |-> score, severity |-> 3, category |-> 9]]
    /\ UNCHANGED hits

DetectorNext == NextHit \/ NextEntities \/ NextRule \/ NextSimilar

DetectorSpec == DetectorInit /\ [][DetectorNext]_detectors

\* Of any text the detectors report every validated match, save where a stronger one
\* overlaps it or max_matches cut it off, and none where a stronger one is; of any prompt
\* the strongest signal (patterns.py:370-403, pii.py:50-51, injection.py).
ReportedIsStrongest ==
    /\ StrongestReported(hits.raw, hits.entities)
    /\ StrongestTold(signals.rules, signals.similar)
==============================================================================
