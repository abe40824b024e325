--------------------------- MODULE GuardrailEngine ---------------------------
(***************************************************************************)
(* guardrails/engine.py: one event into findings, and the findings into    *)
(* the summary that is folded into its trace.                              *)
(***************************************************************************)
EXTENDS Detectors

CONSTANT None

\* A field of a payload, by what the detectors see in it.
\* raw, entities: for the PII engines; rules, similar: for the injection detector.
IsText(x) ==
    /\ x.raw \in [1 .. Len(Patterns) -> Seq(RawHit)]
    /\ x.entities \subseteq Match /\ IsFiniteSet(x.entities)
    /\ x.rules \in Seq(Signal) /\ x.similar \in Signal

Finding == [detector : {"pii", "injection"}, type : Nat, severity : Severity,
            score : Score, field : {"input", "output"}, start : Nat]

PiiFindings(text, field) ==
    {[detector |-> "pii", type |-> m.pattern, severity |-> m.severity,
      score |-> m.score, field |-> field, start |-> m.start] :
        m \in Analyze(text.raw, text.entities)}

InjectionFindings(text, field) ==
    LET signal == ScanInjection(text.rules, text.similar)
    IN  IF signal = NoSignal THEN {}
        ELSE {[detector |-> "injection", type |-> signal.category,
               severity |-> signal.severity, score |-> signal.score,
               field |-> field, start |-> 0]}

\* The events that carry a real request.
Requests == {"trace.start", "span.start", "trace.end"}

\* scan_event: personal data in and out; injection in the input of a request.
ScanEvent(e) ==
    PiiFindings(e.input, "input") \cup PiiFindings(e.output, "output")
    \cup IF e.type \in Requests THEN InjectionFindings(e.input, "input") ELSE {}

-------------------------------------------------------------------------------
(* _summarize and merge_flags                                              *)

SeverityBase == <<0, 15, 35, 70, 95>>
AdditionalTypeWeight == 5

Severities(F) == {f.severity : f \in F}
TypesOf(F) == {<<f.detector, f.type>> : f \in F}
OfDetector(F, d) == {f \in F : f.detector = d}

\* The base of the worst finding, and a little for every other type.
Risk(F) ==
    LET sum == SeverityBase[Worst(Severities(F)) + 1]
               + AdditionalTypeWeight * (Cardinality(TypesOf(F)) - 1)
    IN  IF F = {} THEN 0 ELSE IF sum > 100 THEN 100 ELSE sum

\* max() over a list keeps the first of the best; fields are in the order they were scanned.
WorstInjection(F) ==
    IF F = {} THEN None ELSE CHOOSE f \in F : \A g \in F : g.score <= f.score

Flags == [findings : Nat, risk : 0 .. 100, severity : Severity, piiCount : Nat,
          piiTypes : SUBSET Nat, piiSeverity : Severity, injection : Finding \cup {None}]
NoFlags == [findings |-> 0, risk |-> 0, severity |-> 0, piiCount |-> 0,
            piiTypes |-> {}, piiSeverity |-> 0, injection |-> None]

Summarize(F) ==
    LET pii == OfDetector(F, "pii")
    IN  [findings |-> Cardinality(F), risk |-> Risk(F), severity |-> Worst(Severities(F)),
         piiCount |-> Cardinality(pii), piiTypes |-> {f.type : f \in pii},
         piiSeverity |-> Worst(Severities(pii)),
         injection |-> WorstInjection(OfDetector(F, "injection"))]

Larger(m, n) == IF m > n THEN m ELSE n

\* Of two injections the one of the higher score, the newer when they are equal.
MergedInjection(old, new) ==
    IF new # None /\ (old = None \/ new.score >= old.score) THEN new ELSE old

\* Mutant of MergeFlags: the last event's summary replaces the trace's.
LastFlags(old, new) == [new EXCEPT !.findings = old.findings + new.findings]

MergeFlags(old, new) ==
    [findings |-> old.findings + new.findings,
     risk |-> Larger(old.risk, new.risk),
     severity |-> Larger(old.severity, new.severity),
     piiCount |-> old.piiCount + new.piiCount,
     piiTypes |-> old.piiTypes \cup new.piiTypes,
     piiSeverity |-> Larger(old.piiSeverity, new.piiSeverity),
     injection |-> MergedInjection(old.injection, new.injection)]

==============================================================================
