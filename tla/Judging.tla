------------------------------- MODULE Judging -------------------------------
(***************************************************************************)
(* evals/judge.py: which samples a judge is asked about, what is kept of   *)
(* each, and how its answer becomes verdicts. A text is its length, an     *)
(* answer the items that could be parsed out of it; a score is in          *)
(* ten-thousandths, the rounding of the code.                              *)
(***************************************************************************)
EXTENDS Integers, Sequences, FiniteSets

CONSTANTS
    MaxContextChars,     \* eval_max_context_chars
    NotANumber           \* what a metric may be instead of a number, NaN included

ASSUME JudgingAssumption == MaxContextChars \in Nat /\ NotANumber \notin Int

Metrics == {"faithfulness", "answer_relevancy"}
One == 10000

\* A trace to grade: the lengths of its texts.
Sample == [trace : Nat, question : Nat, answer : Nat, contexts : Seq(Nat)]

AtMost(m, n) == IF m < n THEN m ELSE n

\* EvalSample.truncated: chunks until the budget is spent; the last may be cut.
Truncated(contexts) ==
    LET before[i \in 0 .. Len(contexts)] == IF i = 0 THEN 0 ELSE before[i - 1] + contexts[i]
        whole == {i \in DOMAIN contexts : before[i - 1] < MaxContextChars}
    IN  [i \in 1 .. Cardinality(whole) |-> AtMost(contexts[i], MaxContextChars - before[i - 1])]

\* scorable: there is a question and an answer.
Usable(samples) ==
    LET asked == {j \in DOMAIN samples : samples[j].question > 0 /\ samples[j].answer > 0}
        nth(i) == CHOOSE j \in asked : Cardinality({k \in asked : k <= j}) = i
    IN  [i \in 1 .. Cardinality(asked) |->
            [samples[nth(i)] EXCEPT !.contexts = Truncated(@)]]

\* Mutant of PromptIds: the place among all the samples of the batch.
IdsOfBatch(samples) ==
    [i \in {j \in DOMAIN samples : samples[j].question > 0 /\ samples[j].answer > 0} |->
        samples[i].trace]

\* build_batch_prompt: the ids the judge sees, and the trace each stands for.
PromptIds(samples) == [i \in DOMAIN Usable(samples) |-> Usable(samples)[i].trace]

\* _clamp: a number between nought and one, or nothing.
Clamp(value) ==
    IF value = NotANumber THEN NotANumber
    ELSE IF value < 0 THEN 0 ELSE AtMost(value, One)

\* _parse_verdicts. Of several items with one id the last counts; a sample without one,
\* or with no score that can be read, has a verdict all the same.
Verdicts(items, samples) ==
    LET usable == Usable(samples)
        answers(i) == {k \in DOMAIN items : items[k].id = i}
        last(i) == items[CHOOSE k \in answers(i) : \A l \in answers(i) : l <= k]
        scores(i) == [m \in {n \in Metrics : Clamp(last(i).scores[n]) # NotANumber} |->
                        Clamp(last(i).scores[m])]
    IN  [i \in DOMAIN usable |->
            IF answers(i) = {}
            THEN [trace |-> usable[i].trace, scores |-> <<>>, error |-> "no result returned"]
            ELSE [trace |-> usable[i].trace, scores |-> scores(i),
                  error |-> IF DOMAIN scores(i) = {} THEN "no parseable scores" ELSE ""]]

\* HeuristicJudge: of the content words of the answer, a, those that the context, c, and
\* the question, q, share; an answer without one has an error instead.
Heuristic(a, q, c) ==
    IF a = {} THEN <<>> ELSE
    LET overlap == Cardinality(a \cap q)
        asked == IF q = {} THEN 1 ELSE AtMost(Cardinality(q), 8)
        relevancy == AtMost(One, (overlap * One) \div asked)
    IN  [faithfulness |-> IF c = {} THEN One \div 2
                          ELSE (Cardinality(a \cap c) * One) \div Cardinality(a),
         answer_relevancy |-> (relevancy * (12 + AtMost(12, Cardinality(a)))) \div 24]
==============================================================================
