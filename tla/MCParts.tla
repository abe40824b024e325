------------------------------- MODULE MCParts -------------------------------
(***************************************************************************)
(* Small parts of the platform, checked side by side: a behaviour shows    *)
(* one scene. The scene "inputs" evaluates the pure functions of the       *)
(* checksums, the judge, the event schema, the price table and the call    *)
(* tree on inputs that grow one piece at a time, and "detectors" those of  *)
(* the guardrails; the others run the rate limiter, a reader of a paged    *)
(* list, the drift monitor, and the heartbeats of the roles.               *)
(***************************************************************************)
EXTENDS Checksums, MCDetectors, Judging, EventSchema, ModelUsage, TraceView,
        RateLimit, Paging, DriftBaseline, Heartbeats

CONSTANTS Digits, Varied,    \* bounds: the digits of a number, those of them that vary
          SpanIds            \* bound: the spans of a trace

\* An account number has as many digits as an IBAN leaves room for; the contexts of a trace
\* are longer than a judge is shown. Spans have numbers, in the order of their ids; null is
\* neither an id nor a time. There is one upgrade of the event schema. A provider may count
\* what it had cached, and an error may tell its cause.
ASSUME PartsAssumption ==
    /\ Digits \in 11 .. 30 /\ Varied \in Nat /\ MaxContextChars \in 1 .. 8
    /\ SchemaVersion = 2 /\ {"a", "b", "c"} \subseteq Letters
    /\ {"cached_tokens", "cause"} \subseteq Details
    /\ SpanIds \subseteq Nat /\ IsFiniteSet(SpanIds) /\ Top \notin SpanIds /\ Unset \notin Int

VARIABLES
    scene,     \* which part this behaviour is about
    number,    \* some digits, and the place they have in a number of zeros
    items,     \* what the judge has answered
    payload,   \* an event on the wire
    reply,     \* where the answer of a model has its counts and its name
    texts,     \* the words of an answer, of a question and of the contexts
    spans      \* the spans of a trace

inputs == <<number, items, payload, reply, texts, spans>>
vars == <<scene, number, items, payload, reply, texts, spans, detectors,
          limiter, pages, drift, health>>

NoReply == [provider |-> 0, filled |-> <<>>, named |-> {}]
NoTexts == [answer |-> {}, question |-> {}, context |-> {}]
\* "b" is part of "ab", and "ab" of "aab"; the longest is not the dearest.
ThreePrices == (<<"b">> :> [input |-> 1500, output |-> 4000])
               @@ (<<"a", "b">> :> [input |-> 500, output |-> 2500])
               @@ (<<"a", "a", "b">> :> [input |-> 0, output |-> 0])
ThreeWindows == { [count |-> 1, mean |-> 90, spread |-> 5],
                  [count |-> 4, mean |-> 80, spread |-> 5],
                  [count |-> 4, mean |-> 30, spread |-> 0] }

OneHost == [r \in Roles |-> "host"]
\* A site where all is well but for what the heartbeats say, and one where nothing is.
TwoSites == { [redis |-> TRUE, groups |-> ("eval" :> [lag |-> 0, read |-> 4]), length |-> 4,
               writeAge |-> Absent, letters |-> 0],
              [redis |-> FALSE, groups |-> <<>>, length |-> 0,
               writeAge |-> MaxWriteAge + 1, letters |-> 1] }

Scenes == {"inputs", "detectors", "limiter", "pages", "drift", "health"}

Init ==
    /\ scene \in Scenes
    /\ number \in [at : 2 .. Digits + 1 - Varied, digits : {<<>>}]
    /\ scene # "inputs" => number.at = 2
    /\ items = <<>> /\ payload = <<>> /\ reply = NoReply /\ texts = NoTexts /\ spans = <<>>
    /\ DetectorInit
    /\ LimiterInit
    /\ PagingInit
    /\ scene # "pages" => table = <<>> /\ limit = 1
    /\ DriftInit
    /\ scene # "drift" => scores.count = 1
    /\ HeartbeatInit

\* One input at a time.
Only(input) ==
    /\ scene = "inputs"
    /\ input = "number" \/ (number.digits = <<>> /\ number.at = 2)
    /\ input = "items" \/ items = <<>>
    /\ input = "payload" \/ payload = <<>>
    /\ input = "reply" \/ reply = NoReply
    /\ input = "texts" \/ texts = NoTexts
    /\ input = "spans" \/ spans = <<>>
    /\ UNCHANGED <<scene, detectors, limiter, pages, drift, health>>

NextDigit ==
    /\ Only("number") /\ Len(number.digits) < Varied
    /\ \E d \in Digit : number' = [number EXCEPT !.digits = Append(@, d)]
    /\ UNCHANGED <<items, payload, reply, texts, spans>>

\* A batch with a trace that has no answer, and whose contexts are too long.
Batch == << [trace |-> 1, question |-> 3, answer |-> 0, contexts |-> <<>>],
            [trace |-> 2, question |-> 3, answer |-> 4, contexts |-> <<2, 0, 9, 1>>],
            [trace |-> 3, question |-> 1, answer |-> 4, contexts |-> <<8>>] >>

Values == {NotANumber, 5000, 12000}

\* The judge answers of the trace that its prompt showed under an id, or of an id it made up.
NextItem ==
    /\ Only("items") /\ Len(items) < 3
    /\ \E id \in 1 .. 4, f \in Values, r \in Values :
         items' = Append(items, [id |-> id,
                    about |-> IF id \in DOMAIN PromptIds(Batch) THEN PromptIds(Batch)[id] ELSE 0,
                    scores |-> [faithfulness |-> f, answer_relevancy |-> r]])
    /\ UNCHANGED <<number, payload, reply, texts, spans>>

\* What a producer of any version may put in a field; an error may be long, have been
\* clipped already, or have no message.
Errors == { [message |-> Whole(ErrorLimit + 2), cause |-> Whole(1)],
            [stack |-> [shown |-> ErrorLimit, cut |-> 5]], [message |-> Nonsense], Garbage }
Fields ==
    [schema_version |-> {0, 1, 2, 3, Nonsense}, trace_id |-> {"tr"},
     type |-> {"trace.end", "rumour"}, event_type |-> {"span.start"}, kind |-> {"llm", "rumour"},
     name |-> {"triage", Nonsense}, node |-> {"reply"}, tenant_id |-> {"", "acme"},
     started_at |-> {Garbage}, prompt_tokens |-> {-3, 2, Nonsense}, total_tokens |-> {9},
     usage |-> {Nonsense, [prompt_tokens |-> 4],
                [total_tokens |-> -1, completion_tokens |-> 6, cached_tokens |-> 1]},
     error |-> Errors, model |-> {<<"c", "a", "a", "b">>, <<"b", "a">>, <<"c">>}, shard |-> {7}]

NextField ==
    /\ Only("payload")
    /\ Cardinality(DOMAIN payload \ {"trace_id"}) < 4    \* bound
    /\ \E key \in DOMAIN Fields \ DOMAIN payload : \E value \in Fields[key] :
         payload' = With(payload, key, value)
    /\ UNCHANGED <<number, items, reply, texts, spans>>

\* What three providers call their counts; the second counts no total, the third counts
\* more in it.
Providers ==
    << [prompt_tokens |-> 3, completion_tokens |-> 2, total_tokens |-> 5],
       [input_tokens |-> 3, output_tokens |-> 2],
       [prompt_token_count |-> 3, candidates_token_count |-> 2, total_token_count |-> 6] >>
Zeros == [c \in Counts |-> 0]

InOutput == {"token_usage", "usage", "usage_metadata"}
Places == ((0 .. 2) \X InOutput) \cup ((1 .. 2) \X {"message"})
Namers == {<<0, "model_name">>, <<1, "model">>, <<2, "info">>}

\* A reply fills its places, one after another, with counts, with zeros, or with null.
NextPlace ==
    /\ Only("reply")
    /\ \E p \in 1 .. 3, at \in Places, fill \in {"counts", "zeros", "null"} :
         /\ reply.provider \in {0, p} /\ at \notin DOMAIN reply.filled
         /\ Cardinality(DOMAIN reply.filled) < 2    \* bound
         /\ reply' = [reply EXCEPT !.provider = p, !.filled = With(@, at, fill)]
    /\ UNCHANGED <<number, items, payload, texts, spans>>

NextNamer ==
    /\ Only("reply")
    /\ \E n \in Namers \ reply.named : reply' = [reply EXCEPT !.named = @ \cup {n}]
    /\ UNCHANGED <<number, items, payload, texts, spans>>

\* The answer that is filled so: the fields of the result, and two generations.
AnswerOf(r) ==
    LET fields(at) == CASE r.filled[at] = "counts" -> Providers[r.provider]
                        [] r.filled[at] = "zeros" -> Zeros
                        [] r.filled[at] = "null" -> Nonsense
        dict(n) == [k \in {k \in InOutput : <<n, k>> \in DOMAIN r.filled} |-> fields(<<n, k>>)]
        naming(fs, at, key, letter) ==
          IF at \in r.named THEN With(fs, key, <<letter, "b">>) ELSE fs
    IN  [output |-> naming(dict(0), <<0, "model_name">>, "model_name", "a"),
         generations |-> [g \in 1 .. 2 |->
            [usage |-> IF <<g, "message">> \in DOMAIN r.filled THEN fields(<<g, "message">>)
                       ELSE Nonsense,
             metadata |-> naming(<<>>, <<g, "model">>, "model", "b"),
             info |-> naming(dict(g), <<g, "info">>, "model_name", "c")]]]

NextWord ==
    /\ Only("texts")
    /\ \E t \in DOMAIN texts : \E w \in 1 .. 4 \ texts[t] :
         texts' = [texts EXCEPT ![t] = @ \cup {w}]
    /\ UNCHANGED <<number, items, payload, reply, spans>>

NextSpan ==
    /\ Only("spans")
    /\ \E a \in SpanIds \ DOMAIN spans, parent \in SpanIds \cup {Top}, started \in {Unset, 1, 2} :
         spans' = With(spans, a, [parent |-> parent, started |-> started])
    /\ UNCHANGED <<number, items, payload, reply, texts>>

Next ==
    \/ NextDigit \/ NextItem \/ NextField \/ NextPlace \/ NextNamer \/ NextWord \/ NextSpan
    \/ scene = "detectors" /\ DetectorNext /\ UNCHANGED <<scene, inputs, limiter, pages, drift, health>>
    \/ scene = "limiter" /\ LimiterNext /\ UNCHANGED <<scene, inputs, detectors, pages, drift, health>>
    \/ scene = "pages" /\ PagingNext /\ UNCHANGED <<scene, inputs, detectors, limiter, drift, health>>
    \/ scene = "drift" /\ DriftNext /\ UNCHANGED <<scene, inputs, detectors, limiter, pages, health>>
    \/ scene = "health" /\ HealthNext /\ UNCHANGED <<scene, inputs, detectors, limiter, pages, drift>>

Spec == Init /\ [][Next]_vars

-------------------------------------------------------------------------------
\* The number the digits stand for: a 2, zeros, and the window.
Value == [i \in 1 .. Digits |->
            IF i - number.at + 1 \in DOMAIN number.digits THEN number.digits[i - number.at + 1]
            ELSE IF i = 1 THEN 2 ELSE 0]
Touched == number.at .. number.at + Len(number.digits) - 1
Pairs == {i \in Touched : i + 1 \in Touched /\ Value[i] # Value[i + 1]}

\* The number with the check digits of ISO 13616 for country 0000.
IbanOf(body) ==
    LET check == 98 - Mod97(body \o <<0, 0, 0, 0>>)
    IN  <<0, 0, check \div 10, check % 10>> \o body

\* One wrong digit, and two neighbours that changed places, are noticed by the Verhoeff
\* checksum of an Aadhaar number and by the Luhn checksum of a card, but for Luhn's 09 and
\* 90; an account number with its right check digits, and no other, is an IBAN. It is what
\* keeps an order number from being reported as a card (patterns.py:16-19).
ChecksumsCatch ==
    /\ \A i \in Touched : \A d \in Digit \ {Value[i]} :
         /\ VerhoeffSum(Put(Value, i, d)) # VerhoeffSum(Value)
         /\ LuhnSum(Put(Value, i, d)) % 10 # LuhnSum(Value) % 10
         /\ AadhaarValid(Value) => ~AadhaarValid(Put(Value, i, d))
         /\ LuhnValid(Value) => ~LuhnValid(Put(Value, i, d))
         /\ IbanValid(IbanOf(Value)) /\ ~IbanValid(Put(IbanOf(Value), i + 4, d))
    /\ \A i \in Pairs :
         /\ VerhoeffSum(Swap(Value, i)) # VerhoeffSum(Value)
         /\ {Value[i], Value[i + 1]} # {0, 9} =>
              LuhnSum(Swap(Value, i)) % 10 # LuhnSum(Value) % 10

\* Every trace that could be graded has one verdict, made of nothing but the last thing the
\* judge said of it, its scores between nought and one; the contexts the judge was shown
\* fill the budget and no more (judge.py:413, 425-426, 62-76). The scores of the heuristic
\* judge lie between nought and one too; an answer of which the contexts say nothing has no
\* faithfulness, or half when there are no contexts, and one more word of which they say
\* nothing never raises it (judge.py:233-235).
VerdictsFindTheirTrace ==
  scene = "inputs" =>
    LET verdicts == Verdicts(items, Batch)
        said(t) == {k \in DOMAIN items : items[k].about = t}
    IN  /\ \A s \in {Batch[j] : j \in DOMAIN Batch} :
             Cardinality({i \in DOMAIN verdicts : verdicts[i].trace = s.trace})
               = IF s.answer > 0 THEN 1 ELSE 0
        /\ \A i \in DOMAIN verdicts :
             /\ said(verdicts[i].trace) = {} => verdicts[i].error # ""
             /\ \A m \in DOMAIN verdicts[i].scores :
                  LET last == CHOOSE k \in said(verdicts[i].trace) :
                                \A l \in said(verdicts[i].trace) : l <= k
                      value == items[last].scores[m]
                  IN  /\ value # NotANumber
                      /\ verdicts[i].scores[m] \in 0 .. One
                      /\ value \in 0 .. One => verdicts[i].scores[m] = value
        /\ \A i \in DOMAIN Usable(Batch) :
             LET sum[n \in 0 .. Len(Usable(Batch)[i].contexts)] ==
                   IF n = 0 THEN 0 ELSE sum[n - 1] + Usable(Batch)[i].contexts[n]
             IN  sum[Len(Usable(Batch)[i].contexts)] = MaxContextChars
        /\ texts.answer # {} =>
             LET graded == Heuristic(texts.answer, texts.question, texts.context)
             IN  /\ {graded.faithfulness, graded.answer_relevancy} \subseteq 0 .. One
                 /\ texts.answer \cap texts.context = {} =>
                      graded.faithfulness = IF texts.context = {} THEN One \div 2 ELSE 0
                 /\ \A w \in 1 .. 4 \ texts.context :
                      Heuristic(texts.answer \cup {w}, texts.question, texts.context).faithfulness
                        <= graded.faithfulness

\* A value that no reader takes for the field that it stands in.
Misfit(key, value) ==
    \/ value = Garbage
    \/ value = Nonsense /\ key \in NotNull
    \/ key \in DOMAIN Enums /\ value \notin Enums[key]
    \/ /\ key = "error" /\ value # Nonsense
       /\ \E k \in {"type", "message"} : Has(value, k) /\ value[k] = Nonsense

\* What is kept of an error is what was there, or as much of it as the limit leaves,
\* with a mark.
Tells(kept, was) ==
    \A k \in DOMAIN was :
       \/ kept[k] = was[k]
       \/ /\ k \in {"message", "stack"} /\ Length(was[k]) > ErrorLimit
          /\ kept[k].shown = ErrorLimit /\ kept[k].cut > 0 /\ was[k].shown >= ErrorLimit

\* Reading what was written again changes nothing but the number in the mark of an error
\* that was cut off.
ReadsAgain(event) ==
    LET again == Parse(Encode(event))
    IN  /\ DOMAIN again = DOMAIN event
        /\ \A key \in DOMAIN event \ {"error"} : again[key] = event[key]
        /\ IF event.error = Nonsense THEN again.error = Nonsense
           ELSE Tells(again.error, event.error)

\* A payload is an error exactly if its version is none or below the floor, if it says
\* nothing of its trace or its type, or if a field that the reader knows holds what does not
\* fit it. Otherwise, whatever version it has, its fields keep their values under the names
\* of the version that reads it, and a tenant that is not blank is kept; tokens given one by
\* one or nested count the same, and a count is never negative; a field, a count or a detail
\* of an error that this reader does not know is not lost; what is cut off of an error
\* leaves a mark, and reading what was written again changes no more than its number. What
\* is stored as the cost is the cost of the tokens by the longest key that fits, and never
\* negative.
PayloadSurvives(p, v) ==
    LET event == Parse([v |-> v, data |-> p])
        version == Get(p, "schema_version", IF v = Nonsense THEN 1 ELSE v)
        old == version = 1
        said(key) ==
          IF Has(p, key) THEN {p[key]}
          ELSE IF old /\ key = "type" /\ Has(p, "event_type") THEN {p["event_type"]}
          ELSE IF old /\ key = "name" /\ Has(p, "node") THEN {p["node"]}
          ELSE {}
        flat(c) == Get(p, c, 0)
    IN  /\ Fails(event) <=>
             \/ version = Nonsense
             \/ version < MinSupported
             \/ said("trace_id") = {} \/ said("type") = {}
             \/ \E key \in Known \ {"schema_version"} : \E value \in said(key) : Misfit(key, value)
        /\ ~Fails(event) =>
             /\ \A key \in Known \ {"schema_version", "tenant_id", "usage", "error"} :
                  said(key) \subseteq {event[key]}
             /\ said("tenant_id") \subseteq {event.tenant_id, ""}
             /\ event.usage # Nonsense => \A c \in Counts : event.usage[c] >= 0
             /\ old /\ ~Has(p, "usage") /\ Counts \cap DOMAIN p # {} =>
                  /\ event.usage # Nonsense
                  /\ event.usage["prompt_tokens"] = Coerced(flat("prompt_tokens"))
                  /\ event.usage["total_tokens"] >= Coerced(flat("total_tokens"))
             /\ \A usage \in said("usage") \ {Nonsense} : \A k \in DOMAIN usage \ Counts :
                  event.usage[k] = usage[k]
             /\ \A error \in said("error") \ {Nonsense} : Tells(event.error, error)
             /\ \A key \in DOMAIN p \ (Known \cup Counts \cup {"node", "event_type"}) :
                  event[key] = p[key]
             /\ ReadsAgain(event)
             /\ CostOf(event) >= 0
             /\ event.model # Nonsense /\ event.usage # Nonsense =>
                  \A k \in DOMAIN Prices :
                     HasPart(event.model, k) =>
                       \E l \in DOMAIN Prices :
                          /\ HasPart(event.model, l) /\ Len(l) >= Len(k)
                          /\ 1000 * CostOf(event) \in
                               LET exact == event.usage["prompt_tokens"] * Prices[l].input
                                            + event.usage["completion_tokens"] * Prices[l].output
                               IN  exact - 500 .. exact + 500

\* Whoever answers, and wherever the answer has its counts: what is read of the event that
\* reports it are these counts, the model that answered or, if it does not say, the one
\* that was asked for, and what they cost.
ReplySurvives ==
    LET told == {at \in DOMAIN reply.filled : reply.filled[at] = "counts"}
        start == [model |-> <<"b">>]
        end == Parse(Encode(LlmEnd(ModelOf(<<>>, <<>>, start, <<>>), AnswerOf(reply))))
    IN  /\ end.usage = IF told = {} THEN Nonsense
                       ELSE [prompt_tokens |-> 3, completion_tokens |-> 2,
                             total_tokens |-> IF reply.provider = 3 THEN 6 ELSE 5]
        /\ end.model = IF <<0, "model_name">> \in reply.named THEN <<"a", "b">>
                       ELSE IF <<1, "model">> \in reply.named THEN <<"b", "b">>
                       ELSE IF <<2, "info">> \in reply.named THEN <<"c", "b">>
                       ELSE <<"b">>
        /\ CostOf(end) = IF told = {} THEN 0 ELSE CostMicros(end.model, 3, 2)

\* What one producer said survives every reader (schema.py:222-223, 300-304), and so does
\* the answer of a model in the event that reports it (langchain.py:783-789).
FactsSurvive ==
    scene = "inputs" =>
        /\ \A v \in {2, Nonsense} : PayloadSurvives(payload, v)
        /\ reply # NoReply => ReplySurvives

\* The chain of parents of a span comes back to itself.
Circles(a) ==
    LET climb[n \in 0 .. Cardinality(SpanIds)] ==
          IF n = 0 THEN a
          ELSE IF climb[n - 1] \in DOMAIN spans THEN spans[climb[n - 1]].parent ELSE Top
    IN  climb[Cardinality(SpanIds)] \in DOMAIN spans

\* No span of a run that went wrong is hidden from its tree: each is shown once, right
\* below its parent; at the top are those whose parent is not there and, after all others,
\* those whose parents run in a circle, and siblings come in the order in which they
\* started (serializers.py:146-149, 163).
EverySpanShown ==
    LET shown == OrderSpans(spans)
        of(i) == shown[i].span
        above(i) == {j \in 1 .. i - 1 : shown[j].depth < shown[i].depth}
    IN  /\ Len(shown) = Cardinality(DOMAIN spans)
        /\ {of(i) : i \in DOMAIN shown} = DOMAIN spans
        /\ \A i \in DOMAIN shown :
             IF shown[i].depth = 0
             THEN spans[of(i)].parent \in DOMAIN spans => Circles(of(i))
             ELSE \E j \in above(i) :
                    /\ \A k \in above(i) : k <= j
                    /\ spans[of(i)].parent = of(j) /\ shown[i].depth = shown[j].depth + 1
        /\ \A i, j \in DOMAIN shown :
             /\ i < j /\ shown[i].depth = shown[j].depth
             /\ shown[i].depth > 0 => spans[of(i)].parent = spans[of(j)].parent
             => IF Circles(of(i)) = Circles(of(j)) THEN Sooner(spans, of(i), of(j))
                ELSE Circles(of(j))

==============================================================================
