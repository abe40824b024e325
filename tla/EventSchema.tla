----------------------------- MODULE EventSchema -----------------------------
(***************************************************************************)
(* obs_sdk/schema.py and pricing.py: how a consumer reads an event of any  *)
(* version, and what the call that the event reports costs. A payload, and *)
(* the event that is read from it, is a function from the keys it has. A   *)
(* null, or a count that is no number, is Nonsense; what has not the type  *)
(* of its field is Garbage. The name of a model is the sequence of its     *)
(* letters; a text is how many of its characters are there, and what the   *)
(* mark at its end says was cut off.                                       *)
(***************************************************************************)
EXTENDS Integers, Sequences, FiniteSets

CONSTANTS
    Nonsense,         \* null, and what is not a number
    Garbage,          \* what has not the type of its field
    Details,          \* what a provider counts, or an error tells, beside what is known
    Letters,          \* what the names of models are made of
    ErrorLimit,       \* MAX_STACK_CHARS, and the limit of a message
    SchemaVersion,    \* SCHEMA_VERSION
    MinSupported,     \* MIN_SUPPORTED_SCHEMA_VERSION
    Prices            \* the price table: key -> [input, output], thousandths of a USD per 1M tokens

EventTypes == {"trace.start", "trace.end", "span.start", "span.end"}
SpanKinds == {"agent", "chain", "llm", "tool", "retriever", "guardrail", "other"}
SpanStatuses == {"running", "ok", "error"}
Counts == {"prompt_tokens", "completion_tokens", "total_tokens"}

\* ObsEvent: the fields that a reader knows, with those that cannot be null, and the values
\* of those that nobody sent: null, but for these.
Enums == [type |-> EventTypes, kind |-> SpanKinds, status |-> SpanStatuses]
Required == {"trace_id", "type"}
Defaults ==
    [schema_version |-> SchemaVersion, event_id |-> "new", emitted_at |-> "now",
     tenant_id |-> "default", kind |-> "other", name |-> "", status |-> "running",
     input |-> "{}", output |-> "{}", attributes |-> "{}",
     environment |-> "local", service |-> "unknown", sdk_version |-> "1.0.0"]
NotNull == Required \cup DOMAIN Defaults
Known == NotNull \cup {"span_id", "parent_span_id", "started_at", "ended_at", "latency_ms",
                       "error", "usage", "model", "session_id", "user_ref"}

Text == [shown : Nat, cut : Nat]
Whole(n) == [shown |-> n, cut |-> 0]
\* ErrorInfo, when nothing is said of the error.
NoError == [type |-> Whole(9), message |-> Whole(0), stack |-> Nonsense]

\* A null and a garbage are neither a number, a text, the name of a model nor a table of them.
ASSUME EventSchemaAssumption ==
    /\ {SchemaVersion, MinSupported, ErrorLimit} \subseteq Nat \ {0}
    /\ MinSupported <= SchemaVersion
    /\ Nonsense # Garbage
    /\ \A x \in {Nonsense, Garbage} :
         /\ x \notin Int /\ x \notin Seq(Letters) /\ x \notin Text /\ x \notin EventTypes
         /\ \A k \in DOMAIN Defaults : x # Defaults[k]
         /\ \A keys \in SUBSET (Counts \cup Details) : x \notin [keys -> Int \cup {Nonsense}]
         /\ \A keys \in SUBSET (DOMAIN NoError \cup Details) : x \notin [keys -> Text \cup {Nonsense}]
    /\ \A k \in DOMAIN Prices : k \in Seq(Letters) /\ Prices[k] \in [input : Nat, output : Nat]

Has(payload, key) == key \in DOMAIN payload

\* An exception instead of a payload or an event.
SchemaError == [raised |-> "SchemaError"]
SchemaTooOldError == [raised |-> "SchemaTooOldError"]
ValidationError == [raised |-> "ValidationError"]
ValueError == [raised |-> "ValueError"]
Fails(result) == Has(result, "raised")

Without(payload, keys) == [k \in DOMAIN payload \ keys |-> payload[k]]
With(payload, key, value) ==
    [k \in DOMAIN payload \cup {key} |-> IF k = key THEN value ELSE payload[k]]
Get(payload, key, default) == IF Has(payload, key) THEN payload[key] ELSE default

-------------------------------------------------------------------------------
(* Version upgrades                                                        *)

\* Flat token counts go under "usage", unless it is there already.
NestUsage(p) ==
    IF Has(p, "usage") \/ Counts \cap DOMAIN p = {} THEN p
    ELSE With(Without(p, Counts), "usage", [c \in Counts |-> Get(p, c, 0)])

Renamed(p, old, new) ==
    IF Has(p, old) /\ ~Has(p, new) THEN With(Without(p, {old}), new, p[old]) ELSE p

\* Mutant of UpgradeV1toV2: the name is not carried over.
UpgradeUsageOnly(p) == With(Renamed(NestUsage(p), "event_type", "type"), "schema_version", 2)

\* _upgrade_v1_to_v2
UpgradeV1toV2(p) ==
    With(Renamed(Renamed(NestUsage(p), "node", "name"), "event_type", "type"),
         "schema_version", 2)

\* _UPGRADES has the one step; a version that it does not name has no path.
Step(p, version) == IF version = 1 THEN UpgradeV1toV2(p) ELSE SchemaError

\* upgrade_payload: step by step to the current version; what is newer is left untouched.
Upgrade(p) ==
    LET version == Get(p, "schema_version", 1)
        at[v \in version .. SchemaVersion] ==
          IF v = version THEN p
          ELSE IF Fails(at[v - 1]) THEN at[v - 1] ELSE Step(at[v - 1], v - 1)
    IN  IF version = Nonsense THEN SchemaError
        ELSE IF version < MinSupported THEN SchemaTooOldError
        ELSE IF version >= SchemaVersion THEN p
        ELSE at[SchemaVersion]

-------------------------------------------------------------------------------
(* The event                                                               *)

\* Usage._coerce and model_post_init: a count that is missing or makes no sense is zero,
\* the total is added up when nobody gave one, and other counts are kept.
Coerced(n) == IF n = Nonsense \/ n < 0 THEN 0 ELSE n
UsageOf(u) ==
    LET count(c) == Coerced(Get(u, c, 0))
        total == count("total_tokens")
    IN  [c \in Counts \cup DOMAIN u |->
           IF c = "total_tokens" /\ total = 0
           THEN count("prompt_tokens") + count("completion_tokens")
           ELSE IF c \in Counts THEN count(c) ELSE u[c]]

\* clip: the mark has 21 characters, "...[truncated " and " chars]", and the digits of its
\* number; it is part of a text that is clipped again.
MarkLength(n) == 21 + Cardinality({d \in 0 .. 9 : 10^d <= n})
Length(t) == t.shown + (IF t.cut = 0 THEN 0 ELSE MarkLength(t.cut))
\* Mutant of Clip: what is cut off leaves no mark.
ClipUnmarked(t) == IF Length(t) <= ErrorLimit THEN t ELSE Whole(ErrorLimit)

Clip(t) ==
    IF Length(t) <= ErrorLimit THEN t ELSE [shown |-> ErrorLimit, cut |-> Length(t) - ErrorLimit]

\* ErrorInfo._clip_message, _clip_stack
ErrorOf(x) ==
    [k \in DOMAIN x \cup DOMAIN NoError |->
       LET said == IF Has(x, k) THEN x[k] ELSE NoError[k]
       IN  IF k \in {"message", "stack"} /\ said # Nonsense THEN Clip(said) ELSE said]

\* Mutant of Accepts: an unknown kind of span is not refused.
AcceptsKinds(key, value) ==
    /\ key \in Known => value # Garbage
    /\ key \in NotNull => value # Nonsense
    /\ key = "type" => value \in EventTypes
    /\ key = "error" /\ value \notin {Nonsense, Garbage} =>
         Nonsense \notin {Get(value, "type", ""), Get(value, "message", "")}

\* What the validation takes for a field; a field that is not known takes anything.
Accepts(key, value) ==
    /\ key \in Known => value # Garbage
    /\ key \in NotNull => value # Nonsense
    /\ key \in DOMAIN Enums => value \in Enums[key]
    /\ key = "error" /\ value \notin {Nonsense, Garbage} =>
         Nonsense \notin {Get(value, "type", ""), Get(value, "message", "")}

Valid(p) == Required \subseteq DOMAIN p /\ \A key \in DOMAIN p : Accepts(key, p[key])

\* What an event has for a field: a blank tenant is the default one.
Read(key, value) ==
    IF key = "tenant_id" /\ value = "" THEN "default"
    ELSE IF key = "usage" /\ value # Nonsense THEN UsageOf(value)
    ELSE IF key = "error" /\ value # Nonsense THEN ErrorOf(value)
    ELSE value

\* ObsEvent, of a payload that is valid; what this reader does not know is kept as it is.
Event(p) ==
    [key \in Known \cup DOMAIN p |->
       IF Has(p, key) THEN Read(key, p[key]) ELSE Get(Defaults, key, Nonsense)]

\* parse_event
ParseEvent(p) ==
    LET current == Upgrade(p)
    IN  IF Fails(current) THEN current
        ELSE IF ~Valid(current) THEN ValidationError
        ELSE Event(current)

\* encode_event, to_json: all the fields that the event has, known or not, in one object; the
\* version stands beside it, too.
Encode(e) == [v |-> e.schema_version, data |-> e]

\* decode_event_fields: an entry without a JSON object is an error; the version beside an
\* object that has none of its own is its.
Decode(entry) ==
    IF ~Has(entry, "data") THEN ValueError
    ELSE IF Has(entry.data, "schema_version") \/ entry.v = Nonsense THEN entry.data
    ELSE With(entry.data, "schema_version", entry.v)

\* StreamConsumer.parse, of one entry of the stream.
Parse(entry) == IF Fails(Decode(entry)) THEN Decode(entry) ELSE ParseEvent(Decode(entry))

-------------------------------------------------------------------------------
(* pricing.py                                                              *)

HasPart(name, key) ==
    \E i \in 0 .. Len(name) - Len(key) : SubSeq(name, i + 1, i + Len(key)) = key

\* Mutant of Lookup: the first key that fits.
LookupAny(name) ==
    LET fits == {k \in DOMAIN Prices : HasPart(name, k)}
    IN  IF fits = {} THEN <<>>
        ELSE Prices[CHOOSE k \in fits : \A j \in fits : Len(k) <= Len(j)]

\* lookup: the longest key that the name contains; for two of one length, either.
Lookup(name) ==
    LET fits == {k \in DOMAIN Prices : HasPart(name, k)}
    IN  IF fits = {} THEN <<>>
        ELSE Prices[CHOOSE k \in fits : \A j \in fits : Len(j) <= Len(k)]

NoLess(n) == IF n < 0 THEN 0 ELSE n

\* round() of thousandths, half to even.
Rounded(n) ==
    LET whole == n \div 1000
        rest == n % 1000
    IN  IF rest > 500 \/ (rest = 500 /\ whole % 2 = 1) THEN whole + 1 ELSE whole

\* cost_micros: a model without a price costs nothing.
CostMicros(name, prompt, completion) ==
    LET price == Lookup(name)
    IN  IF price = <<>> THEN 0
        ELSE Rounded(NoLess(prompt) * price.input + NoLess(completion) * price.output)

\* _span_row: what the storage writer stores as the cost of an event.
CostOf(event) ==
    IF event.model = Nonsense THEN 0
    ELSE IF event.usage = Nonsense THEN CostMicros(event.model, 0, 0)
    ELSE CostMicros(event.model, event.usage["prompt_tokens"], event.usage["completion_tokens"])
==============================================================================
