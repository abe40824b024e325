----------------------------- MODULE ModelUsage ------------------------------
(***************************************************************************)
(* obs_sdk/langchain.py: what the handler reads of the answer of a model.  *)
(* An answer has "output", the fields of the result, and "generations",    *)
(* each with the usage and the metadata of its message, and its "info";    *)
(* providers put the counts, under names of their own, into any of them.   *)
(***************************************************************************)
EXTENDS EventSchema

\* The names providers have for a count, in the order they are tried.
Spellings ==
    [prompt_tokens     |-> <<"prompt_tokens", "input_tokens", "prompt_token_count">>,
     completion_tokens |-> <<"completion_tokens", "output_tokens", "candidates_token_count">>,
     total_tokens      |-> <<"total_tokens", "total_token_count">>]

CountNames == UNION {{Spellings[c][i] : i \in DOMAIN Spellings[c]} : c \in Counts}

\* Null is not a table of counts, and a trace has a name.
ASSUME ModelUsageAssumption ==
    /\ \A names \in SUBSET CountNames : Nonsense \notin [names -> Int \cup {Nonsense}]
    /\ "trace" \notin {Nonsense, Garbage}

\* The first of some values that is one.
FirstOf(values) ==
    LET told == {i \in DOMAIN values : values[i] # Nonsense}
    IN  IF told = {} THEN Nonsense ELSE values[CHOOSE i \in told : \A j \in told : i <= j]

FirstUnder(names, fields) ==
    FirstOf([i \in DOMAIN names |-> Get(fields, names[i], Nonsense)])

\* Mutant of Pick: the names of one provider only.
PickOne(fields, count) == Get(fields, count, 0)

\* pick
Pick(fields, count) ==
    LET n == FirstUnder(Spellings[count], fields)
    IN  IF n = Nonsense THEN 0 ELSE n

\* normalize_usage: no fields, or counts that are all zero, say nothing.
NormalizeUsage(fields) ==
    LET counts == [c \in Counts |-> Pick(fields, c)]
    IN  IF fields = Nonsense \/ \A c \in Counts : counts[c] = 0 THEN Nonsense
        ELSE UsageOf(counts)

\* The first of some places that counts something.
FirstCount(places) == FirstOf([i \in DOMAIN places |-> NormalizeUsage(places[i])])

\* The counts of the result, and of a generation, in the order in which they are read.
UsageOfResult(output) ==
    FirstCount(<<Get(output, "token_usage", Nonsense), Get(output, "usage", Nonsense),
                 Get(output, "usage_metadata", Nonsense)>>)
UsageOfGeneration(g) ==
    FirstCount(<<g.usage, Get(g.info, "usage_metadata", Nonsense),
                 Get(g.info, "token_usage", Nonsense), Get(g.info, "usage", Nonsense)>>)

ModelIn(fields) == FirstUnder(<<"model_name", "model">>, fields)

ModelOfGeneration(g) == FirstOf(<<ModelIn(g.metadata), ModelIn(g.info)>>)

\* Mutant of ExtractUsage: the generations are not looked at.
UsageOfOutput(answer) ==
    [usage |-> UsageOfResult(answer.output), model |-> ModelIn(answer.output)]

\* extract_usage: the first place that counts something, the first that names the model, in
\* the result and then in its generations.
ExtractUsage(answer) ==
    LET places == 0 .. Len(answer.generations)
    IN  [usage |-> FirstOf([g \in places |->
                      IF g = 0 THEN UsageOfResult(answer.output)
                      ELSE UsageOfGeneration(answer.generations[g])]),
         model |-> FirstOf([g \in places |->
                      IF g = 0 THEN ModelIn(answer.output)
                      ELSE ModelOfGeneration(answer.generations[g])])]

\* _model_of: the model a run was started with.
ModelOf(metadata, arguments, serialized, invocation) ==
    LET names == <<"ls_model_name", "model_name", "model", "model_id", "deployment_name">>
    IN  FirstOf(<<FirstUnder(names, metadata), FirstUnder(names, arguments),
                  FirstUnder(names, serialized),
                  FirstUnder(<<"model_name", "model", "model_id">>, invocation)>>)

\* on_llm_end, _event: what is published when a run that was started with a model ends.
LlmEnd(started, answer) ==
    LET told == ExtractUsage(answer)
    IN  Event([trace_id |-> "trace", type |-> "span.end", usage |-> told.usage,
               model |-> FirstOf(<<told.model, started>>)])
==============================================================================
