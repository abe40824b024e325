-------------------------------- MODULE Tracer --------------------------------
(***************************************************************************)
(* Hand-written instrumentation: the trace and span blocks of              *)
(* obs_sdk/tracer.py over the two context variables of obs_sdk/context.py, *)
(* and SupportPilot's observability.py, which opens its blocks with them.  *)
(* A context variable belongs to one thread (or task); a thread that is    *)
(* started from another may begin with a copy of its context.              *)
(***************************************************************************)
EXTENDS Naturals, Sequences, FiniteSets, SequencesExt

CONSTANTS
    Threads,
    AgentTraces,  \* trace ids computed from an agent run's id: the same in every thread
    MaxTraces,    \* bound: trace ids minted by new_trace_id
    MaxSpans,     \* bound: span ids minted by new_span_id
    MaxOpened     \* bound: blocks, and LangChain runs, opened

ASSUME TracerAssumption ==
    /\ IsFiniteSet(Threads)
    /\ MaxTraces \in Nat /\ MaxSpans \in Nat /\ MaxOpened \in Nat
    /\ AgentTraces \cap (0 .. MaxTraces) = {}

VARIABLES
    running,   \* threads (and tasks) that have started
    context,   \* thread -> the values of its context variables
    base,      \* thread -> the context it was started with
    blocks,    \* thread -> the with-blocks it is inside of, outermost first
    opened,    \* blocks and runs opened so far, for their bound
    spans,     \* span id -> what has been published of it
    minted,    \* trace ids minted so far
    brackets   \* trace -> trace.start events less trace.end events

tracerVars == <<running, context, base, blocks, opened, spans, minted, brackets>>

None == 0
Minted == 1 .. MaxTraces
Traces == AgentTraces \cup Minted
SpanIds == 1 .. MaxSpans

\* Trace and span of context.py, the open LLM operation of observability.py.
Context == [trace: Traces \cup {None}, span: 0 .. MaxSpans, llm: 0 .. MaxSpans]
NoContext == [trace |-> None, span |-> 0, llm |-> 0]

\* "made": known to the SDK and not published, as a LangChain run is for a moment.
SpanRec == [trace: Traces, parent: 0 .. MaxSpans, usage: BOOLEAN,
            state: {"made", "open", "ended"}]

\* What a block sets, it resets to the outer value on its way out.
Block == [trace: Traces \cup {None}, span: 0 .. MaxSpans, outer: Context,
          sets: SUBSET {"trace", "span", "llm"}, brackets: BOOLEAN]

TracerInit ==
    /\ running = {}
    /\ context = [th \in Threads |-> NoContext]
    /\ base = [th \in Threads |-> NoContext]
    /\ blocks = [th \in Threads |-> <<>>]
    /\ opened = 0 /\ spans = <<>>
    /\ minted = 0
    /\ brackets = [t \in Traces |-> 0]

-------------------------------------------------------------------------------
NewSpan(t, parent) ==
    [trace |-> t, parent |-> parent, usage |-> FALSE, state |-> "open"]

Opens == opened < MaxOpened /\ opened' = opened + 1

Enter(th, block, inner) ==
    /\ Opens
    /\ blocks' = [blocks EXCEPT ![th] = Append(@, block)]
    /\ context' = [context EXCEPT ![th] = inner]

\* Mutant of Leave: the trace of a span opened outside any trace stays.
LeaveKeepsTrace(th) ==
    /\ blocks' = [blocks EXCEPT ![th] = Front(@)]
    /\ context' = [context EXCEPT ![th].span = Last(blocks[th]).outer.span,
                                  ![th].llm = Last(blocks[th]).outer.llm]

\* Every token of the block is reset, whether its body returned or raised.
Leave(th) ==
    LET b == Last(blocks[th])
        c == context[th]
    IN  /\ blocks' = [blocks EXCEPT ![th] = Front(@)]
        /\ context' = [context EXCEPT ![th] =
              [trace |-> IF "trace" \in b.sets THEN b.outer.trace ELSE c.trace,
               span  |-> IF "span" \in b.sets THEN b.outer.span ELSE c.span,
               llm   |-> IF "llm" \in b.sets THEN b.outer.llm ELSE c.llm]]

\* A trace id: t itself, or one that is new.
Mint(t) ==
    \/ t \in AgentTraces /\ UNCHANGED minted
    \/ t = minted + 1 /\ t \in Minted /\ minted' = t

\* The context inside Tracer.trace: no span of the outer trace is a parent here.
InTrace(th, t) == [context[th] EXCEPT !.trace = t, !.span = 0]

\* Tracer.trace: trace.start, then the block.
OpenTrace(th, t) ==
    /\ Mint(t)
    /\ Enter(th, [trace |-> t, span |-> 0, outer |-> context[th],
                  sets |-> {"trace", "span"}, brackets |-> TRUE], InTrace(th, t))
    /\ brackets' = [brackets EXCEPT ![t] = @ + 1]
    /\ UNCHANGED <<running, base, spans>>

\* observe_agent_run: a Tracer.trace under the id computed from the run's, by the run
\* and again by each resume of it.
ObserveAgentRun(th, t) == t \in AgentTraces /\ OpenTrace(th, t)

\* The finally of Tracer.trace: trace.end, then the two tokens.
CloseTrace(th) ==
    /\ blocks[th] # <<>>
    /\ Last(blocks[th]).brackets
    /\ brackets' = [brackets EXCEPT ![Last(blocks[th]).trace] = @ - 1]
    /\ Leave(th)
    /\ UNCHANGED <<running, base, opened, spans, minted>>

\* The parent of a span opened now for trace t: the open span, unless the caller
\* pins the span to a trace that is not the current one.
ParentFor(th, t, pinned) ==
    IF context[th].trace = t \/ ~pinned THEN context[th].span ELSE 0

\* Tracer.span: pinned to trace t, in the current trace, or, outside any trace, in a
\* new one that becomes the context of what it contains.
OpenSpan(th, t, pinned) ==
    LET c == context[th]
    IN  /\ Len(spans) < MaxSpans
        /\ IF pinned THEN t \in AgentTraces /\ UNCHANGED minted
           ELSE IF c.trace # None THEN t = c.trace /\ UNCHANGED minted
           ELSE t \in Minted /\ Mint(t)
        /\ spans' = Append(spans, NewSpan(t, ParentFor(th, t, pinned)))
        /\ Enter(th, [trace |-> t, span |-> Len(spans) + 1, outer |-> c, brackets |-> FALSE,
                      sets |-> IF c.trace = t THEN {"span"} ELSE {"span", "trace"}],
                 [c EXCEPT !.trace = t, !.span = Len(spans) + 1])
        /\ UNCHANGED <<running, base, brackets>>

\* trace_context, which leaves the open span alone.
InScope(th, t) == [context[th] EXCEPT !.trace = t]

\* observe_operation: a scope for the run its metadata names, then Tracer.span
\* inside it. Without a run it joins the open trace, and outside any trace it publishes
\* nothing and opens no block.
OpenOperation(th, t, named, llm) ==
    LET c == IF named THEN InScope(th, t) ELSE context[th]
        s == Len(spans) + 1
    IN  /\ Len(spans) < MaxSpans
        /\ t = c.trace /\ (named => t \in AgentTraces)
        /\ spans' = Append(spans, NewSpan(t, c.span))
        /\ Enter(th, [trace |-> t, span |-> s, outer |-> context[th], brackets |-> FALSE,
                      sets |-> {"span"} \cup (IF named THEN {"trace"} ELSE {})
                                        \cup (IF llm THEN {"llm"} ELSE {})],
                 [c EXCEPT !.span = s, !.llm = IF llm THEN s ELSE @])
        /\ UNCHANGED <<running, base, minted, brackets>>

\* The end of a span's block, or of an operation's: the tokens, and span.end.
CloseSpan(th) ==
    /\ blocks[th] # <<>>
    /\ ~Last(blocks[th]).brackets
    /\ spans' = [spans EXCEPT ![Last(blocks[th]).span].state = "ended"]
    /\ Leave(th)
    /\ UNCHANGED <<running, base, opened, minted, brackets>>

\* record_llm_usage: the tokens of an answer go to the operation that is open; once
\* its span.end is out they reach nobody.
RecordUsage(th) ==
    LET s == context[th].llm
    IN  /\ s # 0 /\ spans[s].state = "open"
        /\ spans' = [spans EXCEPT ![s].usage = TRUE]
        /\ UNCHANGED <<running, context, base, blocks, opened, minted, brackets>>

\* A thread starts with empty context variables, a task with a copy of its parent's.
Begin(th, c) ==
    /\ th \notin running /\ running' = running \cup {th}
    /\ base' = [base EXCEPT ![th] = c]
    /\ context' = [context EXCEPT ![th] = c]
    /\ UNCHANGED <<blocks, opened, spans, minted, brackets>>

StartThread(th) == Begin(th, NoContext)
StartTask(th, from) == from \in running /\ Begin(th, context[from])

TracerNext(th) ==
    \/ /\ th \in running
       /\ \/ \E t \in Minted : OpenTrace(th, t)
          \/ \E t \in AgentTraces : ObserveAgentRun(th, t)
          \/ CloseTrace(th)
          \/ \E t \in Traces, pinned \in BOOLEAN : OpenSpan(th, t, pinned)
          \/ \E t \in Traces, named, llm \in BOOLEAN : OpenOperation(th, t, named, llm)
          \/ CloseSpan(th)
          \/ RecordUsage(th)
    \/ StartThread(th)
    \/ \E from \in Threads : StartTask(th, from)
===============================================================================
