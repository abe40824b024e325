------------------------------ MODULE LangChain ------------------------------
(***************************************************************************)
(* obs_sdk/langchain.py: one callback handler shared by threads, over the  *)
(* contexts and the spans of Tracer. The host (LangChain) begins runs,     *)
(* each under a parent or none, and ends them at most once; a run whose    *)
(* graph crashed never ends. A hook works on the run table under a lock    *)
(* and publishes the span's event after it let the lock go.                *)
(***************************************************************************)
EXTENDS Tracer

CONSTANTS
    Runs,           \* the host's runs
    KindsOf,        \* run -> what it may be: "llm", "chain", "tool", "retriever"
    HostsOf,        \* run -> the runs (None too) the host may begin it under
    DefaultTrace,   \* the handler's trace_id argument, or None
    MaxTracked      \* max_tracked_runs

ASSUME LangChainAssumption ==
    /\ KindsOf \in [Runs -> SUBSET {"llm", "chain", "tool", "retriever"}]
    /\ None \notin Runs
    /\ HostsOf \in [Runs -> SUBSET (Runs \cup {None})]
    /\ DefaultTrace \in AgentTraces \cup {None}
    /\ MaxTracked \in Nat \ {0}

VARIABLES
    table,     \* _runs: the in-flight runs, oldest first
    rollups,   \* _traces: trace -> the roll-up of its open trace
    hook,      \* thread -> the hook it is inside of, past the lock
    began,     \* run -> its entry when it began (the host's view), or nothing
    over,      \* the runs the host has ended
    evicted,   \* the runs the table has pushed out
    shared     \* traces that two roots have held at once

chainVars == <<table, rollups, hook, began, over, evicted, shared>>
vars == <<tracerVars, chainVars>>

\* A _Run. parent is the span its own is nested in; bad: a field of its events is not
\* what the schema accepts (an identifier in the metadata that is no string), which
\* it has from its root, and no event of it can be built.
Run == [id: Runs, host: Runs \cup {None}, trace: Traces, span: 0 .. MaxSpans,
        parent: 0 .. MaxSpans, root: BOOLEAN, bad: BOOLEAN]
Rollup == [root: Runs, bad: BOOLEAN]
Hook == [at: {"start", "end", "close"}, run: Run]
NoRun == <<>>
Idle == <<>>

Init ==
    /\ TracerInit
    /\ table = <<>> /\ rollups = <<>>
    /\ hook = [th \in Threads |-> Idle]
    /\ began = [r \in Runs |-> NoRun]
    /\ over = {} /\ evicted = {} /\ shared = {}

-------------------------------------------------------------------------------
Tracked(r) == \E i \in DOMAIN table : table[i].id = r
Place(r) == CHOOSE i \in DOMAIN table : table[i].id = r
Entry(r) == table[Place(r)]
InHook(r) == \E th \in Threads : hook[th] # Idle /\ hook[th].run.id = r
Alive(r) == began[r] # NoRun /\ r \notin over

\* Mutant of Register: skipped runs are left out of the table.
RegisterKept(run) ==
    /\ table' = IF run.span = 0 THEN table ELSE Append(table, run)
    /\ UNCHANGED evicted

\* _register: the newest goes in, the oldest goes out of a full table.
Register(run) ==
    LET longer == Append(table, run)
    IN  IF Len(longer) > MaxTracked
        THEN table' = Tail(longer) /\ evicted' = evicted \cup {Head(longer).id}
        ELSE table' = longer /\ UNCHANGED evicted

\* The trace of a root: named by its metadata, else the handler's, the context's or new.
RootTrace(th, meta, t) ==
    IF meta # None THEN t = meta /\ UNCHANGED minted
    ELSE IF DefaultTrace # None THEN t = DefaultTrace /\ UNCHANGED minted
    ELSE IF context[th].trace # None THEN t = context[th].trace /\ UNCHANGED minted
    ELSE t \in Minted /\ Mint(t)

\* The span its children are put under: the parent's, or the one the parent has itself
\* when it was skipped.
ParentSpan(p) == IF p.span # 0 THEN p.span ELSE p.parent

\* A root opens a roll-up for its trace, in place of one that is there.
OpenRollup(run) ==
    /\ rollups' = [t \in DOMAIN rollups \cup {run.trace} |->
                     IF t = run.trace THEN [root |-> run.id, bad |-> run.bad] ELSE rollups[t]]
    /\ shared' = IF run.trace \in DOMAIN rollups THEN shared \cup {run.trace} ELSE shared

\* A root's trace.start is published under the lock: an event that cannot be built
\* raises out of the hook there, before its span.
StartsTrace(run) == run.root /\ ~run.bad

\* _start_run: a run whose parent is not in the table is a root, whatever the host says.
StartRun(th, r, host, meta, t, skip, bad) ==
    LET inherits == host # None /\ Tracked(host)
        p == Entry(host)
        s == Len(spans) + 1
        run == [id |-> r, host |-> host, trace |-> t, root |-> ~inherits,
                span |-> IF skip THEN 0 ELSE s,
                parent |-> IF inherits THEN ParentSpan(p) ELSE context[th].span,
                bad |-> IF inherits THEN p.bad ELSE bad]
    IN  /\ hook[th] = Idle /\ began[r] = NoRun /\ Opens
        /\ host # None => Alive(host) /\ ~InHook(host)
        /\ inherits => t = p.trace /\ meta = None /\ ~bad /\ UNCHANGED minted
        /\ ~inherits => RootTrace(th, meta, t)
        /\ skip \/ Len(spans) < MaxSpans
        /\ Register(run)
        /\ spans' = IF skip THEN spans
                    ELSE Append(spans, [NewSpan(t, run.parent) EXCEPT !.state = "made"])
        /\ IF run.root THEN OpenRollup(run) ELSE UNCHANGED <<rollups, shared>>
        /\ brackets' = IF StartsTrace(run) THEN [brackets EXCEPT ![t] = @ + 1] ELSE brackets
        /\ hook' = [hook EXCEPT ![th] = IF skip \/ (run.root /\ run.bad) THEN Idle
                                        ELSE [at |-> "start", run |-> run]]
        /\ began' = [began EXCEPT ![r] = run]
        /\ UNCHANGED <<running, context, base, blocks, over>>

\* Mutant of EmitStart: the hook returns before it has published.
EmitNothing(th) ==
    /\ hook[th] # Idle /\ hook[th].at = "start"
    /\ hook' = [hook EXCEPT ![th] = Idle]
    /\ UNCHANGED <<tracerVars, table, rollups, began, over, evicted, shared>>

\* After the lock, span.start; an event that cannot be built is swallowed by _guard.
EmitStart(th) ==
    /\ hook[th] # Idle /\ hook[th].at = "start"
    /\ spans' = IF hook[th].run.bad THEN spans
                ELSE [spans EXCEPT ![hook[th].run.span].state = "open"]
    /\ hook' = [hook EXCEPT ![th] = Idle]
    /\ UNCHANGED <<running, context, base, blocks, opened, minted, brackets,
                   table, rollups, began, over, evicted, shared>>

\* _end_run, under the lock: the run leaves the table; an end without a start, as that
\* of an evicted run, does nothing.
EndRun(th, r) ==
    /\ hook[th] = Idle /\ Alive(r) /\ ~InHook(r)
    /\ over' = over \cup {r}
    /\ IF Tracked(r)
       THEN /\ table' = RemoveAt(table, Place(r))
            /\ hook' = [hook EXCEPT ![th] = [at |-> "end", run |-> Entry(r)]]
       ELSE UNCHANGED <<table, hook>>
    /\ UNCHANGED <<tracerVars, rollups, began, evicted, shared>>

\* After the lock, span.end; if it cannot be built the trace is not closed either.
EmitEnd(th) ==
    LET run == hook[th].run
        fails == run.span # 0 /\ run.bad
    IN  /\ hook[th] # Idle /\ hook[th].at = "end"
        /\ spans' = IF run.span = 0 \/ fails THEN spans
                    ELSE [spans EXCEPT ![run.span].state = "ended"]
        /\ hook' = [hook EXCEPT ![th] = IF run.root /\ ~fails THEN [at |-> "close", run |-> run]
                                        ELSE Idle]
        /\ UNCHANGED <<running, context, base, blocks, opened, minted, brackets,
                       table, rollups, began, over, evicted, shared>>

\* Mutant of CloseRun: the roll-up is read and left in the table of traces.
CloseKeepsRollup(th) ==
    LET t == hook[th].run.trace
    IN  /\ hook[th] # Idle /\ hook[th].at = "close"
        /\ brackets' = IF t \in DOMAIN rollups /\ ~rollups[t].bad
                       THEN [brackets EXCEPT ![t] = @ - 1] ELSE brackets
        /\ hook' = [hook EXCEPT ![th] = Idle]
        /\ UNCHANGED <<running, context, base, blocks, opened, spans, minted,
                       table, rollups, began, over, evicted, shared>>

\* _close_trace: the trace's roll-up leaves the table of traces, if one is there, and
\* trace.end goes out with it, unless it is one whose event cannot be built.
CloseRun(th) ==
    LET t == hook[th].run.trace
    IN  /\ hook[th] # Idle /\ hook[th].at = "close"
        /\ rollups' = [u \in DOMAIN rollups \ {t} |-> rollups[u]]
        /\ brackets' = IF t \in DOMAIN rollups /\ ~rollups[t].bad
                       THEN [brackets EXCEPT ![t] = @ - 1] ELSE brackets
        /\ hook' = [hook EXCEPT ![th] = Idle]
        /\ UNCHANGED <<running, context, base, blocks, opened, spans, minted,
                       table, began, over, evicted, shared>>

-------------------------------------------------------------------------------
\* on_chain_*: only a chain that the host gave a parent, and that is no LangGraph
\* node, may be skipped; it is in the table all the same.
ChainHooks(th, r) ==
    /\ "chain" \in KindsOf[r]
    /\ \/ \E host \in HostsOf[r], meta \in AgentTraces \cup {None}, t \in Traces,
             skip, bad \in BOOLEAN :
              (skip => host # None) /\ StartRun(th, r, host, meta, t, skip, bad)
       \/ EndRun(th, r)

\* on_llm_* and on_chat_model_start: an answer or an error, each is an end.
LlmHooks(th, r) ==
    /\ "llm" \in KindsOf[r]
    /\ \/ \E host \in HostsOf[r], t \in Traces : StartRun(th, r, host, None, t, FALSE, FALSE)
       \/ EndRun(th, r)

\* on_tool_* and on_retriever_*.
ToolHooks(th, r) ==
    /\ KindsOf[r] \cap {"tool", "retriever"} # {}
    /\ \/ \E host \in HostsOf[r], t \in Traces : StartRun(th, r, host, None, t, FALSE, FALSE)
       \/ EndRun(th, r)

Next ==
    \E th \in Threads :
        \/ hook[th] = Idle /\ TracerNext(th) /\ UNCHANGED chainVars
        \/ /\ th \in running
           /\ \E r \in Runs : ChainHooks(th, r) \/ LlmHooks(th, r) \/ ToolHooks(th, r)
        \/ EmitStart(th) \/ EmitEnd(th) \/ CloseRun(th)

Spec == Init /\ [][Next]_vars

-------------------------------------------------------------------------------
\* The innermost block of a thread that set a variable of its context, 0 if none.
Setter(th, what) == Max({0} \cup {i \in DOMAIN blocks[th] : what \in blocks[th][i].sets})

\* A thread's context is that of the blocks it is inside of, whatever was opened,
\* pinned, scoped and closed before: what a block sets is gone when it is left, so the
\* next request of a pooled thread never joins the last one's trace.
ContextMatchesBlocks ==
    \A th \in Threads :
        LET T == Setter(th, "trace") S == Setter(th, "span") L == Setter(th, "llm")
        IN  context[th] =
              [trace |-> IF T = 0 THEN base[th].trace ELSE blocks[th][T].trace,
               span  |-> IF S = 0 THEN base[th].span ELSE blocks[th][S].span,
               llm   |-> IF L = 0 THEN base[th].llm ELSE blocks[th][L].span]

\* The tree of a host's run stays whole through skipped plumbing, threads and other
\* graphs: a run is in the trace of its parent and under the parent's span, or, when the
\* parent has none, under the one the parent is under. Only a parent that was pushed
\* out of the table (_register) starts another tree.
TreesStayWhole ==
    \A r \in Runs :
        (began[r] # NoRun /\ began[r].host # None /\ began[r].host \notin evicted) =>
            LET p == began[began[r].host]
            IN  /\ began[r].trace = p.trace
                /\ began[r].parent = (IF p.span # 0 THEN p.span ELSE p.parent)

GoodRollup(t) == IF t \in DOMAIN rollups /\ ~rollups[t].bad THEN 1 ELSE 0
OpenBlocks(t) ==
    Cardinality({p \in Threads \X (1 .. MaxOpened) :
                    LET th == p[1] i == p[2]
                    IN  /\ i \in DOMAIN blocks[th]
                        /\ blocks[th][i].brackets /\ blocks[th][i].trace = t})

\* Every trace.start has its trace.end, or something in the process that still owes it
\* (a block, or a roll-up whose root is in flight); a roll-up is left behind only when
\* its root was evicted, could not be published, or shared its trace with another root.
TracesClose ==
    /\ \A t \in Traces \ shared : brackets[t] = OpenBlocks(t) + GoodRollup(t)
    /\ \A t \in DOMAIN rollups \ shared :
          LET r == rollups[t].root
          IN  Tracked(r) \/ InHook(r) \/ r \in evicted \/ rollups[t].bad

\* tracer.py:254: "The open span is only a valid parent if it belongs to the same trace."
ParentInTrace ==
    \A s \in DOMAIN spans :
        (spans[s].state # "made" /\ spans[s].parent # 0) =>
            spans[spans[s].parent].trace = spans[s].trace

\* The spans the SDK publishes are a tree as the platform builds it: see SpanTree.
tree == [s \in SpanIds |->
            IF s \in DOMAIN spans /\ spans[s].state # "made"
            THEN [state |-> spans[s].state, parent |-> spans[s].parent]
            ELSE [state |-> "absent", parent |-> 0]]
Tree == INSTANCE SpanTree
TreeSpec == Tree!TreeSpec
===============================================================================
