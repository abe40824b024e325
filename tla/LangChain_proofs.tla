---------------------------- MODULE LangChain_proofs ----------------------------
(***************************************************************************)
(* Theorems about LangChain and the Tracer below it, for any threads, runs *)
(* and bounds, any size of the run table and any graph the host may run.   *)
(***************************************************************************)
EXTENDS LangChain, FiniteSetTheorems, SequenceTheorems, WellFoundedInduction, TLAPS

TracerTypes ==
    /\ running \in SUBSET Threads
    /\ context \in [Threads -> Context]
    /\ base \in [Threads -> Context]
    /\ blocks \in [Threads -> Seq(Block)]
    /\ opened \in 0 .. MaxOpened
    /\ spans \in Seq(SpanRec) /\ Len(spans) <= MaxSpans
    /\ minted \in 0 .. MaxTraces
    /\ brackets \in [Traces -> Int]

ChainTypes ==
    /\ table \in Seq(Run)
    /\ DOMAIN rollups \in SUBSET Traces /\ rollups \in [DOMAIN rollups -> Rollup]
    /\ hook \in [Threads -> Hook \cup {Idle}]
    /\ began \in [Runs -> Run \cup {NoRun}]
    /\ over \in SUBSET Runs /\ evicted \in SUBSET Runs /\ shared \in SUBSET Traces

TypeInv == TracerTypes /\ ChainTypes

-------------------------------------------------------------------------------
(* The contexts                                                            *)

\* The innermost of the first n of some blocks that set a variable.
SetterOf(bs, what, n) == Max({0} \cup {i \in 1 .. n : what \in bs[i].sets})

\* The context inside the first n of some blocks, and no more, in a thread that was
\* started with context c.
Inside(bs, c, n) ==
    LET T == SetterOf(bs, "trace", n)
        S == SetterOf(bs, "span", n)
        L == SetterOf(bs, "llm", n)
    IN  [trace |-> IF T = 0 THEN c.trace ELSE bs[T].trace,
         span  |-> IF S = 0 THEN c.span ELSE bs[S].span,
         llm   |-> IF L = 0 THEN c.llm ELSE bs[L].span]

\* A block remembers the context it was opened in, which is that of the blocks around it.
ContextInv ==
    \A th \in Threads :
        /\ th \notin running => blocks[th] = <<>>
        /\ context[th] = Inside(blocks[th], base[th], Len(blocks[th]))
        /\ \A i \in DOMAIN blocks[th] :
              blocks[th][i].outer = Inside(blocks[th], base[th], i - 1)

-------------------------------------------------------------------------------
(* The runs                                                                *)

\* The table, the hooks and the host agree on a run; a run that is alive is in the
\* table unless it was pushed out of it.
RunInv ==
    /\ \A i \in DOMAIN table : began[table[i].id] = table[i]
    /\ \A r \in Runs :
          /\ r \in over \cup evicted => began[r] # NoRun
          /\ Alive(r) => Tracked(r) \/ r \in evicted
          /\ began[r] # NoRun =>
                /\ began[r].id = r
                /\ began[r].host # None => began[began[r].host] # NoRun

\* A hook works for a run that began, the start's before its end and the end's after
\* it, and no two hooks work for one run.
HookInv ==
    \A th \in Threads :
        hook[th] # Idle =>
            /\ began[hook[th].run.id] = hook[th].run
            /\ hook[th].at = "start" <=> hook[th].run.id \notin over
            /\ hook[th].at = "start" => hook[th].run.span # 0
            /\ hook[th].at = "close" => hook[th].run.root
            /\ \A other \in Threads \ {th} :
                  hook[other] # Idle => hook[other].run.id # hook[th].run.id

ForestInv == RunInv /\ HookInv /\ TreesStayWhole

-------------------------------------------------------------------------------
(* The brackets of the traces                                              *)

\* A roll-up is of a root that began in its trace, and somebody will still close it
\* unless the root was pushed out or could not be published.
RollupOk(t, r) ==
    /\ rollups[t].root = r /\ began[r] # NoRun
    /\ began[r].root /\ began[r].trace = t /\ began[r].bad = rollups[t].bad
    /\ Tracked(r) \/ InHook(r) \/ r \in evicted \/ rollups[t].bad

RollupInv == \A t \in DOMAIN rollups : \E r \in Runs : RollupOk(t, r)

BracketInv ==
    /\ \A th \in Threads : Len(blocks[th]) <= opened
    /\ \A t \in Traces \ shared : brackets[t] = OpenBlocks(t) + GoodRollup(t)

-------------------------------------------------------------------------------
(* The spans                                                               *)

Published(s) == s \in DOMAIN spans /\ spans[s].state # "made"
KnownSpan(s) == s = 0 \/ Published(s)
Starting(r) == \E th \in Threads : hook[th] # Idle /\ hook[th].at = "start" /\ hook[th].run.id = r
Ending(r) == \E th \in Threads : hook[th] # Idle /\ hook[th].at = "end" /\ hook[th].run.id = r

\* Wherever a thread finds a parent, in its context or in one it will return to, the
\* platform knows that span.
ParentsKnown(th) ==
    /\ KnownSpan(context[th].span)
    /\ \A i \in DOMAIN blocks[th] : KnownSpan(blocks[th][i].outer.span)

\* A block of a span has it to itself, and open.
BlockSpanOk(th, i) ==
    /\ blocks[th][i].span \in DOMAIN spans
    /\ spans[blocks[th][i].span].state = "open"
    /\ \A other \in Threads : \A j \in DOMAIN blocks[other] :
          (<<other, j>> # <<th, i>> /\ ~blocks[other][j].brackets) =>
              blocks[other][j].span # blocks[th][i].span
    /\ \A r \in Runs : began[r] # NoRun => began[r].span # blocks[th][i].span

\* A run has its span to itself: made until its start is out, which is never for a bad
\* one, then open until its end is out.
RunSpanOk(r) ==
    /\ began[r].span # 0 =>
         /\ began[r].span \in DOMAIN spans /\ spans[began[r].span].parent = began[r].parent
         /\ spans[began[r].span].state = "made" <=> began[r].bad \/ Starting(r)
         /\ (~began[r].bad /\ ~Starting(r) /\ (r \notin over \/ Ending(r)))
               => spans[began[r].span].state = "open"
         /\ \A other \in Runs \ {r} : began[other] # NoRun => began[other].span # began[r].span
    /\ ~began[r].bad => KnownSpan(began[r].parent)

ParentInv == \A th \in Threads : ParentsKnown(th)
BlockSpanInv ==
    \A th \in Threads : \A i \in DOMAIN blocks[th] : ~blocks[th][i].brackets => BlockSpanOk(th, i)
RunSpanInv == \A r \in Runs : began[r] # NoRun => RunSpanOk(r)

SpanInv == ParentInv /\ BlockSpanInv /\ RunSpanInv

-------------------------------------------------------------------------------
(* Sequences                                                               *)

LEMMA LastAndFront ==
    ASSUME NEW S, NEW s \in Seq(S), s # <<>>
    PROVE  /\ Len(s) \in Nat \ {0} /\ DOMAIN s = 1 .. Len(s)
           /\ Last(s) = s[Len(s)] /\ Last(s) \in S
           /\ Front(s) \in Seq(S) /\ Len(Front(s)) = Len(s) - 1
           /\ \A i \in 1 .. Len(s) - 1 : Front(s)[i] = s[i]
<1>1. Len(s) \in Nat \ {0} /\ DOMAIN s = 1 .. Len(s)
    BY EmptySeq, LenProperties
<1>2. s[Len(s)] \in S
    BY <1>1, ElementOfSeq
<1>3. \A i \in 1 .. Len(s) - 1 : s[i] \in S
    BY <1>1, ElementOfSeq
<1>4. /\ SubSeq(s, 1, Len(s) - 1) \in Seq(S)
      /\ Len(SubSeq(s, 1, Len(s) - 1)) = Len(s) - 1
      /\ \A i \in 1 .. Len(s) - 1 : SubSeq(s, 1, Len(s) - 1)[i] = s[i]
    BY <1>1, <1>3
<1> QED
    BY <1>1, <1>2, <1>4 DEF Last, Front

\* What is appended is last, and the rest is where it was.
LEMMA Appended ==
    ASSUME NEW S, NEW s \in Seq(S), NEW e \in S
    PROVE  /\ Append(s, e) \in Seq(S)
           /\ Len(Append(s, e)) = Len(s) + 1 /\ DOMAIN Append(s, e) = 1 .. Len(s) + 1
           /\ Append(s, e)[Len(s) + 1] = e
           /\ \A i \in 1 .. Len(s) : Append(s, e)[i] = s[i]
           /\ DOMAIN s = 1 .. Len(s) /\ Len(s) \in Nat
    BY AppendProperties, LenProperties

\* Removing a place removes nothing else.
LEMMA Removed ==
    ASSUME NEW S, NEW s \in Seq(S), NEW k \in DOMAIN s
    PROVE  /\ RemoveAt(s, k) \in Seq(S)
           /\ \A i \in DOMAIN RemoveAt(s, k) : \E j \in DOMAIN s : RemoveAt(s, k)[i] = s[j]
           /\ \A j \in DOMAIN s \ {k} : \E i \in DOMAIN RemoveAt(s, k) : RemoveAt(s, k)[i] = s[j]
<1> DEFINE low == SubSeq(s, 1, k - 1)
           high == SubSeq(s, k + 1, Len(s))
<1>1. Len(s) \in Nat /\ DOMAIN s = 1 .. Len(s) /\ k \in 1 .. Len(s)
    BY LenProperties
<1>2. /\ low \in Seq(S) /\ Len(low) = k - 1
      /\ \A i \in 1 .. k - 1 : low[i] = s[i]
    <2>1. \A i \in 1 .. k - 1 : s[i] \in S
        BY <1>1, ElementOfSeq
    <2> QED
        BY <1>1, <2>1
<1>3. /\ high \in Seq(S) /\ Len(high) = Len(s) - k
      /\ \A i \in 1 .. Len(s) - k : high[i] = s[k + i]
    <2>1. \A i \in k + 1 .. Len(s) : s[i] \in S
        BY <1>1, ElementOfSeq
    <2> QED
        BY <1>1, <2>1
<1>4. RemoveAt(s, k) = low \o high
    BY DEF RemoveAt
<1> HIDE DEF low, high
<1>5. \A a, b \in Seq(S) :
         /\ a \o b \in Seq(S) /\ Len(a \o b) = Len(a) + Len(b)
         /\ \A i \in 1 .. Len(a) + Len(b) :
               (a \o b)[i] = IF i <= Len(a) THEN a[i] ELSE b[i - Len(a)]
    BY ConcatProperties
<1>6. /\ low \o high \in Seq(S) /\ Len(low \o high) = Len(s) - 1
      /\ DOMAIN (low \o high) = 1 .. Len(s) - 1
    <2>1. low \in Seq(S) /\ high \in Seq(S)
        BY <1>2, <1>3
    <2>2. low \o high \in Seq(S) /\ Len(low \o high) = Len(low) + Len(high)
        BY <2>1, <1>5
    <2>3. Len(low \o high) = Len(s) - 1
        BY <1>1, <1>2, <1>3, <2>2
    <2> QED
        BY <2>2, <2>3, LenProperties
<1>7. \A i \in 1 .. Len(s) - 1 : (low \o high)[i] = IF i <= k - 1 THEN s[i] ELSE s[i + 1]
    <2> TAKE i \in 1 .. Len(s) - 1
    <2>1. (low \o high)[i] = IF i <= k - 1 THEN low[i] ELSE high[i - (k - 1)]
        BY <1>1, <1>2, <1>3, <1>5
    <2>2. CASE i <= k - 1
        BY <1>1, <1>2, <2>1, <2>2
    <2>3. CASE ~(i <= k - 1)
        <3>1. i - (k - 1) \in 1 .. Len(s) - k /\ k + (i - (k - 1)) = i + 1
            BY <1>1, <2>3
        <3> QED
            BY <1>3, <2>1, <2>3, <3>1
    <2> QED
        BY <2>2, <2>3
<1>8. ASSUME NEW j \in DOMAIN s \ {k}
      PROVE  \E i \in 1 .. Len(s) - 1 : (low \o high)[i] = s[j]
    <2>1. CASE j < k
        <3>1. j \in 1 .. Len(s) - 1 /\ j <= k - 1
            BY <1>1, <2>1
        <3> QED
            BY <1>7, <3>1
    <2>2. CASE ~(j < k)
        <3>1. j - 1 \in 1 .. Len(s) - 1 /\ ~(j - 1 <= k - 1) /\ (j - 1) + 1 = j
            BY <1>1, <2>2
        <3> QED
            BY <1>7, <3>1
    <2> QED
        BY <2>1, <2>2
<1>9. \A i \in 1 .. Len(s) - 1 : i \in DOMAIN s /\ i + 1 \in DOMAIN s
    BY <1>1
<1> QED
    BY <1>4, <1>6, <1>7, <1>8, <1>9

-------------------------------------------------------------------------------
(* The steps                                                               *)

\* The arguments a hook that starts a run may have.
Starts(th) ==
    \E r \in Runs, host \in Runs \cup {None}, meta \in AgentTraces \cup {None}, t \in Traces,
       skip, bad \in BOOLEAN : StartRun(th, r, host, meta, t, skip, bad)

Hooks(th) ==
    \/ Starts(th)
    \/ \E r \in Runs : EndRun(th, r)
    \/ EmitStart(th) \/ EmitEnd(th) \/ CloseRun(th)

Blocks(th) ==
    /\ th \in running
    /\ \/ \E t \in Traces : OpenTrace(th, t)
       \/ CloseTrace(th)
       \/ \E t \in Traces, pinned \in BOOLEAN : OpenSpan(th, t, pinned)
       \/ \E t \in Traces, named, llm \in BOOLEAN : OpenOperation(th, t, named, llm)
       \/ CloseSpan(th)
       \/ RecordUsage(th)

Begins(th) == \E c \in {NoContext} \cup {context[from] : from \in running} : Begin(th, c)

\* Every step is of one thread: a hook, a block, or its start.
LEMMA Steps ==
    ASSUME Next
    PROVE  \E th \in Threads :
              \/ Hooks(th)
              \/ hook[th] = Idle /\ UNCHANGED chainVars /\ (Blocks(th) \/ Begins(th))
<1>1. PICK th \in Threads :
        \/ hook[th] = Idle /\ TracerNext(th) /\ UNCHANGED chainVars
        \/ \E r \in Runs : ChainHooks(th, r) \/ LlmHooks(th, r) \/ ToolHooks(th, r)
        \/ EmitStart(th) \/ EmitEnd(th) \/ CloseRun(th)
    BY DEF Next
<1>2. TracerNext(th) => Blocks(th) \/ Begins(th)
    <2>1. \A t \in Minted : OpenTrace(th, t) => \E u \in Traces : OpenTrace(th, u)
        BY DEF Traces
    <2>2. \A t \in AgentTraces : ObserveAgentRun(th, t) => \E u \in Traces : OpenTrace(th, u)
        BY DEF Traces, ObserveAgentRun
    <2>3. StartThread(th) => Begins(th)
        BY DEF StartThread, Begins
    <2>4. \A from \in Threads : StartTask(th, from) => Begins(th)
        BY DEF StartTask, Begins
    <2> QED
        BY <2>1, <2>2, <2>3, <2>4 DEF TracerNext, Blocks
<1>3. \A r \in Runs : HostsOf[r] \in SUBSET (Runs \cup {None})
    BY LangChainAssumption
<1>4. \A r \in Runs : ChainHooks(th, r) => Starts(th) \/ EndRun(th, r)
    BY <1>3 DEF ChainHooks, Starts
<1>5. ASSUME NEW r \in Runs, LlmHooks(th, r) \/ ToolHooks(th, r)
      PROVE  Starts(th) \/ EndRun(th, r)
    <2>1. \/ \E host \in HostsOf[r], t \in Traces : StartRun(th, r, host, None, t, FALSE, FALSE)
          \/ EndRun(th, r)
        BY <1>5 DEF LlmHooks, ToolHooks
    <2> QED
        BY <1>3, <2>1 DEF Starts
<1> QED
    BY <1>1, <1>2, <1>4, <1>5 DEF Hooks

-------------------------------------------------------------------------------
(* Types                                                                   *)

LEMMA Numbers ==
    /\ MaxTraces \in Nat /\ MaxSpans \in Nat /\ MaxOpened \in Nat
    /\ MaxTracked \in Nat \ {0} /\ 0 \notin Traces /\ 0 \notin Runs /\ None = 0
    /\ AgentTraces \in SUBSET Traces /\ Minted \in SUBSET Traces /\ Minted \in SUBSET Nat
    /\ AgentTraces \cap Minted = {}
BY TracerAssumption, LangChainAssumption DEF Traces, Minted, None

\* A context with a new trace and span.
LEMMA ContextUpdate ==
    ASSUME NEW c \in Context, NEW t \in Traces \cup {None}, NEW s \in 0 .. MaxSpans
    PROVE  /\ [c EXCEPT !.trace = t, !.span = s] \in Context
           /\ [c EXCEPT !.trace = t, !.span = s].trace = t
           /\ [c EXCEPT !.trace = t, !.span = s].span = s
           /\ [c EXCEPT !.trace = t, !.span = s].llm = c.llm
BY DEF Context

\* A context with a new span and operation.
LEMMA OperationUpdate ==
    ASSUME NEW c \in Context, NEW s \in 0 .. MaxSpans, NEW l \in 0 .. MaxSpans
    PROVE  /\ [c EXCEPT !.span = s, !.llm = l] \in Context
           /\ [c EXCEPT !.span = s, !.llm = l].trace = c.trace
           /\ [c EXCEPT !.span = s, !.llm = l].span = s
           /\ [c EXCEPT !.span = s, !.llm = l].llm = l
BY DEF Context

\* Leaving the innermost block takes it away and puts back what it found.
LEMMA LeaveTypes ==
    ASSUME NEW th \in Threads, TracerTypes, blocks[th] # <<>>, Leave(th)
    PROVE  /\ Last(blocks[th]) \in Block
           /\ blocks' \in [Threads -> Seq(Block)]
           /\ context' \in [Threads -> Context]
<1>1. blocks[th] \in Seq(Block) /\ context[th] \in Context
    BY DEF TracerTypes
<1>2. Last(blocks[th]) \in Block /\ Front(blocks[th]) \in Seq(Block)
    BY <1>1, LastAndFront
<1>3. Last(blocks[th]).outer \in Context
    BY <1>2 DEF Block
<1>4. blocks' \in [Threads -> Seq(Block)]
    BY <1>2 DEF TracerTypes, Leave
<1>5. context' \in [Threads -> Context]
    BY <1>1, <1>3 DEF TracerTypes, Leave, Context
<1> QED
    BY <1>2, <1>4, <1>5

LEMMA EnterTypes ==
    ASSUME NEW th \in Threads, NEW block \in Block, NEW inner \in Context,
           TracerTypes, Enter(th, block, inner)
    PROVE  /\ blocks' \in [Threads -> Seq(Block)]
           /\ context' \in [Threads -> Context]
           /\ opened' \in 0 .. MaxOpened
<1>1. blocks[th] \in Seq(Block)
    BY DEF TracerTypes
<1>2. Append(blocks[th], block) \in Seq(Block)
    BY <1>1
<1>3. blocks' \in [Threads -> Seq(Block)]
    BY <1>2 DEF TracerTypes, Enter
<1>4. opened' \in 0 .. MaxOpened
    BY Numbers DEF TracerTypes, Enter, Opens
<1> QED
    BY <1>3, <1>4 DEF TracerTypes, Enter

LEMMA MintTypes ==
    ASSUME NEW t \in Traces, Mint(t), minted \in 0 .. MaxTraces
    PROVE  minted' \in 0 .. MaxTraces
BY Numbers DEF Mint, Minted

\* What is known of a span may change, the spans do not.
LEMMA SpanUpdates ==
    ASSUME TracerTypes, NEW s
    PROVE  /\ \A v \in {"made", "open", "ended"} :
                /\ [spans EXCEPT ![s].state = v] \in Seq(SpanRec)
                /\ Len([spans EXCEPT ![s].state = v]) = Len(spans)
           /\ [spans EXCEPT ![s].usage = TRUE] \in Seq(SpanRec)
           /\ Len([spans EXCEPT ![s].usage = TRUE]) = Len(spans)
           /\ DOMAIN spans = 1 .. Len(spans) /\ Len(spans) \in 0 .. MaxSpans
<1>1. spans \in Seq(SpanRec) /\ DOMAIN spans = 1 .. Len(spans) /\ Len(spans) \in 0 .. MaxSpans
    BY LenProperties DEF TracerTypes
<1>2. CASE s \in DOMAIN spans
    <2>1. spans[s] \in SpanRec
        BY <1>1, <1>2, ElementOfSeq
    <2>2. \A v \in {"made", "open", "ended"} : [spans[s] EXCEPT !.state = v] \in SpanRec
        BY <2>1 DEF SpanRec
    <2>3. [spans[s] EXCEPT !.usage = TRUE] \in SpanRec
        BY <2>1 DEF SpanRec
    <2>4. \A e \in SpanRec : /\ [spans EXCEPT ![s] = e] \in Seq(SpanRec)
                             /\ Len([spans EXCEPT ![s] = e]) = Len(spans)
        BY <1>1, <1>2, ExceptSeq
    <2> QED
        BY <1>1, <2>2, <2>3, <2>4
<1>3. CASE s \notin DOMAIN spans
    <2>1. /\ \A v \in {"made", "open", "ended"} : [spans EXCEPT ![s].state = v] = spans
          /\ [spans EXCEPT ![s].usage = TRUE] = spans
        BY <1>1, <1>3
    <2> QED
        BY <1>1, <2>1
<1> QED
    BY <1>2, <1>3

LEMMA BlocksTypes ==
    ASSUME TypeInv, NEW th \in Threads, Blocks(th), UNCHANGED chainVars
    PROVE  TypeInv'
<1> USE Numbers
<1>1. context[th] \in Context /\ blocks[th] \in Seq(Block) /\ Len(spans) \in 0 .. MaxSpans
    BY DEF TypeInv, TracerTypes
<1>2. ChainTypes'
    BY DEF TypeInv, ChainTypes, chainVars
<1>3. CASE \E t \in Traces : OpenTrace(th, t)
    <2>1. PICK t \in Traces : OpenTrace(th, t)
        BY <1>3
    <2> DEFINE block == [trace |-> t, span |-> 0, outer |-> context[th],
                         sets |-> {"trace", "span"}, brackets |-> TRUE]
    <2>2. block \in Block
        BY <1>1 DEF Block
    <2>7. InTrace(th, t) \in Context
        <3>1. t \in Traces \cup {None} /\ 0 \in 0 .. MaxSpans
            OBVIOUS
        <3> QED
            BY <1>1, <3>1, ContextUpdate, Zenon DEF InTrace
    <2>3. Enter(th, block, InTrace(th, t)) /\ Mint(t)
        BY <2>1 DEF OpenTrace
    <2> HIDE DEF block
    <2>4. /\ blocks' \in [Threads -> Seq(Block)] /\ context' \in [Threads -> Context]
          /\ opened' \in 0 .. MaxOpened
        BY <2>2, <2>3, <2>7, EnterTypes DEF TypeInv
    <2>5. minted' \in 0 .. MaxTraces
        BY <2>3, MintTypes DEF TypeInv, TracerTypes
    <2>6. /\ brackets' \in [Traces -> Int]
          /\ UNCHANGED <<running, base, spans>>
        BY <2>1 DEF TypeInv, TracerTypes, OpenTrace
    <2> QED
        BY <1>2, <2>4, <2>5, <2>6 DEF TypeInv, TracerTypes
<1>4. CASE CloseTrace(th)
    <2>1. blocks' \in [Threads -> Seq(Block)] /\ context' \in [Threads -> Context]
        BY <1>4, LeaveTypes DEF CloseTrace, TypeInv
    <2>2. UNCHANGED <<running, base, opened, spans, minted>>
        BY <1>4 DEF CloseTrace
    <2>3. brackets' \in [Traces -> Int]
        <3> DEFINE t == Last(blocks[th]).trace
        <3>1. brackets' = [brackets EXCEPT ![t] = @ - 1]
            BY <1>4 DEF CloseTrace
        <3> HIDE DEF t
        <3>2. brackets \in [Traces -> Int]
            BY DEF TypeInv, TracerTypes
        <3>3. CASE t \in Traces
            BY <3>1, <3>2, <3>3
        <3>4. CASE t \notin Traces
            BY <3>1, <3>2, <3>4
        <3> QED
            BY <3>3, <3>4
    <2> QED
        BY <1>2, <2>1, <2>2, <2>3 DEF TypeInv, TracerTypes
<1>5. CASE \E t \in Traces, pinned \in BOOLEAN : OpenSpan(th, t, pinned)
    <2>1. PICK t \in Traces, pinned \in BOOLEAN : OpenSpan(th, t, pinned)
        BY <1>5
    <2> DEFINE c == context[th]
               s == Len(spans) + 1
               block == [trace |-> t, span |-> s, outer |-> c, brackets |-> FALSE,
                         sets |-> IF c.trace = t THEN {"span"} ELSE {"span", "trace"}]
               inner == [c EXCEPT !.trace = t, !.span = s]
               new == NewSpan(t, ParentFor(th, t, pinned))
    <2>2. Len(spans) < MaxSpans /\ s \in 1 .. MaxSpans
        BY <1>1, <2>1 DEF OpenSpan
    <2>3. block \in Block /\ inner \in Context /\ new \in SpanRec
        <3>1. block \in Block
            BY <1>1, <2>2 DEF Block
        <3>2. inner \in Context
            <4>1. t \in Traces \cup {None} /\ s \in 0 .. MaxSpans
                BY <2>2
            <4> HIDE DEF s
            <4> QED
                BY <1>1, <4>1, ContextUpdate, Zenon
        <3>3. ParentFor(th, t, pinned) \in 0 .. MaxSpans
            BY <1>1 DEF Context, ParentFor
        <3>4. new \in SpanRec
            BY <3>3 DEF SpanRec, NewSpan
        <3> QED
            BY <3>1, <3>2, <3>4
    <2>4. Enter(th, block, inner) /\ spans' = Append(spans, new)
        BY <2>1 DEF OpenSpan
    <2>5. UNCHANGED <<running, base, brackets>> /\ minted' \in 0 .. MaxTraces
        BY <2>1, MintTypes DEF OpenSpan, TypeInv, TracerTypes
    <2> HIDE DEF block, inner, new
    <2>6. /\ blocks' \in [Threads -> Seq(Block)] /\ context' \in [Threads -> Context]
          /\ opened' \in 0 .. MaxOpened
        BY <2>3, <2>4, EnterTypes DEF TypeInv
    <2>7. spans' \in Seq(SpanRec) /\ Len(spans') <= MaxSpans
        BY <2>2, <2>3, <2>4 DEF TypeInv, TracerTypes
    <2> QED
        BY <1>2, <2>5, <2>6, <2>7 DEF TypeInv, TracerTypes
<1>6. CASE \E t \in Traces, named, llm \in BOOLEAN : OpenOperation(th, t, named, llm)
    <2>1. PICK t \in Traces, named \in BOOLEAN, llm \in BOOLEAN : OpenOperation(th, t, named, llm)
        BY <1>6
    <2> DEFINE c == IF named THEN InScope(th, t) ELSE context[th]
               s == Len(spans) + 1
               block == [trace |-> t, span |-> s, outer |-> context[th], brackets |-> FALSE,
                         sets |-> {"span"} \cup (IF named THEN {"trace"} ELSE {})
                                           \cup (IF llm THEN {"llm"} ELSE {})]
               inner == [c EXCEPT !.span = s, !.llm = IF llm THEN s ELSE @]
               new == NewSpan(t, c.span)
    <2>2. Len(spans) < MaxSpans /\ s \in 1 .. MaxSpans
        BY <1>1, <2>1 DEF OpenOperation
    <2>3. c \in Context
        BY <1>1 DEF InScope, Context
    <2>4. block \in Block
        BY <1>1, <2>2 DEF Block
    <2>5. inner \in Context
        <3> HIDE DEF c
        <3>1. s \in 0 .. MaxSpans /\ (IF llm THEN s ELSE c.llm) \in 0 .. MaxSpans
            BY <2>2, <2>3 DEF Context
        <3> QED
            BY <2>3, <3>1, OperationUpdate
    <2>6. new \in SpanRec
        <3> HIDE DEF c
        <3> QED
            BY <2>2, <2>3 DEF Context, SpanRec, NewSpan
    <2>7. Enter(th, block, inner) /\ spans' = Append(spans, new)
        BY <2>1 DEF OpenOperation
    <2>8. UNCHANGED <<running, base, minted, brackets>>
        BY <2>1 DEF OpenOperation
    <2> HIDE DEF block, inner, new
    <2>9. /\ blocks' \in [Threads -> Seq(Block)] /\ context' \in [Threads -> Context]
          /\ opened' \in 0 .. MaxOpened
        BY <2>4, <2>5, <2>7, EnterTypes DEF TypeInv
    <2>10. spans' \in Seq(SpanRec) /\ Len(spans') <= MaxSpans
        BY <2>2, <2>6, <2>7 DEF TypeInv, TracerTypes
    <2> QED
        BY <1>2, <2>8, <2>9, <2>10 DEF TypeInv, TracerTypes
<1>7. CASE CloseSpan(th)
    <2>1. /\ blocks' \in [Threads -> Seq(Block)] /\ context' \in [Threads -> Context]
          /\ Last(blocks[th]) \in Block
        BY <1>7, LeaveTypes DEF CloseSpan, TypeInv
    <2>2. spans' \in Seq(SpanRec) /\ Len(spans') = Len(spans)
        BY <1>7, SpanUpdates DEF TypeInv, CloseSpan
    <2>3. UNCHANGED <<running, base, opened, minted, brackets>>
        BY <1>7 DEF CloseSpan
    <2> QED
        BY <1>2, <2>1, <2>2, <2>3 DEF TypeInv, TracerTypes
<1>8. CASE RecordUsage(th)
    <2>1. spans' \in Seq(SpanRec) /\ Len(spans') = Len(spans)
        BY <1>8, SpanUpdates DEF TypeInv, RecordUsage
    <2>2. UNCHANGED <<running, context, base, blocks, opened, minted, brackets>>
        BY <1>8 DEF RecordUsage
    <2> QED
        BY <1>2, <2>1, <2>2 DEF TypeInv, TracerTypes
<1> QED
    BY <1>3, <1>4, <1>5, <1>6, <1>7, <1>8 DEF Blocks

LEMMA BeginsTypes ==
    ASSUME TypeInv, NEW th \in Threads, Begins(th), UNCHANGED chainVars
    PROVE  TypeInv'
<1>1. PICK c \in {NoContext} \cup {context[from] : from \in running} : Begin(th, c)
    BY DEF Begins
<1>2. c \in Context
    BY Numbers DEF TypeInv, TracerTypes, Context, NoContext
<1>3. /\ running' \in SUBSET Threads
      /\ base' \in [Threads -> Context] /\ context' \in [Threads -> Context]
      /\ UNCHANGED <<blocks, opened, spans, minted, brackets>>
    BY <1>1, <1>2 DEF TypeInv, TracerTypes, Begin
<1> QED
    BY <1>3 DEF TypeInv, TracerTypes, ChainTypes, chainVars

\* A run that is tracked has its entry, and it is an entry of the table.
LEMMA Entries ==
    ASSUME ChainTypes, NEW r \in Runs, Tracked(r)
    PROVE  /\ Place(r) \in DOMAIN table /\ Entry(r) = table[Place(r)]
           /\ Entry(r) \in Run /\ Entry(r).id = r
<1>1. Place(r) \in DOMAIN table /\ table[Place(r)].id = r
    BY DEF Tracked, Place
<1>2. table[Place(r)] \in Run
    BY <1>1, ElementOfSeq, LenProperties DEF ChainTypes
<1> QED
    BY <1>1, <1>2 DEF Entry

\* The entry of the run that is starting, as _start_run makes it.
RunOf(th, r, host, t, skip, bad) ==
    LET inherits == host # None /\ Tracked(host)
        p == Entry(host)
    IN  [id |-> r, host |-> host, trace |-> t, root |-> ~inherits,
         span |-> IF skip THEN 0 ELSE Len(spans) + 1,
         parent |-> IF inherits THEN ParentSpan(p) ELSE context[th].span,
         bad |-> IF inherits THEN p.bad ELSE bad]

LEMMA RunOfTypes ==
    ASSUME TypeInv, NEW th \in Threads, NEW r \in Runs, NEW host \in Runs \cup {None},
           NEW t \in Traces, NEW skip \in BOOLEAN, NEW bad \in BOOLEAN,
           skip \/ Len(spans) < MaxSpans
    PROVE  RunOf(th, r, host, t, skip, bad) \in Run
<1> DEFINE inherits == host # None /\ Tracked(host)
           span == IF skip THEN 0 ELSE Len(spans) + 1
           parent == IF inherits THEN ParentSpan(Entry(host)) ELSE context[th].span
           worse == IF inherits THEN Entry(host).bad ELSE bad
<1>1. inherits => Entry(host) \in Run
    BY Numbers, Entries DEF TypeInv
<1>2. Len(spans) \in Nat /\ context[th].span \in 0 .. MaxSpans
    BY LenProperties DEF TypeInv, TracerTypes, Context
<1>3. span \in 0 .. MaxSpans
    BY <1>2, Numbers
<1>4. parent \in 0 .. MaxSpans
    BY <1>1, <1>2 DEF ParentSpan, Run
<1>5. worse \in BOOLEAN
    BY <1>1 DEF Run
<1>6. RunOf(th, r, host, t, skip, bad)
        = [id |-> r, host |-> host, trace |-> t, root |-> ~inherits, span |-> span,
           parent |-> parent, bad |-> worse]
    BY DEF RunOf
<1>7. (~inherits) \in BOOLEAN
    OBVIOUS
<1> HIDE DEF inherits, span, parent, worse
<1> QED
    BY <1>3, <1>4, <1>5, <1>6, <1>7 DEF Run

\* What _register leaves in the table: the new run last, of the others all but the
\* first, which is pushed out by name.
LEMMA Registered ==
    ASSUME ChainTypes, NEW run \in Run, Register(run)
    PROVE  /\ table' \in Seq(Run) /\ evicted' \in SUBSET Runs /\ evicted \subseteq evicted'
           /\ \A i \in DOMAIN table' :
                 table'[i] = run \/ \E j \in DOMAIN table : table'[i] = table[j]
           /\ \A e \in {run} \cup {table[j] : j \in DOMAIN table} :
                 e.id \in evicted' \/ \E i \in DOMAIN table' : table'[i] = e
           /\ \A r \in evicted' :
                 r \in evicted \/ r = run.id \/ \E j \in DOMAIN table : table[j].id = r
<1> DEFINE longer == Append(table, run)
<1>1. /\ longer \in Seq(Run) /\ Len(longer) = Len(table) + 1
      /\ DOMAIN longer = 1 .. Len(table) + 1 /\ longer[Len(table) + 1] = run
      /\ \A i \in 1 .. Len(table) : longer[i] = table[i]
      /\ DOMAIN table = 1 .. Len(table) /\ Len(table) \in Nat
    BY Appended DEF ChainTypes
<1> HIDE DEF longer
<1>2. /\ \A i \in DOMAIN longer :
            longer[i] = run \/ \E j \in DOMAIN table : longer[i] = table[j]
      /\ \A e \in {run} \cup {table[j] : j \in DOMAIN table} :
            \E i \in DOMAIN longer : longer[i] = e
    <2>1. \A i \in DOMAIN longer : i = Len(table) + 1 \/ i \in DOMAIN table
        BY <1>1
    <2>2. \A j \in DOMAIN table : j \in DOMAIN longer /\ longer[j] = table[j]
        BY <1>1
    <2>3. Len(table) + 1 \in DOMAIN longer
        BY <1>1
    <2> QED
        BY <1>1, <2>1, <2>2, <2>3
<1>3. \A i \in DOMAIN longer : longer[i] \in Run
    BY <1>1, ElementOfSeq
<1>4. CASE Len(longer) > MaxTracked
    <2>1. table' = Tail(longer) /\ evicted' = evicted \cup {Head(longer).id}
        BY <1>4 DEF Register, longer
    <2>2. /\ Tail(longer) \in Seq(Run) /\ Len(Tail(longer)) = Len(longer) - 1
          /\ Head(longer) = longer[1]
          /\ \A i \in 1 .. Len(longer) - 1 : Tail(longer)[i] = longer[i + 1]
        <3>1. longer # <<>>
            BY <1>1, EmptySeq
        <3> QED
            BY <1>1, <3>1, HeadTailProperties
    <2>3. DOMAIN Tail(longer) = 1 .. Len(longer) - 1
        BY <2>2, LenProperties
    <2>4. \A i \in DOMAIN table' : i + 1 \in DOMAIN longer /\ table'[i] = longer[i + 1]
        BY <1>1, <2>1, <2>2, <2>3
    <2>5. \A i \in DOMAIN longer :
             i = 1 \/ (i - 1 \in DOMAIN table' /\ table'[i - 1] = longer[i])
        BY <1>1, <2>1, <2>2, <2>3
    <2>6. 1 \in DOMAIN longer
        BY <1>1
    <2>7. \A i \in DOMAIN table' :
             table'[i] = run \/ \E j \in DOMAIN table : table'[i] = table[j]
        BY <1>2, <2>4
    <2>8. ASSUME NEW e \in {run} \cup {table[j] : j \in DOMAIN table}
          PROVE  e.id \in evicted' \/ \E i \in DOMAIN table' : table'[i] = e
        <3>1. PICK i \in DOMAIN longer : longer[i] = e
            BY <1>2
        <3>2. i = 1 => e.id \in evicted'
            BY <2>1, <2>2, <3>1
        <3> QED
            BY <2>5, <3>1, <3>2
    <2>9. Head(longer).id \in Runs
        BY <1>3, <2>2, <2>6 DEF Run
    <2>10. \A r \in evicted' :
              r \in evicted \/ r = run.id \/ \E j \in DOMAIN table : table[j].id = r
        BY <1>2, <2>1, <2>2, <2>6
    <2> QED
        BY <2>1, <2>2, <2>7, <2>8, <2>9, <2>10 DEF ChainTypes
<1>5. CASE ~(Len(longer) > MaxTracked)
    <2>1. table' = longer /\ evicted' = evicted
        BY <1>5 DEF Register, longer
    <2> QED
        BY <1>1, <1>2, <2>1 DEF ChainTypes
<1> QED
    BY <1>4, <1>5

\* What a hook that starts a run does, in terms of the entry it makes.
StartFacts(th, r, host, t, skip, run) ==
    /\ run \in Run
    /\ hook[th] = Idle /\ began[r] = NoRun
    /\ host # None => Alive(host) /\ ~InHook(host)
    /\ skip \/ Len(spans) < MaxSpans
    /\ Register(run)
    /\ spans' = IF skip THEN spans
                ELSE Append(spans, [NewSpan(t, run.parent) EXCEPT !.state = "made"])
    /\ IF run.root THEN OpenRollup(run) ELSE UNCHANGED <<rollups, shared>>
    /\ brackets' = IF StartsTrace(run) THEN [brackets EXCEPT ![t] = @ + 1] ELSE brackets
    /\ hook' = [hook EXCEPT ![th] = IF skip \/ (run.root /\ run.bad) THEN Idle
                                    ELSE [at |-> "start", run |-> run]]
    /\ began' = [began EXCEPT ![r] = run]
    /\ opened < MaxOpened /\ opened' = opened + 1
    /\ minted' \in 0 .. MaxTraces
    /\ host # None /\ Tracked(host) => t = Entry(host).trace
    /\ UNCHANGED <<running, context, base, blocks, over>>

LEMMA Started ==
    ASSUME TypeInv, NEW th \in Threads, NEW r \in Runs, NEW host \in Runs \cup {None},
           NEW meta \in AgentTraces \cup {None}, NEW t \in Traces,
           NEW skip \in BOOLEAN, NEW bad \in BOOLEAN,
           StartRun(th, r, host, meta, t, skip, bad)
    PROVE  StartFacts(th, r, host, t, skip, RunOf(th, r, host, t, skip, bad))
<1> DEFINE run == RunOf(th, r, host, t, skip, bad)
<1>1. skip \/ Len(spans) < MaxSpans
    BY DEF StartRun
<1>2. run \in Run
    BY <1>1, RunOfTypes
<1>3. /\ hook[th] = Idle /\ began[r] = NoRun
      /\ host # None => Alive(host) /\ ~InHook(host)
      /\ Register(run)
      /\ spans' = IF skip THEN spans
                  ELSE Append(spans, [NewSpan(t, run.parent) EXCEPT !.state = "made"])
      /\ IF run.root THEN OpenRollup(run) ELSE UNCHANGED <<rollups, shared>>
      /\ brackets' = IF StartsTrace(run) THEN [brackets EXCEPT ![t] = @ + 1] ELSE brackets
      /\ hook' = [hook EXCEPT ![th] = IF skip \/ (run.root /\ run.bad) THEN Idle
                                      ELSE [at |-> "start", run |-> run]]
      /\ began' = [began EXCEPT ![r] = run]
      /\ Opens
      /\ UNCHANGED <<running, context, base, blocks, over>>
    BY DEF StartRun, RunOf
<1>4. minted' \in 0 .. MaxTraces
    <2>1. UNCHANGED minted \/ Mint(t)
        BY DEF StartRun, RootTrace
    <2> QED
        BY <2>1, MintTypes DEF TypeInv, TracerTypes
<1>5. host # None /\ Tracked(host) => t = Entry(host).trace
    BY DEF StartRun
<1> HIDE DEF run
<1>6. opened < MaxOpened /\ opened' = opened + 1
    BY <1>3 DEF Opens
<1> QED
    BY <1>1, <1>2, <1>3, <1>4, <1>5, <1>6 DEF StartFacts, run

LEMMA StartsTypes ==
    ASSUME TypeInv, NEW th \in Threads, Starts(th)
    PROVE  TypeInv'
<1>1. PICK r \in Runs, host \in Runs \cup {None}, meta \in AgentTraces \cup {None}, t \in Traces,
           skip \in BOOLEAN, bad \in BOOLEAN : StartRun(th, r, host, meta, t, skip, bad)
    BY DEF Starts
<1> DEFINE run == RunOf(th, r, host, t, skip, bad)
<1>0. StartFacts(th, r, host, t, skip, run)
    BY <1>1, Started
<1> HIDE DEF run
<1>2. run \in Run /\ Register(run) /\ (skip \/ Len(spans) < MaxSpans)
    BY <1>0 DEF StartFacts
<1>3. /\ spans' = IF skip THEN spans
                  ELSE Append(spans, [NewSpan(t, run.parent) EXCEPT !.state = "made"])
      /\ IF run.root THEN OpenRollup(run) ELSE UNCHANGED <<rollups, shared>>
      /\ brackets' = IF StartsTrace(run) THEN [brackets EXCEPT ![t] = @ + 1] ELSE brackets
      /\ hook' = [hook EXCEPT ![th] = IF skip \/ (run.root /\ run.bad) THEN Idle
                                      ELSE [at |-> "start", run |-> run]]
      /\ began' = [began EXCEPT ![r] = run]
    BY <1>0 DEF StartFacts
<1>4. /\ opened' \in 0 .. MaxOpened /\ minted' \in 0 .. MaxTraces
      /\ UNCHANGED <<running, context, base, blocks, over>>
    BY <1>0, Numbers DEF StartFacts, TypeInv, TracerTypes
<1>5. table' \in Seq(Run) /\ evicted' \in SUBSET Runs
    BY <1>2, Registered DEF TypeInv
<1>6. spans' \in Seq(SpanRec) /\ Len(spans') <= MaxSpans
    <2>1. [NewSpan(t, run.parent) EXCEPT !.state = "made"] \in SpanRec
        BY <1>2 DEF NewSpan, SpanRec, Run
    <2> QED
        BY <1>2, <1>3, <2>1, Numbers DEF TypeInv, TracerTypes
<1>7. DOMAIN rollups' \in SUBSET Traces /\ rollups' \in [DOMAIN rollups' -> Rollup]
    <2>1. CASE run.root
        <3> DEFINE new == [root |-> run.id, bad |-> run.bad]
        <3>1. rollups' = [u \in DOMAIN rollups \cup {run.trace} |->
                            IF u = run.trace THEN new ELSE rollups[u]]
            BY <1>3, <2>1 DEF OpenRollup
        <3>2. run.trace \in Traces /\ new \in Rollup
            BY <1>2 DEF Run, Rollup
        <3> HIDE DEF new
        <3> QED
            BY <3>1, <3>2 DEF TypeInv, ChainTypes
    <2>2. CASE ~run.root
        BY <1>3, <2>2 DEF TypeInv, ChainTypes
    <2> QED
        BY <2>1, <2>2
<1>8. shared' \in SUBSET Traces
    BY <1>2, <1>3 DEF TypeInv, ChainTypes, OpenRollup, Run
<1>9. brackets' \in [Traces -> Int]
    BY <1>3 DEF TypeInv, TracerTypes
<1>10. hook' \in [Threads -> Hook \cup {Idle}]
    BY <1>2, <1>3 DEF TypeInv, ChainTypes, Hook
<1>11. began' \in [Runs -> Run \cup {NoRun}]
    BY <1>2, <1>3 DEF TypeInv, ChainTypes
<1>12. TracerTypes'
    BY <1>4, <1>6, <1>9 DEF TypeInv, TracerTypes
<1>13. ChainTypes'
    BY <1>4, <1>5, <1>7, <1>8, <1>10, <1>11 DEF TypeInv, ChainTypes
<1> QED
    BY <1>12, <1>13 DEF TypeInv

\* The hook a thread is inside of has a run.
LEMMA HookTypes ==
    ASSUME ChainTypes, NEW th \in Threads, hook[th] # Idle
    PROVE  hook[th] \in Hook /\ hook[th].run \in Run /\ hook[th].at \in {"start", "end", "close"}
BY DEF ChainTypes, Hook

LEMMA EndRunTypes ==
    ASSUME TypeInv, NEW th \in Threads, NEW r \in Runs, EndRun(th, r)
    PROVE  TypeInv'
<1>1. /\ over' \in SUBSET Runs
      /\ UNCHANGED <<tracerVars, rollups, began, evicted, shared>>
    BY DEF EndRun, TypeInv, ChainTypes
<1>2. TracerTypes'
    BY <1>1 DEF TypeInv, TracerTypes, tracerVars
<1>3. CASE Tracked(r)
    <2>1. Place(r) \in DOMAIN table /\ Entry(r) \in Run
        BY <1>3, Entries DEF TypeInv
    <2>2. /\ table' = RemoveAt(table, Place(r))
          /\ hook' = [hook EXCEPT ![th] = [at |-> "end", run |-> Entry(r)]]
        BY <1>3 DEF EndRun
    <2>3. table' \in Seq(Run)
        BY <2>1, <2>2, Removed DEF TypeInv, ChainTypes
    <2>4. hook' \in [Threads -> Hook \cup {Idle}]
        BY <2>1, <2>2 DEF TypeInv, ChainTypes, Hook
    <2> QED
        BY <1>1, <1>2, <2>3, <2>4 DEF TypeInv, ChainTypes
<1>4. CASE ~Tracked(r)
    <2>1. UNCHANGED <<table, hook>>
        BY <1>4 DEF EndRun
    <2> QED
        BY <1>1, <1>2, <2>1 DEF TypeInv, ChainTypes
<1> QED
    BY <1>3, <1>4

\* The hooks past the lock publish the events of their run and no more.
LEMMA EmitTypes ==
    ASSUME TypeInv, NEW th \in Threads, EmitStart(th) \/ EmitEnd(th) \/ CloseRun(th)
    PROVE  TypeInv'
<1>1. hook[th] # Idle
    BY DEF EmitStart, EmitEnd, CloseRun
<1>2. hook[th].run \in Run
    BY <1>1, HookTypes DEF TypeInv
<1>3. /\ UNCHANGED <<running, context, base, blocks, opened, minted>>
      /\ UNCHANGED <<table, began, over, evicted, shared>>
    BY DEF EmitStart, EmitEnd, CloseRun
<1>4. CASE EmitStart(th) \/ EmitEnd(th)
    <2>1. spans' \in Seq(SpanRec) /\ Len(spans') <= MaxSpans
        <3>1. \/ spans' = spans
              \/ \E s : \E v \in {"made", "open", "ended"} : spans' = [spans EXCEPT ![s].state = v]
            BY <1>4 DEF EmitStart, EmitEnd
        <3>2. CASE spans' = spans
            BY <3>2 DEF TypeInv, TracerTypes
        <3>3. ASSUME NEW s, NEW v \in {"made", "open", "ended"}, spans' = [spans EXCEPT ![s].state = v]
              PROVE  spans' \in Seq(SpanRec) /\ Len(spans') <= MaxSpans
            BY <3>3, SpanUpdates DEF TypeInv, TracerTypes
        <3> QED
            BY <3>1, <3>2, <3>3
    <2>2. hook' \in [Threads -> Hook \cup {Idle}]
        BY <1>2, <1>4 DEF EmitStart, EmitEnd, TypeInv, ChainTypes, Hook
    <2>3. UNCHANGED <<brackets, rollups>>
        BY <1>4 DEF EmitStart, EmitEnd
    <2> QED
        BY <1>3, <2>1, <2>2, <2>3 DEF TypeInv, TracerTypes, ChainTypes
<1>5. CASE CloseRun(th)
    <2> DEFINE t == hook[th].run.trace
    <2>1. t \in Traces
        BY <1>2 DEF Run
    <2>2. /\ rollups' = [u \in DOMAIN rollups \ {t} |-> rollups[u]]
          /\ \/ brackets' = brackets
             \/ brackets' = [brackets EXCEPT ![t] = @ - 1]
          /\ hook' = [hook EXCEPT ![th] = Idle]
          /\ UNCHANGED spans
        BY <1>5 DEF CloseRun
    <2> HIDE DEF t
    <2>3. DOMAIN rollups' \in SUBSET Traces /\ rollups' \in [DOMAIN rollups' -> Rollup]
        BY <2>2 DEF TypeInv, ChainTypes
    <2>4. brackets' \in [Traces -> Int] /\ hook' \in [Threads -> Hook \cup {Idle}]
        BY <2>1, <2>2 DEF TypeInv, ChainTypes, TracerTypes
    <2> QED
        BY <1>3, <2>2, <2>3, <2>4 DEF TypeInv, TracerTypes, ChainTypes
<1> QED
    BY <1>4, <1>5

LEMMA InitTypes == Init => TypeInv
<1> SUFFICES ASSUME Init
             PROVE  TypeInv
    OBVIOUS
<1>1. TracerTypes
    BY Numbers DEF Init, TracerInit, TracerTypes, Context, NoContext
<1>2. ChainTypes
    BY DEF Init, ChainTypes
<1> QED
    BY <1>1, <1>2 DEF TypeInv

LEMMA NextTypes == TypeInv /\ [Next]_vars => TypeInv'
<1> SUFFICES ASSUME TypeInv, [Next]_vars
             PROVE  TypeInv'
    OBVIOUS
<1>1. CASE Next
    BY <1>1, Steps, StartsTypes, EndRunTypes, EmitTypes, BlocksTypes, BeginsTypes DEF Hooks
<1>2. CASE UNCHANGED vars
    BY <1>2 DEF vars, tracerVars, chainVars, TypeInv, TracerTypes, ChainTypes
<1> QED
    BY <1>1, <1>2

\* The state of the tracer and of the callback handler stays within its types, whatever
\* the threads do: the span a block or a hook works on is one that was made.
THEOREM TypeCorrect == Spec => []TypeInv
<1> QED
    BY InitTypes, NextTypes, PTL DEF Spec

-------------------------------------------------------------------------------
(* The context of a thread is that of its blocks                           *)

\* A set of naturals that is bounded and not empty has a greatest element.
LEMMA MaxOf ==
    ASSUME NEW n \in Nat, NEW S \in SUBSET (0 .. n), S # {}
    PROVE  Max(S) \in S /\ \A y \in S : y <= Max(S)
<1> DEFINE Smaller == {p \in Nat \X Nat : p[1] < p[2]}
           Bounds == {u \in Nat : \A y \in S : y <= u}
<1>1. IsWellFoundedOn(Smaller, Nat)
    BY NatLessThanWellFounded DEF OpToRel
<1>2. Bounds \in SUBSET Nat /\ n \in Bounds
    OBVIOUS
<1>3. \A x, y \in Nat : y < x => <<y, x>> \in Smaller
    OBVIOUS
<1>4. PICK u \in Bounds : \A v \in Bounds : <<v, u>> \notin Smaller
    <2> HIDE DEF Smaller, Bounds
    <2> QED
        BY <1>1, <1>2, WFMin
<1>5. \A v \in Bounds : ~(v < u)
    <2> HIDE DEF Smaller
    <2> QED
        BY <1>3, <1>4
<1>6. u \in S
    <2>1. CASE u = 0
        <3>1. PICK y \in S : TRUE
            OBVIOUS
        <3>2. y \in 0 .. n /\ y <= 0
            BY <2>1
        <3>3. y = 0
            BY <3>2
        <3> QED
            BY <2>1, <3>3
    <2>2. CASE u # 0 /\ u \notin S
        <3>1. u - 1 \in Nat /\ u - 1 < u
            BY <2>2
        <3>2. \A y \in S : y <= u - 1
            BY <2>2
        <3> QED
            BY <1>5, <3>1, <3>2
    <2> QED
        BY <2>1, <2>2
<1>7. \E x \in S : \A y \in S : x >= y
    BY <1>6
<1>8. Max(S) \in S /\ \A y \in S : Max(S) >= y
    BY <1>7 DEF Max
<1> QED
    BY <1>8

LEMMA Setters ==
    ASSUME NEW bs, NEW what, NEW n \in Nat
    PROVE  /\ SetterOf(bs, what, n) \in 0 .. n
           /\ SetterOf(bs, what, n + 1)
                = IF what \in bs[n + 1].sets THEN n + 1 ELSE SetterOf(bs, what, n)
<1> DEFINE Upto(m) == {0} \cup {i \in 1 .. m : what \in bs[i].sets}
<1>1. /\ Upto(n) \in SUBSET (0 .. n) /\ Upto(n) # {}
      /\ Upto(n + 1) \in SUBSET (0 .. n + 1) /\ Upto(n + 1) # {} /\ n + 1 \in Nat
    OBVIOUS
<1>2. Upto(n + 1) = IF what \in bs[n + 1].sets THEN Upto(n) \cup {n + 1} ELSE Upto(n)
    OBVIOUS
<1>3. /\ SetterOf(bs, what, n) = Max(Upto(n))
      /\ SetterOf(bs, what, n + 1) = Max(Upto(n + 1))
    BY DEF SetterOf
<1> HIDE DEF Upto
<1>4. Max(Upto(n)) \in Upto(n) /\ \A y \in Upto(n) : y <= Max(Upto(n))
    BY <1>1, MaxOf
<1>5. Max(Upto(n + 1)) \in Upto(n + 1) /\ \A y \in Upto(n + 1) : y <= Max(Upto(n + 1))
    BY <1>1, MaxOf
<1>6. CASE what \in bs[n + 1].sets
    BY <1>1, <1>2, <1>3, <1>4, <1>5, <1>6
<1>7. CASE what \notin bs[n + 1].sets
    BY <1>1, <1>2, <1>3, <1>4, <1>7
<1> QED
    BY <1>6, <1>7

\* One block further in: what it sets, and of the rest what there was.
Through(b, c) ==
    [trace |-> IF "trace" \in b.sets THEN b.trace ELSE c.trace,
     span  |-> IF "span" \in b.sets THEN b.span ELSE c.span,
     llm   |-> IF "llm" \in b.sets THEN b.span ELSE c.llm]

LEMMA InsideNext ==
    ASSUME NEW bs, NEW c, NEW n \in Nat
    PROVE  Inside(bs, c, n + 1) = Through(bs[n + 1], Inside(bs, c, n))
<1>1. \A what \in {"trace", "span", "llm"} :
         SetterOf(bs, what, n + 1)
            = IF what \in bs[n + 1].sets THEN n + 1 ELSE SetterOf(bs, what, n)
    BY Setters
<1>2. n + 1 # 0
    OBVIOUS
<1> QED
    BY <1>1, <1>2 DEF Inside, Through

\* The context inside some blocks depends on those blocks and on nothing else.
LEMMA InsideSame ==
    ASSUME NEW bs, NEW cs, NEW c, NEW n \in Nat, \A i \in 1 .. n : cs[i] = bs[i]
    PROVE  Inside(cs, c, n) = Inside(bs, c, n)
<1>1. \A what : {i \in 1 .. n : what \in cs[i].sets} = {i \in 1 .. n : what \in bs[i].sets}
    OBVIOUS
<1>2. \A what : SetterOf(cs, what, n) = SetterOf(bs, what, n)
    BY <1>1 DEF SetterOf
<1>3. \A what : SetterOf(bs, what, n) # 0 => SetterOf(bs, what, n) \in 1 .. n
    BY Setters
<1> QED
    BY <1>2, <1>3 DEF Inside

\* Contexts are equal when their variables are.
LEMMA ContextsEqual ==
    ASSUME NEW c \in Context, NEW t, NEW s, NEW l, c.trace = t, c.span = s, c.llm = l
    PROVE  c = [trace |-> t, span |-> s, llm |-> l]
BY DEF Context

\* A thread enters a block: the context becomes the block's, over the one it is in.
LEMMA EnterContext ==
    ASSUME TypeInv, ContextInv, NEW th \in Threads, th \in running,
           NEW block \in Block, NEW inner, Enter(th, block, inner),
           block.outer = context[th], inner = Through(block, context[th]),
           UNCHANGED <<running, base>>
    PROVE  ContextInv'
<1>1. blocks[th] \in Seq(Block)
    BY DEF TypeInv, TracerTypes
<1> DEFINE n == Len(blocks[th])
<1>2. /\ blocks'[th] = Append(blocks[th], block) /\ context'[th] = inner
      /\ \A o \in Threads \ {th} : blocks'[o] = blocks[o] /\ context'[o] = context[o]
    BY DEF Enter, TypeInv, TracerTypes
<1>3. /\ n \in Nat /\ DOMAIN blocks[th] = 1 .. n
      /\ Len(blocks'[th]) = n + 1 /\ DOMAIN blocks'[th] = 1 .. n + 1
      /\ blocks'[th][n + 1] = block
      /\ \A i \in 1 .. n : blocks'[th][i] = blocks[th][i]
    BY <1>1, <1>2, Appended
<1> HIDE DEF n
<1> DEFINE bs == blocks[th]
           cs == blocks'[th]
           c == base[th]
<1>4. \A i \in 0 .. n : Inside(cs, c, i) = Inside(bs, c, i)
    <2> TAKE i \in 0 .. n
    <2>1. i \in Nat /\ \A j \in 1 .. i : cs[j] = bs[j]
        BY <1>3
    <2> HIDE DEF bs, cs, c
    <2> QED
        BY <2>1, InsideSame
<1>5. context[th] = Inside(bs, c, n)
    BY DEF ContextInv, n
<1>6. Inside(cs, c, n + 1) = inner
    <2>1. Inside(cs, c, n + 1) = Through(cs[n + 1], Inside(cs, c, n))
        BY <1>3, InsideNext
    <2>2. Inside(cs, c, n) = context[th]
        BY <1>3, <1>4, <1>5
    <2> QED
        BY <1>3, <2>1, <2>2
<1>7. \A i \in 1 .. n + 1 : cs[i].outer = Inside(cs, c, i - 1)
    <2> TAKE i \in 1 .. n + 1
    <2>1. i - 1 \in 0 .. n
        BY <1>3
    <2>2. CASE i = n + 1
        <3>1. i - 1 = n
            BY <1>3, <2>2
        <3> QED
            BY <1>3, <1>4, <1>5, <2>1, <2>2, <3>1
    <2>3. CASE i # n + 1
        <3>1. i \in 1 .. n
            BY <1>3, <2>3
        <3> QED
            BY <1>3, <1>4, <2>1, <3>1 DEF ContextInv
    <2> QED
        BY <2>2, <2>3
<1>8. ASSUME NEW o \in Threads
      PROVE  /\ o \notin running' => blocks'[o] = <<>>
             /\ context'[o] = Inside(blocks'[o], base'[o], Len(blocks'[o]))
             /\ \A i \in DOMAIN blocks'[o] :
                   blocks'[o][i].outer = Inside(blocks'[o], base'[o], i - 1)
    <2>1. CASE o = th
        BY <1>2, <1>3, <1>6, <1>7, <2>1
    <2>2. CASE o # th
        BY <1>2, <2>2 DEF ContextInv
    <2> QED
        BY <2>1, <2>2
<1> QED
    BY <1>8 DEF ContextInv

\* It leaves its innermost block: the context is the one the block was opened in.
LEMMA LeaveContext ==
    ASSUME TypeInv, ContextInv, NEW th \in Threads, blocks[th] # <<>>, Leave(th),
           UNCHANGED <<running, base>>
    PROVE  ContextInv'
<1>1. blocks[th] \in Seq(Block)
    BY DEF TypeInv, TracerTypes
<1> DEFINE bs == blocks[th]
           cs == blocks'[th]
           n == Len(bs) - 1
           b == Last(bs)
           c == context[th]
<1>2. /\ n \in Nat /\ DOMAIN bs = 1 .. n + 1 /\ Len(bs) = n + 1
      /\ b = bs[n + 1] /\ b \in Block
      /\ Front(bs) \in Seq(Block) /\ Len(Front(bs)) = n
      /\ \A i \in 1 .. n : Front(bs)[i] = bs[i]
    <2>1. /\ Len(bs) \in Nat \ {0} /\ DOMAIN bs = 1 .. Len(bs)
          /\ Last(bs) = bs[Len(bs)] /\ Last(bs) \in Block
          /\ Front(bs) \in Seq(Block) /\ Len(Front(bs)) = Len(bs) - 1
          /\ \A i \in 1 .. Len(bs) - 1 : Front(bs)[i] = bs[i]
        BY <1>1, LastAndFront
    <2>2. n \in Nat /\ n + 1 = Len(bs)
        BY <2>1
    <2> HIDE DEF bs
    <2> QED
        BY <2>1, <2>2
<1>3. /\ cs = Front(bs)
      /\ context'[th] = [trace |-> IF "trace" \in b.sets THEN b.outer.trace ELSE c.trace,
                         span  |-> IF "span" \in b.sets THEN b.outer.span ELSE c.span,
                         llm   |-> IF "llm" \in b.sets THEN b.outer.llm ELSE c.llm]
      /\ \A o \in Threads \ {th} : blocks'[o] = blocks[o] /\ context'[o] = context[o]
    BY DEF Leave, TypeInv, TracerTypes
<1>4. DOMAIN cs = 1 .. n /\ Len(cs) = n
    BY <1>2, <1>3, LenProperties
<1>5. c = Inside(bs, base[th], n + 1) /\ b.outer = Inside(bs, base[th], n)
    BY <1>2 DEF ContextInv
<1> HIDE DEF n, b
<1>6. c = Through(b, b.outer)
    BY <1>2, <1>5, InsideNext
<1>7. b.outer \in Context
    BY <1>2 DEF Block
<1>8. context'[th] = b.outer
    <2>1. /\ "trace" \notin b.sets => c.trace = b.outer.trace
          /\ "span" \notin b.sets => c.span = b.outer.span
          /\ "llm" \notin b.sets => c.llm = b.outer.llm
        BY <1>6 DEF Through
    <2>2. context'[th] = [trace |-> b.outer.trace, span |-> b.outer.span, llm |-> b.outer.llm]
        BY <1>3, <2>1
    <2> QED
        BY <1>7, <2>2, ContextsEqual
<1>9. \A i \in 0 .. n : Inside(cs, base[th], i) = Inside(bs, base[th], i)
    <2> TAKE i \in 0 .. n
    <2>1. i \in Nat /\ \A j \in 1 .. i : cs[j] = bs[j]
        BY <1>2, <1>3
    <2> HIDE DEF bs, cs
    <2> QED
        BY <2>1, InsideSame
<1>10. \A i \in 1 .. n : cs[i].outer = Inside(cs, base[th], i - 1)
    <2> TAKE i \in 1 .. n
    <2>1. i - 1 \in 0 .. n /\ cs[i] = bs[i] /\ i \in DOMAIN bs
        BY <1>2, <1>3
    <2> QED
        BY <1>9, <2>1 DEF ContextInv
<1>11. context'[th] = Inside(cs, base[th], n)
    BY <1>2, <1>5, <1>8, <1>9
<1>12. ASSUME NEW o \in Threads
       PROVE  /\ o \notin running' => blocks'[o] = <<>>
              /\ context'[o] = Inside(blocks'[o], base'[o], Len(blocks'[o]))
              /\ \A i \in DOMAIN blocks'[o] :
                    blocks'[o][i].outer = Inside(blocks'[o], base'[o], i - 1)
    <2>1. CASE o = th
        <3>1. th \in running
            BY DEF ContextInv
        <3> QED
            BY <1>4, <1>10, <1>11, <2>1, <3>1
    <2>2. CASE o # th
        BY <1>3, <2>2 DEF ContextInv
    <2> QED
        BY <2>1, <2>2
<1> QED
    BY <1>12 DEF ContextInv

LEMMA BlocksContext ==
    ASSUME TypeInv, ContextInv, NEW th \in Threads, Blocks(th)
    PROVE  ContextInv'
<1> USE Numbers
<1> DEFINE c == context[th]
<1>1. c \in Context /\ Len(spans) \in Nat
    BY LenProperties DEF TypeInv, TracerTypes
<1>2. th \in running
    BY DEF Blocks
<1>3. CASE \E t \in Traces : OpenTrace(th, t)
    <2>1. PICK t \in Traces : OpenTrace(th, t)
        BY <1>3
    <2> DEFINE block == [trace |-> t, span |-> 0, outer |-> c,
                         sets |-> {"trace", "span"}, brackets |-> TRUE]
    <2>2. Enter(th, block, InTrace(th, t)) /\ UNCHANGED <<running, base>>
        BY <2>1 DEF OpenTrace
    <2>3. block \in Block
        BY <1>1 DEF Block
    <2>4. InTrace(th, t) = Through(block, c)
        <3>1. t \in Traces \cup {None} /\ 0 \in 0 .. MaxSpans
            OBVIOUS
        <3>2. /\ InTrace(th, t) \in Context /\ InTrace(th, t).trace = t
              /\ InTrace(th, t).span = 0 /\ InTrace(th, t).llm = c.llm
            <4>1. InTrace(th, t) \in Context
                BY <1>1, <3>1, ContextUpdate, Zenon DEF InTrace
            <4>2. /\ InTrace(th, t).trace = t /\ InTrace(th, t).span = 0
                  /\ InTrace(th, t).llm = c.llm
                BY <1>1 DEF InTrace, Context
            <4> QED
                BY <4>1, <4>2
        <3>3. InTrace(th, t) = [trace |-> t, span |-> 0, llm |-> c.llm]
            BY <3>2, ContextsEqual
        <3> QED
            BY <3>3 DEF Through
    <2>5. block.outer = c
        OBVIOUS
    <2> HIDE DEF block
    <2> QED
        BY <1>2, <2>2, <2>3, <2>4, <2>5, EnterContext
<1>4. CASE \E t \in Traces, pinned \in BOOLEAN : OpenSpan(th, t, pinned)
    <2>1. PICK t \in Traces, pinned \in BOOLEAN : OpenSpan(th, t, pinned)
        BY <1>4
    <2> DEFINE s == Len(spans) + 1
               block == [trace |-> t, span |-> s, outer |-> c, brackets |-> FALSE,
                         sets |-> IF c.trace = t THEN {"span"} ELSE {"span", "trace"}]
               inner == [c EXCEPT !.trace = t, !.span = s]
    <2>2. Enter(th, block, inner) /\ UNCHANGED <<running, base>> /\ s \in 0 .. MaxSpans
        BY <1>1, <2>1 DEF OpenSpan
    <2>3. block \in Block
        BY <1>1, <2>2 DEF Block
    <2>4. inner = Through(block, c)
        <3>1. t \in Traces \cup {None}
            OBVIOUS
        <3>2. inner \in Context /\ inner.trace = t /\ inner.span = s /\ inner.llm = c.llm
            <4>1. inner.trace = t /\ inner.span = s /\ inner.llm = c.llm
                BY <1>1 DEF Context
            <4>2. inner \in Context
                <5> HIDE DEF s
                <5> QED
                    BY <1>1, <2>2, <3>1, ContextUpdate, Zenon
            <4> QED
                BY <4>1, <4>2
        <3>3. inner = [trace |-> t, span |-> s, llm |-> c.llm]
            <4> HIDE DEF inner
            <4> QED
                BY <3>2, ContextsEqual
        <3> QED
            BY <3>3 DEF Through
    <2>5. block.outer = c
        OBVIOUS
    <2> HIDE DEF block, inner
    <2> QED
        BY <1>2, <2>2, <2>3, <2>4, <2>5, EnterContext
<1>5. CASE \E t \in Traces, named, llm \in BOOLEAN : OpenOperation(th, t, named, llm)
    <2>1. PICK t \in Traces, named \in BOOLEAN, llm \in BOOLEAN : OpenOperation(th, t, named, llm)
        BY <1>5
    <2> DEFINE d == IF named THEN InScope(th, t) ELSE c
               s == Len(spans) + 1
               l == IF llm THEN s ELSE d.llm
               block == [trace |-> t, span |-> s, outer |-> c, brackets |-> FALSE,
                         sets |-> {"span"} \cup (IF named THEN {"trace"} ELSE {})
                                           \cup (IF llm THEN {"llm"} ELSE {})]
               inner == [d EXCEPT !.span = s, !.llm = l]
    <2>2. Enter(th, block, inner) /\ UNCHANGED <<running, base>> /\ s \in 0 .. MaxSpans
        BY <1>1, <2>1 DEF OpenOperation
    <2>3. block \in Block
        BY <1>1, <2>2 DEF Block
    <2>4. /\ d \in Context /\ d.trace = (IF named THEN t ELSE c.trace) /\ d.llm = c.llm
        BY <1>1 DEF InScope, Context
    <2>5. l \in 0 .. MaxSpans
        BY <2>2, <2>4 DEF Context
    <2>6. inner = Through(block, c)
        <3>1. inner \in Context /\ inner.trace = d.trace /\ inner.span = s /\ inner.llm = l
            <4> HIDE DEF s, l, d
            <4>1. inner.trace = d.trace /\ inner.span = s /\ inner.llm = l
                BY <2>4 DEF Context
            <4>2. inner \in Context
                BY <2>2, <2>4, <2>5, OperationUpdate, Zenon
            <4> QED
                BY <4>1, <4>2
        <3>2. inner = [trace |-> d.trace, span |-> s, llm |-> l]
            <4> HIDE DEF inner
            <4> QED
                BY <3>1, ContextsEqual
        <3>3. /\ "trace" \in block.sets <=> named
              /\ "span" \in block.sets
              /\ "llm" \in block.sets <=> llm
              /\ block.trace = t /\ block.span = s
            OBVIOUS
        <3>4. l = IF llm THEN s ELSE c.llm
            BY <2>4
        <3> HIDE DEF block, inner, d, l, s
        <3> QED
            BY <2>4, <3>2, <3>3, <3>4 DEF Through
    <2>7. block.outer = c
        OBVIOUS
    <2> HIDE DEF block, inner
    <2> QED
        BY <1>2, <2>2, <2>3, <2>6, <2>7, EnterContext
<1>6. CASE CloseTrace(th) \/ CloseSpan(th)
    BY <1>6, LeaveContext DEF CloseTrace, CloseSpan
<1>7. CASE RecordUsage(th)
    BY <1>7 DEF RecordUsage, ContextInv
<1> QED
    BY <1>3, <1>4, <1>5, <1>6, <1>7 DEF Blocks

LEMMA BeginsContext ==
    ASSUME TypeInv, ContextInv, NEW th \in Threads, Begins(th)
    PROVE  ContextInv'
<1>1. PICK c \in {NoContext} \cup {context[from] : from \in running} : Begin(th, c)
    BY DEF Begins
<1>2. c \in Context
    BY Numbers DEF TypeInv, TracerTypes, Context, NoContext
<1>3. /\ th \notin running /\ running' = running \cup {th} /\ UNCHANGED blocks
      /\ base'[th] = c /\ context'[th] = c
      /\ \A o \in Threads \ {th} : base'[o] = base[o] /\ context'[o] = context[o]
    BY <1>1 DEF Begin, TypeInv, TracerTypes
<1>4. blocks'[th] = <<>> /\ Len(blocks'[th]) = 0 /\ DOMAIN blocks'[th] = {}
    BY <1>3 DEF ContextInv
<1>5. Inside(<<>>, c, 0) = c
    <2>1. \A what : SetterOf(<<>>, what, 0) = 0
        BY Setters
    <2>2. Inside(<<>>, c, 0) = [trace |-> c.trace, span |-> c.span, llm |-> c.llm]
        BY <2>1 DEF Inside
    <2> QED
        BY <1>2, <2>2, ContextsEqual
<1>6. ASSUME NEW o \in Threads
      PROVE  /\ o \notin running' => blocks'[o] = <<>>
             /\ context'[o] = Inside(blocks'[o], base'[o], Len(blocks'[o]))
             /\ \A i \in DOMAIN blocks'[o] :
                   blocks'[o][i].outer = Inside(blocks'[o], base'[o], i - 1)
    <2>1. CASE o = th
        BY <1>3, <1>4, <1>5, <2>1
    <2>2. CASE o # th
        BY <1>3, <2>2 DEF ContextInv
    <2> QED
        BY <2>1, <2>2
<1> QED
    BY <1>6 DEF ContextInv

LEMMA InitContext == Init => ContextInv
<1> SUFFICES ASSUME Init, NEW th \in Threads
             PROVE  /\ th \notin running => blocks[th] = <<>>
                    /\ context[th] = Inside(blocks[th], base[th], Len(blocks[th]))
                    /\ \A i \in DOMAIN blocks[th] :
                          blocks[th][i].outer = Inside(blocks[th], base[th], i - 1)
    BY DEF ContextInv
<1>1. blocks[th] = <<>> /\ context[th] = NoContext /\ base[th] = NoContext
    BY DEF Init, TracerInit
<1>2. \A what : SetterOf(<<>>, what, 0) = 0
    BY Setters
<1>3. Inside(<<>>, NoContext, 0) = NoContext
    BY <1>2 DEF Inside, NoContext
<1>4. Len(blocks[th]) = 0 /\ DOMAIN blocks[th] = {}
    BY <1>1
<1> QED
    BY <1>1, <1>3, <1>4

\* No hook of the callback handler touches a context or a block.
LEMMA HooksLeaveContext ==
    ASSUME TypeInv, NEW th \in Threads, Hooks(th)
    PROVE  UNCHANGED <<running, context, base, blocks>>
<1>1. Starts(th) => UNCHANGED <<running, context, base, blocks>>
    BY DEF Starts, StartRun
<1>2. \A r \in Runs : EndRun(th, r) => UNCHANGED <<running, context, base, blocks>>
    BY DEF EndRun, tracerVars
<1> QED
    BY <1>1, <1>2 DEF Hooks, EmitStart, EmitEnd, CloseRun

LEMMA NextContext == TypeInv /\ ContextInv /\ [Next]_vars => ContextInv'
<1> SUFFICES ASSUME TypeInv, ContextInv, [Next]_vars
             PROVE  ContextInv'
    OBVIOUS
<1>1. UNCHANGED <<running, context, base, blocks>> => ContextInv'
    BY DEF ContextInv
<1>2. CASE Next
    BY <1>1, <1>2, Steps, BlocksContext, BeginsContext, HooksLeaveContext
<1>3. CASE UNCHANGED vars
    BY <1>1, <1>3 DEF vars, tracerVars
<1> QED
    BY <1>2, <1>3

LEMMA ContextImplies == TypeInv /\ ContextInv => ContextMatchesBlocks
<1> SUFFICES ASSUME TypeInv, ContextInv, NEW th \in Threads
             PROVE  LET T == Setter(th, "trace") S == Setter(th, "span") L == Setter(th, "llm")
                    IN  context[th] =
                          [trace |-> IF T = 0 THEN base[th].trace ELSE blocks[th][T].trace,
                           span  |-> IF S = 0 THEN base[th].span ELSE blocks[th][S].span,
                           llm   |-> IF L = 0 THEN base[th].llm ELSE blocks[th][L].span]
    BY DEF ContextMatchesBlocks
<1>1. DOMAIN blocks[th] = 1 .. Len(blocks[th])
    BY LenProperties DEF TypeInv, TracerTypes
<1>2. \A what : Setter(th, what) = SetterOf(blocks[th], what, Len(blocks[th]))
    BY <1>1 DEF Setter, SetterOf
<1> QED
    BY <1>2 DEF ContextInv, Inside

\* A thread's context is at every moment that of the blocks it is inside of: no trace
\* or span of an earlier request survives the blocks that set it, whatever was opened,
\* pinned, scoped and closed in between, in any number of threads.
THEOREM ContextsRestored == Spec => []ContextMatchesBlocks
<1>1. Init => TypeInv /\ ContextInv
    BY InitTypes, InitContext
<1>2. TypeInv /\ ContextInv /\ [Next]_vars => (TypeInv /\ ContextInv)'
    BY NextTypes, NextContext
<1>3. TypeInv /\ ContextInv => ContextMatchesBlocks
    BY ContextImplies
<1> QED
    BY <1>1, <1>2, <1>3, PTL DEF Spec

-------------------------------------------------------------------------------
(* The runs of the host and the table of the handler                       *)

LEMMA RunsExist ==
    ASSUME NEW e \in Run
    PROVE  e # NoRun
<1>1. DOMAIN e = {"id", "host", "trace", "span", "parent", "root", "bad"}
    BY DEF Run
<1>2. DOMAIN NoRun = {}
    BY DEF NoRun
<1> QED
    BY <1>1, <1>2

LEMMA HooksExist ==
    ASSUME NEW h \in Hook
    PROVE  h # Idle
<1>1. DOMAIN h = {"at", "run"}
    BY DEF Hook
<1>2. DOMAIN Idle = {}
    BY DEF Idle
<1> QED
    BY <1>1, <1>2

\* A tracked run's entry is the one it began with.
LEMMA EntryBegan ==
    ASSUME ChainTypes, RunInv, NEW r \in Runs, Tracked(r)
    PROVE  Entry(r) = began[r] /\ began[r] # NoRun
<1>1. Place(r) \in DOMAIN table /\ Entry(r) = table[Place(r)] /\ Entry(r) \in Run /\ Entry(r).id = r
    BY Entries
<1> QED
    BY <1>1, RunsExist DEF RunInv

\* The fields of the entry that is made.
LEMMA RunFields ==
    ASSUME NEW th, NEW r, NEW host, NEW t, NEW skip, NEW bad
    PROVE  LET run == RunOf(th, r, host, t, skip, bad)
               inherits == host # None /\ Tracked(host)
           IN  /\ run.id = r /\ run.host = host /\ run.trace = t /\ run.root = ~inherits
               /\ run.span = IF skip THEN 0 ELSE Len(spans) + 1
               /\ run.parent = IF inherits THEN ParentSpan(Entry(host)) ELSE context[th].span
               /\ run.bad = IF inherits THEN Entry(host).bad ELSE bad
BY DEF RunOf

LEMMA StartsForest ==
    ASSUME TypeInv, ForestInv, NEW th \in Threads, Starts(th)
    PROVE  ForestInv'
<1>1. PICK r \in Runs, host \in Runs \cup {None}, meta \in AgentTraces \cup {None}, t \in Traces,
           skip \in BOOLEAN, bad \in BOOLEAN : StartRun(th, r, host, meta, t, skip, bad)
    BY DEF Starts
<1> DEFINE run == RunOf(th, r, host, t, skip, bad)
           inherits == host # None /\ Tracked(host)
<1>2. StartFacts(th, r, host, t, skip, run)
    BY <1>1, Started
<1>3. /\ run.id = r /\ run.host = host /\ run.trace = t
      /\ run.span = IF skip THEN 0 ELSE Len(spans) + 1
      /\ inherits => run.parent = ParentSpan(Entry(host))
    BY RunFields
<1> HIDE DEF run
<1>4. /\ run \in Run /\ run # NoRun
      /\ hook[th] = Idle /\ began[r] = NoRun /\ UNCHANGED over
      /\ host # None => Alive(host)
      /\ inherits => t = Entry(host).trace
    BY <1>2, RunsExist DEF StartFacts
<1>5. began'[r] = run /\ \A x \in Runs \ {r} : began'[x] = began[x]
    BY <1>2 DEF StartFacts, TypeInv, ChainTypes
<1>6. /\ hook'[th] = Idle \/ (hook'[th] = [at |-> "start", run |-> run] /\ ~skip)
      /\ \A o \in Threads \ {th} : hook'[o] = hook[o]
    BY <1>2 DEF StartFacts, TypeInv, ChainTypes
<1>7. /\ evicted \subseteq evicted' /\ evicted' \in SUBSET Runs
      /\ \A i \in DOMAIN table' :
            table'[i] = run \/ \E j \in DOMAIN table : table'[i] = table[j]
      /\ \A e \in {run} \cup {table[j] : j \in DOMAIN table} :
            e.id \in evicted' \/ \E i \in DOMAIN table' : table'[i] = e
      /\ \A x \in evicted' :
            x \in evicted \/ x = run.id \/ \E j \in DOMAIN table : table[j].id = x
    BY <1>2, Registered DEF StartFacts, TypeInv
<1>8. \A j \in DOMAIN table : table[j] \in Run /\ table[j].id \in Runs
    <2>1. \A j \in DOMAIN table : table[j] \in Run
        BY ElementOfSeq, LenProperties DEF TypeInv, ChainTypes
    <2> QED
        BY <2>1 DEF Run
<1>9. \A j \in DOMAIN table : began[table[j].id] # NoRun /\ table[j].id # r
    BY <1>4, <1>8, RunsExist DEF ForestInv, RunInv
<1>10. \A x \in Runs : began[x] # NoRun => x # r /\ began'[x] = began[x] /\ began'[x] # NoRun
    BY <1>4, <1>5
<1>11. r \notin over /\ r \notin evicted /\ host # r
    BY <1>4, Numbers DEF ForestInv, RunInv, Alive
<1>12. host # None => began[host] # NoRun /\ host \in Runs /\ host \notin over
    BY <1>4, Numbers DEF Alive
<1>13. RunInv'
    <2>1. \A i \in DOMAIN table' : began'[table'[i].id] = table'[i]
        <3> TAKE i \in DOMAIN table'
        <3>1. CASE table'[i] = run
            BY <1>3, <1>5, <3>1
        <3>2. CASE \E j \in DOMAIN table : table'[i] = table[j]
            BY <1>5, <1>8, <1>9, <3>2 DEF ForestInv, RunInv
        <3> QED
            BY <1>7, <3>1, <3>2
    <2>2. \A x \in over' \cup evicted' : began'[x] # NoRun
        <3> TAKE x \in over' \cup evicted'
        <3>1. CASE x \in over \cup evicted
            BY <1>10, <3>1 DEF ForestInv, RunInv, TypeInv, ChainTypes
        <3>2. CASE x = r
            BY <1>4, <1>5, <3>2
        <3>3. CASE \E j \in DOMAIN table : table[j].id = x
            BY <1>8, <1>9, <1>10, <3>3
        <3> QED
            BY <1>3, <1>4, <1>7, <3>1, <3>2, <3>3
    <2>3. ASSUME NEW x \in Runs, Alive(x)'
          PROVE  Tracked(x)' \/ x \in evicted'
        <3>1. CASE x = r
            BY <1>3, <1>7, <3>1 DEF Tracked
        <3>2. CASE x # r
            <4>1. Alive(x)
                BY <1>4, <1>5, <2>3, <3>2 DEF Alive
            <4>2. CASE Tracked(x)
                <5>1. PICK j \in DOMAIN table : table[j].id = x
                    BY <4>2 DEF Tracked
                <5> QED
                    BY <1>7, <5>1 DEF Tracked
            <4> QED
                BY <1>7, <4>1, <4>2 DEF ForestInv, RunInv
        <3> QED
            BY <3>1, <3>2
    <2>4. ASSUME NEW x \in Runs, began'[x] # NoRun
          PROVE  /\ began'[x].id = x
                 /\ began'[x].host # None => began'[began'[x].host] # NoRun
        <3>1. CASE x = r
            BY <1>3, <1>5, <1>10, <1>12, <3>1
        <3>2. CASE x # r
            <4>1. began'[x] = began[x] /\ began[x] \in Run
                BY <1>5, <2>4, <3>2 DEF TypeInv, ChainTypes
            <4>2. /\ began[x].id = x
                  /\ began[x].host # None => began[began[x].host] # NoRun /\ began[x].host \in Runs
                BY <2>4, <4>1 DEF ForestInv, RunInv, Run
            <4> QED
                BY <1>10, <4>1, <4>2
        <3> QED
            BY <3>1, <3>2
    <2> QED
        BY <2>1, <2>2, <2>3, <2>4 DEF RunInv
<1>14. HookInv'
    <2>1. \A o \in Threads : hook[o] # Idle =>
             hook[o].run.id # r /\ began'[hook[o].run.id] = hook[o].run
        <3> SUFFICES ASSUME NEW o \in Threads, hook[o] # Idle
                     PROVE  hook[o].run.id # r /\ began'[hook[o].run.id] = hook[o].run
            OBVIOUS
        <3>1. hook[o].run \in Run /\ hook[o].run.id \in Runs
            BY HookTypes DEF TypeInv, Run
        <3>2. began[hook[o].run.id] = hook[o].run
            BY DEF ForestInv, HookInv
        <3> QED
            BY <1>10, <3>1, <3>2, RunsExist
    <2>2. ASSUME NEW o \in Threads, hook'[o] # Idle
          PROVE  /\ began'[hook'[o].run.id] = hook'[o].run
                 /\ hook'[o].at = "start" <=> hook'[o].run.id \notin over'
                 /\ hook'[o].at = "start" => hook'[o].run.span # 0
                 /\ hook'[o].at = "close" => hook'[o].run.root
                 /\ \A other \in Threads \ {o} :
                      hook'[other] # Idle => hook'[other].run.id # hook'[o].run.id
        <3>1. CASE o = th
            <4>1. hook'[th].at = "start" /\ hook'[th].run = run /\ ~skip
                BY <1>6, <2>2, <3>1
            <4>2. run.span # 0
                BY <1>3, <4>1, LenProperties DEF TypeInv, TracerTypes
            <4> QED
                BY <1>3, <1>4, <1>5, <1>6, <1>11, <2>1, <3>1, <4>1, <4>2
        <3>2. CASE o # th
            <4>1. hook'[o] = hook[o] /\ hook[o] # Idle
                BY <1>6, <2>2, <3>2
            <4>2. \A other \in Threads \ {o} :
                     hook'[other] # Idle => hook'[other].run.id # hook[o].run.id
                <5> TAKE other \in Threads \ {o}
                <5>1. CASE other = th
                    BY <1>3, <1>6, <2>1, <4>1, <5>1
                <5>2. CASE other # th
                    BY <1>6, <4>1, <5>2 DEF ForestInv, HookInv
                <5> QED
                    BY <5>1, <5>2
            <4> QED
                BY <1>4, <2>1, <4>1, <4>2 DEF ForestInv, HookInv
        <3> QED
            BY <3>1, <3>2
    <2> QED
        BY <2>2 DEF HookInv
<1>15. TreesStayWhole'
    <2> SUFFICES ASSUME NEW x \in Runs, began'[x] # NoRun, began'[x].host # None,
                        began'[x].host \notin evicted'
                 PROVE  /\ began'[x].trace = began'[began'[x].host].trace
                        /\ began'[x].parent = ParentSpan(began'[began'[x].host])
        BY DEF TreesStayWhole, ParentSpan
    <2>1. CASE x = r
        <3>1. began'[x] = run /\ host # None /\ host \notin evicted
            BY <1>3, <1>5, <1>7, <2>1
        <3>2. Tracked(host)
            BY <1>4, <1>12, <3>1 DEF ForestInv, RunInv
        <3>3. Entry(host) = began[host] /\ began'[host] = began[host]
            BY <1>10, <1>12, <3>1, <3>2, EntryBegan DEF ForestInv, TypeInv
        <3> QED
            BY <1>3, <1>4, <3>1, <3>2, <3>3 DEF ParentSpan
    <2>2. CASE x # r
        <3>1. began'[x] = began[x] /\ began[x] \in Run /\ began[x] # NoRun
            BY <1>5, <2>2 DEF TypeInv, ChainTypes
        <3>2. began[x].host \in Runs /\ began[began[x].host] # NoRun /\ began[x].host \notin evicted
            BY <1>7, <3>1 DEF ForestInv, RunInv, Run
        <3>3. began'[began[x].host] = began[began[x].host]
            BY <1>10, <3>2
        <3> QED
            BY <3>1, <3>2, <3>3 DEF ForestInv, TreesStayWhole, ParentSpan
    <2> QED
        BY <2>1, <2>2
<1> QED
    BY <1>13, <1>14, <1>15 DEF ForestInv

LEMMA EndRunForest ==
    ASSUME TypeInv, ForestInv, NEW th \in Threads, NEW r \in Runs, EndRun(th, r)
    PROVE  ForestInv'
<1>1. /\ hook[th] = Idle /\ Alive(r) /\ ~InHook(r)
      /\ over' = over \cup {r}
      /\ UNCHANGED <<began, evicted>>
    BY DEF EndRun
<1>2. TreesStayWhole'
    BY <1>1 DEF ForestInv, TreesStayWhole
<1>3. /\ \A i \in DOMAIN table' : \E j \in DOMAIN table : table'[i] = table[j]
      /\ \A x \in Runs \ {r} : Tracked(x) => Tracked(x)'
    <2>1. CASE Tracked(r)
        <3>1. table' = RemoveAt(table, Place(r)) /\ Place(r) \in DOMAIN table
              /\ table[Place(r)].id = r
            BY <2>1, Entries DEF EndRun, TypeInv
        <3>2. /\ \A i \in DOMAIN table' : \E j \in DOMAIN table : table'[i] = table[j]
              /\ \A j \in DOMAIN table \ {Place(r)} : \E i \in DOMAIN table' : table'[i] = table[j]
            BY <3>1, Removed DEF TypeInv, ChainTypes
        <3> QED
            BY <3>1, <3>2 DEF Tracked
    <2>2. CASE ~Tracked(r)
        BY <2>2 DEF EndRun, Tracked
    <2> QED
        BY <2>1, <2>2
<1>4. RunInv'
    <2>1. \A i \in DOMAIN table' : began'[table'[i].id] = table'[i]
        BY <1>1, <1>3 DEF ForestInv, RunInv
    <2>2. \A x \in Runs : x \in over' \cup evicted' => began'[x] # NoRun
        BY <1>1 DEF ForestInv, RunInv, Alive
    <2>3. \A x \in Runs : Alive(x)' => Tracked(x)' \/ x \in evicted'
        BY <1>1, <1>3 DEF ForestInv, RunInv, Alive
    <2>4. \A x \in Runs : began'[x] # NoRun =>
              /\ began'[x].id = x
              /\ began'[x].host # None => began'[began'[x].host] # NoRun
        BY <1>1 DEF ForestInv, RunInv
    <2> QED
        BY <2>1, <2>2, <2>3, <2>4 DEF RunInv
<1>5. HookInv'
    <2>1. \A o \in Threads : hook[o] # Idle => hook[o].run.id # r
        BY <1>1 DEF InHook
    <2>2. CASE Tracked(r)
        <3>1. /\ hook'[th] = [at |-> "end", run |-> Entry(r)]
              /\ \A o \in Threads \ {th} : hook'[o] = hook[o]
            BY <2>2 DEF EndRun, TypeInv, ChainTypes
        <3>2. Entry(r) = began[r] /\ Entry(r).id = r
            BY <2>2, Entries, EntryBegan DEF TypeInv, ForestInv
        <3>3. ASSUME NEW o \in Threads, hook'[o] # Idle
              PROVE  /\ began'[hook'[o].run.id] = hook'[o].run
                     /\ hook'[o].at = "start" <=> hook'[o].run.id \notin over'
                     /\ hook'[o].at = "start" => hook'[o].run.span # 0
                     /\ hook'[o].at = "close" => hook'[o].run.root
                     /\ \A other \in Threads \ {o} :
                          hook'[other] # Idle => hook'[other].run.id # hook'[o].run.id
            <4>1. CASE o = th
                BY <1>1, <2>1, <3>1, <3>2, <4>1
            <4>2. CASE o # th
                <5>1. hook'[o] = hook[o] /\ hook[o] # Idle /\ hook[o].run.id # r
                    BY <2>1, <3>1, <3>3, <4>2
                <5>2. \A other \in Threads \ {o} :
                         hook'[other] # Idle => hook'[other].run.id # hook[o].run.id
                    BY <3>1, <3>2, <5>1 DEF ForestInv, HookInv
                <5> QED
                    BY <1>1, <5>1, <5>2 DEF ForestInv, HookInv
            <4> QED
                BY <4>1, <4>2
        <3> QED
            BY <3>3 DEF HookInv
    <2>3. CASE ~Tracked(r)
        <3>1. UNCHANGED hook
            BY <2>3 DEF EndRun
        <3> QED
            BY <1>1, <2>1, <3>1 DEF ForestInv, HookInv
    <2> QED
        BY <2>2, <2>3
<1> QED
    BY <1>2, <1>4, <1>5 DEF ForestInv

\* After the lock a hook goes its way and the table stays.
LEMMA EmitForest ==
    ASSUME TypeInv, ForestInv, NEW th \in Threads, EmitStart(th) \/ EmitEnd(th) \/ CloseRun(th)
    PROVE  ForestInv'
<1>1. hook[th] # Idle /\ UNCHANGED <<table, began, over, evicted>>
    BY DEF EmitStart, EmitEnd, CloseRun
<1>2. RunInv' /\ TreesStayWhole'
    BY <1>1 DEF ForestInv, RunInv, TreesStayWhole, Alive, Tracked
<1>3. /\ \/ hook'[th] = Idle
         \/ /\ hook[th].at = "end" /\ hook[th].run.root
            /\ hook'[th] = [at |-> "close", run |-> hook[th].run]
      /\ \A o \in Threads \ {th} : hook'[o] = hook[o]
    BY DEF EmitStart, EmitEnd, CloseRun, TypeInv, ChainTypes
<1>4. hook'[th] # Idle => /\ hook'[th].run = hook[th].run
                          /\ hook'[th].at = "close" /\ hook[th].at = "end" /\ hook[th].run.root
    BY <1>3
<1>5. HookInv'
    <2> SUFFICES ASSUME NEW o \in Threads, hook'[o] # Idle
                 PROVE  /\ began'[hook'[o].run.id] = hook'[o].run
                        /\ hook'[o].at = "start" <=> hook'[o].run.id \notin over'
                        /\ hook'[o].at = "start" => hook'[o].run.span # 0
                        /\ hook'[o].at = "close" => hook'[o].run.root
                        /\ \A other \in Threads \ {o} :
                             hook'[other] # Idle => hook'[other].run.id # hook'[o].run.id
        BY DEF HookInv
    <2>1. \A x \in Threads : hook'[x] # Idle => hook[x] # Idle /\ hook'[x].run = hook[x].run
        BY <1>1, <1>3, <1>4
    <2> QED
        BY <1>1, <1>3, <1>4, <2>1 DEF ForestInv, HookInv
<1> QED
    BY <1>2, <1>5 DEF ForestInv

LEMMA InitForest == Init => ForestInv
BY DEF Init, ForestInv, RunInv, HookInv, TreesStayWhole, Alive

LEMMA NextForest == TypeInv /\ ForestInv /\ [Next]_vars => ForestInv'
<1> SUFFICES ASSUME TypeInv, ForestInv, [Next]_vars
             PROVE  ForestInv'
    OBVIOUS
<1>1. UNCHANGED chainVars => ForestInv'
    BY DEF chainVars, ForestInv, RunInv, HookInv, TreesStayWhole, Alive, Tracked
<1>2. CASE Next
    BY <1>1, <1>2, Steps, StartsForest, EndRunForest, EmitForest DEF Hooks
<1>3. CASE UNCHANGED vars
    BY <1>1, <1>3 DEF vars
<1> QED
    BY <1>2, <1>3

\* However many threads call the handler and however small its table is, a run that
\* the host began under another is in that one's trace and under its span, or under
\* the span of the nearest ancestor that has one, unless the table pushed the parent out.
THEOREM TreesWhole == Spec => []TreesStayWhole
<1>1. Init => TypeInv /\ ForestInv
    BY InitTypes, InitForest
<1>2. TypeInv /\ ForestInv /\ [Next]_vars => (TypeInv /\ ForestInv)'
    BY NextTypes, NextForest
<1>3. ForestInv => TreesStayWhole
    BY DEF ForestInv
<1> QED
    BY <1>1, <1>2, <1>3, PTL DEF Spec

-------------------------------------------------------------------------------
(* Every trace that starts is ended, or somebody owes it                   *)

LEMMA StartsRollups ==
    ASSUME TypeInv, ForestInv, RollupInv, NEW th \in Threads, Starts(th)
    PROVE  /\ RollupInv'
           /\ UNCHANGED blocks /\ opened' = opened + 1
           /\ \A t \in Traces \ shared' :
                 brackets'[t] - brackets[t] = GoodRollup(t)' - GoodRollup(t)
           /\ shared \subseteq shared'
<1>1. PICK r \in Runs, host \in Runs \cup {None}, meta \in AgentTraces \cup {None}, t \in Traces,
           skip \in BOOLEAN, bad \in BOOLEAN : StartRun(th, r, host, meta, t, skip, bad)
    BY DEF Starts
<1> DEFINE run == RunOf(th, r, host, t, skip, bad)
<1>2. StartFacts(th, r, host, t, skip, run)
    BY <1>1, Started
<1>3. run.id = r /\ run.trace = t
    BY RunFields
<1> HIDE DEF run
<1>4. /\ run \in Run /\ hook[th] = Idle /\ began[r] = NoRun
      /\ UNCHANGED blocks /\ opened' = opened + 1
      /\ IF run.root THEN OpenRollup(run) ELSE UNCHANGED <<rollups, shared>>
      /\ brackets' = IF StartsTrace(run) THEN [brackets EXCEPT ![t] = @ + 1] ELSE brackets
    BY <1>2 DEF StartFacts
<1>5. began'[r] = run /\ \A x \in Runs \ {r} : began'[x] = began[x]
    BY <1>2 DEF StartFacts, TypeInv, ChainTypes
<1>6. \A o \in Threads \ {th} : hook'[o] = hook[o]
    BY <1>2 DEF StartFacts, TypeInv, ChainTypes
<1>7. /\ evicted \subseteq evicted'
      /\ \A e \in {run} \cup {table[j] : j \in DOMAIN table} :
            e.id \in evicted' \/ \E i \in DOMAIN table' : table'[i] = e
    BY <1>2, Registered DEF StartFacts, TypeInv
<1>8. \A x \in Runs : Tracked(x) \/ InHook(x) \/ x \in evicted =>
                      Tracked(x)' \/ InHook(x)' \/ x \in evicted'
    <2> SUFFICES ASSUME NEW x \in Runs, Tracked(x) \/ InHook(x) \/ x \in evicted
                 PROVE  Tracked(x)' \/ InHook(x)' \/ x \in evicted'
        OBVIOUS
    <2>1. CASE Tracked(x)
        <3>1. PICK j \in DOMAIN table : table[j].id = x
            BY <2>1 DEF Tracked
        <3> QED
            BY <1>7, <3>1 DEF Tracked
    <2>2. CASE InHook(x)
        BY <1>4, <1>6, <2>2 DEF InHook
    <2> QED
        BY <1>7, <2>1, <2>2
<1>9. \A u \in DOMAIN rollups :
         /\ rollups[u].root \in Runs /\ rollups[u].root # r
         /\ began'[rollups[u].root] = began[rollups[u].root]
         /\ began[rollups[u].root] # NoRun
    <2> TAKE u \in DOMAIN rollups
    <2>1. rollups[u].root \in Runs
        BY DEF TypeInv, ChainTypes, Rollup
    <2>2. began[rollups[u].root] # NoRun
        BY DEF RollupInv, RollupOk
    <2> QED
        BY <1>4, <1>5, <2>1, <2>2
<1>10. CASE run.root
    <2> DEFINE new == [root |-> r, bad |-> run.bad]
    <2>1. /\ rollups' = [u \in DOMAIN rollups \cup {t} |-> IF u = t THEN new ELSE rollups[u]]
          /\ shared' = IF t \in DOMAIN rollups THEN shared \cup {t} ELSE shared
        BY <1>3, <1>4, <1>10 DEF OpenRollup
    <2>2. new.root = r /\ new.bad = run.bad
        OBVIOUS
    <2>3. Tracked(r)' \/ r \in evicted'
        BY <1>3, <1>7 DEF Tracked
    <2> HIDE DEF new
    <2>4. ASSUME NEW u \in DOMAIN rollups'
          PROVE  \E x \in Runs : RollupOk(u, x)'
        <3>1. CASE u = t
            <4>1. rollups'[u] = new
                BY <2>1, <3>1
            <4>2. RollupOk(u, r)'
                BY <1>3, <1>4, <1>5, <1>10, <2>2, <2>3, <3>1, <4>1, RunsExist DEF RollupOk
            <4> QED
                BY <4>2
        <3>2. CASE u # t
            <4>1. u \in DOMAIN rollups /\ rollups'[u] = rollups[u]
                BY <2>1, <3>2
            <4>2. PICK x \in Runs : RollupOk(u, x)
                BY <4>1 DEF RollupInv
            <4>3. RollupOk(u, x)'
                BY <1>8, <1>9, <4>1, <4>2 DEF RollupOk
            <4> QED
                BY <4>3
        <3> QED
            BY <3>1, <3>2
    <2>5. RollupInv'
        BY <2>4 DEF RollupInv
    <2>6. ASSUME NEW u \in Traces \ shared'
          PROVE  brackets'[u] - brackets[u] = GoodRollup(u)' - GoodRollup(u)
        <3>0. brackets[u] \in Int
            BY DEF TypeInv, TracerTypes
        <3>1. CASE u = t
            <4>1. t \notin DOMAIN rollups /\ t \in DOMAIN rollups' /\ rollups'[t].bad = run.bad
                BY <2>1, <2>2, <2>6, <3>1
            <4>2. GoodRollup(u) = 0 /\ GoodRollup(u)' = IF run.bad THEN 0 ELSE 1
                BY <3>1, <4>1 DEF GoodRollup
            <4>3. brackets'[u] = IF run.bad THEN brackets[u] ELSE brackets[u] + 1
                BY <1>4, <1>10, <3>1 DEF StartsTrace, TypeInv, TracerTypes
            <4> QED
                BY <3>0, <4>2, <4>3
        <3>2. CASE u # t
            <4>1. u \in DOMAIN rollups' <=> u \in DOMAIN rollups
                BY <2>1, <3>2
            <4>2. u \in DOMAIN rollups => rollups'[u] = rollups[u]
                BY <2>1, <3>2
            <4>3. GoodRollup(u)' = GoodRollup(u)
                BY <4>1, <4>2 DEF GoodRollup
            <4>4. GoodRollup(u) \in Int
                BY DEF GoodRollup
            <4>5. brackets'[u] = brackets[u]
                BY <1>4, <3>2 DEF TypeInv, TracerTypes
            <4> QED
                BY <3>0, <4>3, <4>4, <4>5
        <3> QED
            BY <3>1, <3>2
    <2> QED
        BY <1>4, <2>1, <2>5, <2>6
<1>11. CASE ~run.root
    <2>1. UNCHANGED <<rollups, shared, brackets>>
        BY <1>4, <1>11 DEF StartsTrace
    <2>2. RollupInv'
        <3> SUFFICES ASSUME NEW u \in DOMAIN rollups'
                     PROVE  \E x \in Runs : RollupOk(u, x)'
            BY DEF RollupInv
        <3>1. PICK x \in Runs : RollupOk(u, x)
            BY <2>1 DEF RollupInv
        <3>2. RollupOk(u, x)'
            BY <1>8, <1>9, <2>1, <3>1 DEF RollupOk
        <3> QED
            BY <3>2
    <2>3. ASSUME NEW u \in Traces \ shared'
          PROVE  brackets'[u] - brackets[u] = GoodRollup(u)' - GoodRollup(u)
        <3>1. GoodRollup(u)' = GoodRollup(u) /\ GoodRollup(u) \in Int /\ brackets[u] \in Int
            BY <2>1 DEF GoodRollup, TypeInv, TracerTypes
        <3> QED
            BY <2>1, <3>1
    <2> QED
        BY <1>4, <2>1, <2>2, <2>3
<1> QED
    BY <1>10, <1>11

LEMMA EndRunRollups ==
    ASSUME TypeInv, ForestInv, RollupInv, NEW th \in Threads, NEW r \in Runs, EndRun(th, r)
    PROVE  RollupInv'
<1>1. /\ hook[th] = Idle
      /\ UNCHANGED <<began, evicted, rollups>>
      /\ \A o \in Threads \ {th} : hook'[o] = hook[o]
    BY DEF EndRun, TypeInv, ChainTypes
<1>2. \A x \in Runs : InHook(x) => InHook(x)'
    BY <1>1 DEF InHook
<1>3. \A x \in Runs : Tracked(x) => Tracked(x)' \/ InHook(x)'
    <2>1. CASE Tracked(r)
        <3>1. table' = RemoveAt(table, Place(r)) /\ Place(r) \in DOMAIN table
              /\ table[Place(r)].id = r
            BY <2>1, Entries DEF EndRun, TypeInv
        <3>2. \A j \in DOMAIN table \ {Place(r)} : \E i \in DOMAIN table' : table'[i] = table[j]
            BY <3>1, Removed DEF TypeInv, ChainTypes
        <3>3. \A x \in Runs \ {r} : Tracked(x) => Tracked(x)'
            BY <3>1, <3>2 DEF Tracked
        <3>4. hook'[th] = [at |-> "end", run |-> Entry(r)]
            BY <2>1 DEF EndRun, TypeInv, ChainTypes
        <3>5. Entry(r) \in Run /\ Entry(r).id = r
            BY <2>1, Entries DEF TypeInv
        <3>6. hook'[th] # Idle /\ hook'[th].run.id = r
            BY <3>4, <3>5, HooksExist DEF Hook
        <3>7. InHook(r)'
            BY <3>6 DEF InHook
        <3> QED
            BY <3>3, <3>7
    <2>2. CASE ~Tracked(r)
        BY <2>2 DEF EndRun, Tracked
    <2> QED
        BY <2>1, <2>2
<1>4. \A u \in DOMAIN rollups, x \in Runs : RollupOk(u, x) => RollupOk(u, x)'
    BY <1>1, <1>2, <1>3 DEF RollupOk
<1> QED
    BY <1>1, <1>4 DEF RollupInv

LEMMA EmitRollups ==
    ASSUME TypeInv, ForestInv, RollupInv, NEW th \in Threads,
           EmitStart(th) \/ EmitEnd(th) \/ CloseRun(th)
    PROVE  RollupInv'
<1>1. hook[th] # Idle /\ UNCHANGED <<table, began, over, evicted>>
    BY DEF EmitStart, EmitEnd, CloseRun
<1> DEFINE run == hook[th].run
<1>2. run \in Run /\ began[run.id] = run /\ run.id \in Runs /\ run # NoRun
    BY <1>1, HookTypes, RunsExist DEF TypeInv, ForestInv, HookInv, Run
<1>3. /\ \A o \in Threads \ {th} : hook'[o] = hook[o]
      /\ DOMAIN rollups' \subseteq DOMAIN rollups
      /\ \A u \in DOMAIN rollups' : rollups'[u] = rollups[u]
    BY DEF EmitStart, EmitEnd, CloseRun, TypeInv, ChainTypes
<1>4. \A x \in Runs : InHook(x) => InHook(x)' \/ x = run.id
    BY <1>3 DEF InHook
<1>5. ASSUME NEW u \in DOMAIN rollups', NEW x \in Runs, rollups[u].root = x, x = run.id
      PROVE  Tracked(x) \/ x \in evicted \/ rollups[u].bad \/ InHook(x)'
    <2>1. u \in DOMAIN rollups
        BY <1>3
    <2>2. run.root /\ run.trace = u /\ run.bad = rollups[u].bad
        BY <1>2, <1>5, <2>1 DEF RollupInv, RollupOk
    <2>3. CASE EmitStart(th)
        <3>1. Alive(x)
            BY <1>1, <1>2, <1>5, <2>3 DEF EmitStart, ForestInv, HookInv, Alive
        <3> QED
            BY <1>2, <3>1 DEF ForestInv, RunInv
    <2>4. CASE EmitEnd(th)
        <3>1. CASE run.bad
            BY <2>2, <3>1
        <3>2. CASE ~run.bad
            <4>1. hook'[th] = [at |-> "close", run |-> run]
                BY <2>2, <2>4, <3>2 DEF EmitEnd, TypeInv, ChainTypes
            <4>2. hook'[th] # Idle /\ hook'[th].run = run
                BY <1>2, <4>1, HooksExist DEF Hook
            <4> QED
                BY <1>5, <4>2 DEF InHook
        <3> QED
            BY <3>1, <3>2
    <2>5. CASE CloseRun(th)
        <3>1. DOMAIN rollups' = DOMAIN rollups \ {run.trace}
            BY <2>5 DEF CloseRun
        <3> QED
            BY <2>2, <3>1
    <2> QED
        BY <2>3, <2>4, <2>5
<1> HIDE DEF run
<1>6. ASSUME NEW u \in DOMAIN rollups'
      PROVE  \E x \in Runs : RollupOk(u, x)'
    <2>1. u \in DOMAIN rollups /\ rollups'[u] = rollups[u]
        BY <1>3
    <2>2. PICK x \in Runs : RollupOk(u, x)
        BY <2>1 DEF RollupInv
    <2>3. Tracked(x)' <=> Tracked(x)
        BY <1>1 DEF Tracked
    <2>4. x = run.id =>
             Tracked(x) \/ x \in evicted \/ rollups[u].bad \/ InHook(x)'
        BY <1>5, <2>2 DEF RollupOk
    <2>5. RollupOk(u, x)'
        BY <1>1, <1>4, <2>1, <2>2, <2>3, <2>4 DEF RollupOk
    <2> QED
        BY <2>5
<1> QED
    BY <1>6 DEF RollupInv

\* The open blocks that owe a trace.end to a trace, as a set to count.
OwingBlocks(t) ==
    {p \in Threads \X (1 .. MaxOpened) :
        /\ p[2] \in DOMAIN blocks[p[1]]
        /\ blocks[p[1]][p[2]].brackets /\ blocks[p[1]][p[2]].trace = t}

LEMMA CountBlocks ==
    ASSUME NEW t
    PROVE  /\ OpenBlocks(t) = Cardinality(OwingBlocks(t)) /\ OpenBlocks(t) \in Nat
           /\ IsFiniteSet(OwingBlocks(t))
<1>1. IsFiniteSet(Threads \X (1 .. MaxOpened))
    <2>1. IsFiniteSet(Threads) /\ IsFiniteSet(1 .. MaxOpened)
        BY TracerAssumption, FS_Interval
    <2> QED
        BY <2>1, FS_Product
<1>2. OwingBlocks(t) \in SUBSET (Threads \X (1 .. MaxOpened))
    BY DEF OwingBlocks
<1>3. IsFiniteSet(OwingBlocks(t))
    BY <1>1, <1>2, FS_Subset
<1>4. OpenBlocks(t) = Cardinality(OwingBlocks(t))
    BY DEF OpenBlocks, OwingBlocks
<1> QED
    BY <1>3, <1>4, FS_CardinalityType

\* Entering a block adds it to those of its trace, if it is one of a trace.
LEMMA EnterCounts ==
    ASSUME TypeInv, BracketInv, NEW th \in Threads, NEW block \in Block, NEW inner,
           Enter(th, block, inner)
    PROVE  /\ \A o \in Threads : Len(blocks'[o]) <= opened'
           /\ \A t \in Traces :
                 OpenBlocks(t)' = IF block.brackets /\ block.trace = t THEN OpenBlocks(t) + 1
                                  ELSE OpenBlocks(t)
<1> DEFINE n == Len(blocks[th])
<1>1. /\ blocks'[th] = Append(blocks[th], block)
      /\ \A o \in Threads \ {th} : blocks'[o] = blocks[o]
      /\ opened < MaxOpened /\ opened' = opened + 1 /\ opened \in Nat /\ MaxOpened \in Nat
    BY Numbers DEF Enter, Opens, TypeInv, TracerTypes
<1>2. /\ n \in Nat /\ DOMAIN blocks[th] = 1 .. n
      /\ Len(blocks'[th]) = n + 1 /\ DOMAIN blocks'[th] = 1 .. n + 1
      /\ blocks'[th][n + 1] = block
      /\ \A i \in 1 .. n : blocks'[th][i] = blocks[th][i]
    BY <1>1, Appended DEF TypeInv, TracerTypes
<1>3. n <= opened
    BY DEF BracketInv
<1> HIDE DEF n
<1>4. ASSUME NEW o \in Threads
      PROVE  Len(blocks'[o]) <= opened'
    <2>1. CASE o = th
        BY <1>1, <1>2, <1>3, <2>1
    <2>2. CASE o # th
        <3>1. Len(blocks[o]) \in Nat /\ Len(blocks[o]) <= opened
            BY LenProperties DEF TypeInv, TracerTypes, BracketInv
        <3> QED
            BY <1>1, <2>2, <3>1
    <2> QED
        BY <2>1, <2>2
<1>6. ASSUME NEW t \in Traces
      PROVE  OpenBlocks(t)' = IF block.brackets /\ block.trace = t THEN OpenBlocks(t) + 1
                              ELSE OpenBlocks(t)
    <2>1. n + 1 \in 1 .. MaxOpened
        BY <1>1, <1>2, <1>3
    <2>2. \A p \in Threads \X (1 .. MaxOpened) :
             p \in OwingBlocks(t)' <=>
                \/ p \in OwingBlocks(t)
                \/ p = <<th, n + 1>> /\ block.brackets /\ block.trace = t
        <3> TAKE p \in Threads \X (1 .. MaxOpened)
        <3>1. p[1] \in Threads /\ p[2] \in 1 .. MaxOpened /\ p = <<p[1], p[2]>>
            OBVIOUS
        <3>2. CASE p[1] = th
            <4>1. CASE p[2] = n + 1
                <5>1. p \notin OwingBlocks(t)
                    BY <1>2, <3>2, <4>1 DEF OwingBlocks
                <5>2. p \in OwingBlocks(t)' <=> block.brackets /\ block.trace = t
                    BY <1>2, <3>1, <3>2, <4>1 DEF OwingBlocks
                <5> QED
                    BY <3>1, <3>2, <4>1, <5>1, <5>2
            <4>2. CASE p[2] # n + 1
                <5>1. p[2] \in DOMAIN blocks'[th] <=> p[2] \in DOMAIN blocks[th]
                    BY <1>2, <3>1, <4>2
                <5>2. p[2] \in DOMAIN blocks[th] => blocks'[th][p[2]] = blocks[th][p[2]]
                    BY <1>2
                <5>3. p \in OwingBlocks(t)' <=> p \in OwingBlocks(t)
                    BY <3>2, <5>1, <5>2 DEF OwingBlocks
                <5> QED
                    BY <4>2, <5>3
            <4> QED
                BY <4>1, <4>2
        <3>3. CASE p[1] # th
            <4>1. p \in OwingBlocks(t)' <=> p \in OwingBlocks(t)
                BY <1>1, <3>1, <3>3 DEF OwingBlocks
            <4> QED
                BY <3>3, <4>1
        <3> QED
            BY <3>2, <3>3
    <2>3. /\ OwingBlocks(t) \in SUBSET (Threads \X (1 .. MaxOpened))
          /\ OwingBlocks(t)' \in SUBSET (Threads \X (1 .. MaxOpened))
        BY DEF OwingBlocks
    <2>4. <<th, n + 1>> \notin OwingBlocks(t)
        BY <1>2 DEF OwingBlocks
    <2>5. OpenBlocks(t)' = Cardinality(OwingBlocks(t)')
        BY DEF OpenBlocks, OwingBlocks
    <2>6. OpenBlocks(t) = Cardinality(OwingBlocks(t)) /\ IsFiniteSet(OwingBlocks(t))
        BY CountBlocks
    <2>7. CASE block.brackets /\ block.trace = t
        <3>1. <<th, n + 1>> \in Threads \X (1 .. MaxOpened)
            BY <2>1
        <3>2. OwingBlocks(t)' = OwingBlocks(t) \cup {<<th, n + 1>>}
            BY <2>2, <2>3, <2>7, <3>1
        <3>3. Cardinality(OwingBlocks(t) \cup {<<th, n + 1>>}) = Cardinality(OwingBlocks(t)) + 1
            BY <2>4, <2>6, FS_AddElement
        <3> QED
            BY <2>5, <2>6, <2>7, <3>2, <3>3
    <2>8. CASE ~(block.brackets /\ block.trace = t)
        <3>1. OwingBlocks(t)' = OwingBlocks(t)
            BY <2>2, <2>3, <2>8
        <3> QED
            BY <2>5, <2>6, <2>8, <3>1
    <2> QED
        BY <2>7, <2>8
<1> QED
    BY <1>4, <1>6

\* Leaving it takes it from them.
LEMMA LeaveCounts ==
    ASSUME TypeInv, BracketInv, NEW th \in Threads, blocks[th] # <<>>, Leave(th), UNCHANGED opened
    PROVE  /\ \A o \in Threads : Len(blocks'[o]) <= opened'
           /\ \A t \in Traces :
                 OpenBlocks(t)' = IF Last(blocks[th]).brackets /\ Last(blocks[th]).trace = t
                                  THEN OpenBlocks(t) - 1 ELSE OpenBlocks(t)
<1> DEFINE bs == blocks[th]
           n == Len(bs)
           b == Last(bs)
<1>1. /\ blocks'[th] = Front(bs)
      /\ \A o \in Threads \ {th} : blocks'[o] = blocks[o]
      /\ opened' = opened /\ opened \in Nat /\ opened <= MaxOpened /\ MaxOpened \in Nat
    BY Numbers DEF Leave, TypeInv, TracerTypes
<1>2. /\ n \in Nat \ {0} /\ DOMAIN bs = 1 .. n
      /\ b = bs[n] /\ Front(bs) \in Seq(Block) /\ Len(Front(bs)) = n - 1
      /\ \A i \in 1 .. n - 1 : Front(bs)[i] = bs[i]
    BY LastAndFront DEF TypeInv, TracerTypes
<1>3. /\ DOMAIN blocks'[th] = 1 .. n - 1 /\ Len(blocks'[th]) = n - 1
      /\ \A i \in 1 .. n - 1 : blocks'[th][i] = blocks[th][i]
    BY <1>1, <1>2, LenProperties
<1>4. n <= opened
    BY DEF BracketInv
<1> HIDE DEF n, b
<1>5. ASSUME NEW o \in Threads
      PROVE  Len(blocks'[o]) <= opened'
    <2>1. CASE o = th
        BY <1>1, <1>2, <1>3, <1>4, <2>1
    <2>2. CASE o # th
        BY <1>1, <2>2 DEF BracketInv
    <2> QED
        BY <2>1, <2>2
<1>7. ASSUME NEW t \in Traces
      PROVE  OpenBlocks(t)' = IF b.brackets /\ b.trace = t THEN OpenBlocks(t) - 1
                              ELSE OpenBlocks(t)
    <2>1. n \in 1 .. MaxOpened
        BY <1>1, <1>2, <1>4
    <2>2. \A p \in Threads \X (1 .. MaxOpened) :
             p \in OwingBlocks(t)' <=> p \in OwingBlocks(t) /\ p # <<th, n>>
        <3> TAKE p \in Threads \X (1 .. MaxOpened)
        <3>1. p[1] \in Threads /\ p[2] \in 1 .. MaxOpened /\ p = <<p[1], p[2]>>
            OBVIOUS
        <3>2. CASE p[1] = th
            <4>1. CASE p[2] = n
                <5>1. p \notin OwingBlocks(t)'
                    BY <1>2, <1>3, <3>2, <4>1 DEF OwingBlocks
                <5> QED
                    BY <3>1, <3>2, <4>1, <5>1
            <4>2. CASE p[2] # n
                <5>1. p[2] \in DOMAIN blocks'[th] <=> p[2] \in DOMAIN blocks[th]
                    BY <1>2, <1>3, <3>1, <4>2
                <5>2. p[2] \in DOMAIN blocks'[th] => blocks'[th][p[2]] = blocks[th][p[2]]
                    BY <1>3
                <5>3. p \in OwingBlocks(t)' <=> p \in OwingBlocks(t)
                    BY <3>2, <5>1, <5>2 DEF OwingBlocks
                <5> QED
                    BY <4>2, <5>3
            <4> QED
                BY <4>1, <4>2
        <3>3. CASE p[1] # th
            <4>1. p \in OwingBlocks(t)' <=> p \in OwingBlocks(t)
                BY <1>1, <3>1, <3>3 DEF OwingBlocks
            <4> QED
                BY <3>3, <4>1
        <3> QED
            BY <3>2, <3>3
    <2>3. /\ OwingBlocks(t) \in SUBSET (Threads \X (1 .. MaxOpened))
          /\ OwingBlocks(t)' \in SUBSET (Threads \X (1 .. MaxOpened))
        BY DEF OwingBlocks
    <2>4. OwingBlocks(t)' = OwingBlocks(t) \ {<<th, n>>}
        BY <2>2, <2>3
    <2>5. <<th, n>> \in OwingBlocks(t) <=> b.brackets /\ b.trace = t
        BY <1>2, <2>1 DEF OwingBlocks
    <2>6. OpenBlocks(t)' = Cardinality(OwingBlocks(t)')
        BY DEF OpenBlocks, OwingBlocks
    <2>7. OpenBlocks(t) = Cardinality(OwingBlocks(t)) /\ IsFiniteSet(OwingBlocks(t))
        BY CountBlocks
    <2> QED
        BY <2>4, <2>5, <2>6, <2>7, FS_RemoveElement
<1> QED
    BY <1>5, <1>7 DEF b

LEMMA BlocksBrackets ==
    ASSUME TypeInv, BracketInv, NEW th \in Threads, Blocks(th), UNCHANGED chainVars
    PROVE  BracketInv'
<1> USE Numbers
<1>1. /\ context[th] \in Context /\ Len(spans) \in Nat
      /\ UNCHANGED shared /\ \A t \in Traces : GoodRollup(t)' = GoodRollup(t)
      /\ \A t \in Traces : brackets[t] \in Int /\ OpenBlocks(t) \in Int /\ GoodRollup(t) \in Int
    BY LenProperties, CountBlocks DEF TypeInv, TracerTypes, chainVars, GoodRollup
<1>2. CASE \E t \in Traces : OpenTrace(th, t)
    <2>1. PICK t \in Traces : OpenTrace(th, t)
        BY <1>2
    <2> DEFINE block == [trace |-> t, span |-> 0, outer |-> context[th],
                         sets |-> {"trace", "span"}, brackets |-> TRUE]
    <2>2. /\ Enter(th, block, InTrace(th, t))
          /\ brackets' = [brackets EXCEPT ![t] = @ + 1]
        BY <2>1 DEF OpenTrace
    <2>3. block \in Block
        BY <1>1 DEF Block
    <2>4. block.brackets /\ block.trace = t
        OBVIOUS
    <2> HIDE DEF block
    <2>5. /\ \A o \in Threads : Len(blocks'[o]) <= opened'
          /\ \A u \in Traces : OpenBlocks(u)' = IF t = u THEN OpenBlocks(u) + 1 ELSE OpenBlocks(u)
        BY <2>2, <2>3, <2>4, EnterCounts
    <2>6. \A u \in Traces : brackets'[u] = IF t = u THEN brackets[u] + 1 ELSE brackets[u]
        BY <2>2 DEF TypeInv, TracerTypes
    <2>7. \A u \in Traces \ shared' : brackets'[u] = OpenBlocks(u)' + GoodRollup(u)'
        <3> TAKE u \in Traces \ shared'
        <3>1. brackets[u] = OpenBlocks(u) + GoodRollup(u)
            BY <1>1 DEF BracketInv
        <3> QED
            BY <1>1, <2>5, <2>6, <3>1
    <2> QED
        BY <2>5, <2>7 DEF BracketInv
<1>3. CASE CloseTrace(th)
    <2> DEFINE t == Last(blocks[th]).trace
    <2>1. /\ blocks[th] # <<>> /\ Last(blocks[th]).brackets /\ Leave(th) /\ UNCHANGED opened
          /\ brackets' = [brackets EXCEPT ![t] = @ - 1]
        BY <1>3 DEF CloseTrace
    <2>2. /\ \A o \in Threads : Len(blocks'[o]) <= opened'
          /\ \A u \in Traces : OpenBlocks(u)' = IF t = u THEN OpenBlocks(u) - 1 ELSE OpenBlocks(u)
        BY <2>1, LeaveCounts
    <2> HIDE DEF t
    <2>3. \A u \in Traces : brackets'[u] = IF t = u THEN brackets[u] - 1 ELSE brackets[u]
        BY <2>1 DEF TypeInv, TracerTypes
    <2>4. \A u \in Traces \ shared' : brackets'[u] = OpenBlocks(u)' + GoodRollup(u)'
        <3> TAKE u \in Traces \ shared'
        <3>1. brackets[u] = OpenBlocks(u) + GoodRollup(u)
            BY <1>1 DEF BracketInv
        <3> QED
            BY <1>1, <2>2, <2>3, <3>1
    <2> QED
        BY <2>2, <2>4 DEF BracketInv
<1>4. ASSUME NEW block \in Block, NEW inner, Enter(th, block, inner), ~block.brackets,
             UNCHANGED brackets
      PROVE  BracketInv'
    <2>1. /\ \A o \in Threads : Len(blocks'[o]) <= opened'
          /\ \A u \in Traces : OpenBlocks(u)' = OpenBlocks(u)
        BY <1>4, EnterCounts
    <2> QED
        BY <1>1, <1>4, <2>1 DEF BracketInv
<1>5. CASE \E t \in Traces, pinned \in BOOLEAN : OpenSpan(th, t, pinned)
    <2>1. PICK t \in Traces, pinned \in BOOLEAN : OpenSpan(th, t, pinned)
        BY <1>5
    <2> DEFINE c == context[th]
               s == Len(spans) + 1
               block == [trace |-> t, span |-> s, outer |-> c, brackets |-> FALSE,
                         sets |-> IF c.trace = t THEN {"span"} ELSE {"span", "trace"}]
               inner == [c EXCEPT !.trace = t, !.span = s]
    <2>2. Enter(th, block, inner) /\ UNCHANGED brackets /\ s \in 0 .. MaxSpans
        BY <1>1, <2>1 DEF OpenSpan
    <2>3. block \in Block
        BY <1>1, <2>2 DEF Block
    <2>4. ~block.brackets
        OBVIOUS
    <2> HIDE DEF block, inner
    <2> QED
        BY <1>4, <2>2, <2>3, <2>4
<1>6. CASE \E t \in Traces, named, llm \in BOOLEAN : OpenOperation(th, t, named, llm)
    <2>1. PICK t \in Traces, named \in BOOLEAN, llm \in BOOLEAN : OpenOperation(th, t, named, llm)
        BY <1>6
    <2> DEFINE d == IF named THEN InScope(th, t) ELSE context[th]
               s == Len(spans) + 1
               block == [trace |-> t, span |-> s, outer |-> context[th], brackets |-> FALSE,
                         sets |-> {"span"} \cup (IF named THEN {"trace"} ELSE {})
                                           \cup (IF llm THEN {"llm"} ELSE {})]
               inner == [d EXCEPT !.span = s, !.llm = IF llm THEN s ELSE @]
    <2>2. Enter(th, block, inner) /\ UNCHANGED brackets /\ s \in 0 .. MaxSpans
        BY <1>1, <2>1 DEF OpenOperation
    <2>3. block \in Block
        BY <1>1, <2>2 DEF Block
    <2>4. ~block.brackets
        OBVIOUS
    <2> HIDE DEF block, inner
    <2> QED
        BY <1>4, <2>2, <2>3, <2>4
<1>7. CASE CloseSpan(th)
    <2>1. /\ blocks[th] # <<>> /\ ~Last(blocks[th]).brackets /\ Leave(th)
          /\ UNCHANGED <<opened, brackets>>
        BY <1>7 DEF CloseSpan
    <2>2. /\ \A o \in Threads : Len(blocks'[o]) <= opened'
          /\ \A u \in Traces : OpenBlocks(u)' = OpenBlocks(u)
        BY <2>1, LeaveCounts
    <2> QED
        BY <1>1, <2>1, <2>2 DEF BracketInv
<1>8. CASE RecordUsage(th)
    <2>1. UNCHANGED <<blocks, opened, brackets>>
        BY <1>8 DEF RecordUsage
    <2> QED
        BY <1>1, <2>1 DEF BracketInv, OpenBlocks
<1> QED
    BY <1>2, <1>3, <1>5, <1>6, <1>7, <1>8 DEF Blocks

\* The hooks open and close no block: what they do to the brackets of a trace is what
\* they do to its roll-up.
LEMMA HooksBrackets ==
    ASSUME TypeInv, ForestInv, RollupInv, BracketInv, NEW th \in Threads, Hooks(th)
    PROVE  BracketInv'
<1>1. \A t \in Traces : /\ brackets[t] \in Int /\ OpenBlocks(t) \in Int
                        /\ GoodRollup(t) \in Int /\ GoodRollup(t)' \in Int
    BY CountBlocks DEF TypeInv, TracerTypes, GoodRollup
<1>2. \A o \in Threads : Len(blocks[o]) \in Nat /\ opened \in Nat
    BY LenProperties DEF TypeInv, TracerTypes
<1>3. ASSUME UNCHANGED blocks, opened' \in {opened, opened + 1}, shared \subseteq shared',
             \A t \in Traces \ shared' :
                 brackets'[t] - brackets[t] = GoodRollup(t)' - GoodRollup(t),
             \A t \in Traces : brackets'[t] \in Int
      PROVE  BracketInv'
    <2>1. \A t \in Traces : OpenBlocks(t)' = OpenBlocks(t)
        BY <1>3 DEF OpenBlocks
    <2>2. \A o \in Threads : Len(blocks'[o]) <= opened'
        BY <1>2, <1>3 DEF BracketInv
    <2>3. \A t \in Traces \ shared' : brackets'[t] = OpenBlocks(t)' + GoodRollup(t)'
        <3> TAKE t \in Traces \ shared'
        <3>1. brackets[t] = OpenBlocks(t) + GoodRollup(t)
            BY <1>3 DEF BracketInv
        <3>2. brackets'[t] - brackets[t] = GoodRollup(t)' - GoodRollup(t) /\ brackets'[t] \in Int
            BY <1>3
        <3>3. \A b, c, o, g, h \in Int : (b = o + g /\ c - b = h - g) => c = o + h
            OBVIOUS
        <3>4. brackets'[t] = OpenBlocks(t) + GoodRollup(t)'
            BY <1>1, <3>1, <3>2, <3>3
        <3> QED
            BY <2>1, <3>4
    <2> QED
        BY <2>2, <2>3 DEF BracketInv
<1>4. \A t \in Traces : brackets'[t] \in Int
    <2>1. TypeInv'
        BY StartsTypes, EndRunTypes, EmitTypes DEF Hooks
    <2> QED
        BY <2>1 DEF TypeInv, TracerTypes
<1>5. CASE Starts(th)
    BY <1>3, <1>4, <1>5, StartsRollups
<1>6. CASE (\E r \in Runs : EndRun(th, r)) \/ EmitStart(th) \/ EmitEnd(th)
    <2>1. UNCHANGED <<blocks, opened, brackets, rollups, shared>>
        BY <1>6 DEF EndRun, EmitStart, EmitEnd, tracerVars
    <2>2. \A t \in Traces : GoodRollup(t)' = GoodRollup(t)
        BY <2>1 DEF GoodRollup
    <2> QED
        BY <1>1, <1>3, <1>4, <2>1, <2>2
<1>7. CASE CloseRun(th)
    <2> DEFINE u == hook[th].run.trace
    <2>1. /\ UNCHANGED <<blocks, opened, shared>>
          /\ rollups' = [t \in DOMAIN rollups \ {u} |-> rollups[t]]
          /\ brackets' = IF u \in DOMAIN rollups /\ ~rollups[u].bad
                         THEN [brackets EXCEPT ![u] = @ - 1] ELSE brackets
        BY <1>7 DEF CloseRun
    <2> HIDE DEF u
    <2>2. ASSUME NEW t \in Traces
          PROVE  brackets'[t] - brackets[t] = GoodRollup(t)' - GoodRollup(t)
        <3>1. CASE t = u
            <4>1. t \notin DOMAIN rollups'
                BY <2>1, <3>1
            <4>2. GoodRollup(t)' = 0
                BY <4>1 DEF GoodRollup
            <4>3. brackets'[t] = brackets[t] - GoodRollup(t)
                BY <1>1, <2>1, <3>1 DEF GoodRollup, TypeInv, TracerTypes
            <4> QED
                BY <1>1, <4>2, <4>3
        <3>2. CASE t # u
            <4>1. /\ t \in DOMAIN rollups' <=> t \in DOMAIN rollups
                  /\ t \in DOMAIN rollups => rollups'[t] = rollups[t]
                BY <2>1, <3>2
            <4>2. GoodRollup(t)' = GoodRollup(t)
                BY <4>1 DEF GoodRollup
            <4>3. brackets'[t] = brackets[t]
                BY <2>1, <3>2 DEF TypeInv, TracerTypes
            <4> QED
                BY <1>1, <4>2, <4>3
        <3> QED
            BY <3>1, <3>2
    <2> QED
        BY <1>3, <1>4, <2>1, <2>2
<1> QED
    BY <1>5, <1>6, <1>7 DEF Hooks

CloseInv == RollupInv /\ BracketInv

LEMMA InitClose == Init => CloseInv
<1> SUFFICES ASSUME Init
             PROVE  CloseInv
    OBVIOUS
<1>1. /\ rollups = <<>> /\ \A th \in Threads : blocks[th] = <<>>
      /\ opened = 0 /\ \A t \in Traces : brackets[t] = 0
    BY DEF Init, TracerInit
<1>2. DOMAIN rollups = {}
    BY <1>1
<1>3. \A t \in Traces : OwingBlocks(t) = {} /\ GoodRollup(t) = 0
    BY <1>1, <1>2 DEF OwingBlocks, GoodRollup
<1>4. \A t \in Traces : OpenBlocks(t) = 0
    BY <1>3, CountBlocks, FS_EmptySet
<1>5. \A th \in Threads : Len(blocks[th]) <= opened
    BY <1>1
<1> QED
    BY <1>1, <1>2, <1>3, <1>4, <1>5 DEF CloseInv, RollupInv, BracketInv

LEMMA NextClose == TypeInv /\ ForestInv /\ CloseInv /\ [Next]_vars => CloseInv'
<1> SUFFICES ASSUME TypeInv, ForestInv, CloseInv, [Next]_vars
             PROVE  CloseInv'
    OBVIOUS
<1>1. UNCHANGED chainVars => RollupInv'
    <2>1. \A t, r : UNCHANGED chainVars /\ RollupOk(t, r) => RollupOk(t, r)'
        BY DEF chainVars, RollupOk, Tracked, InHook
    <2> QED
        BY <2>1 DEF CloseInv, RollupInv, chainVars
<1>2. UNCHANGED <<blocks, opened, brackets, rollups, shared>> => BracketInv'
    BY DEF CloseInv, BracketInv, OpenBlocks, GoodRollup
<1>3. CASE UNCHANGED vars
    BY <1>1, <1>2, <1>3 DEF vars, tracerVars, chainVars, CloseInv
<1>4. CASE Next
    <2>1. PICK th \in Threads :
              \/ Hooks(th)
              \/ hook[th] = Idle /\ UNCHANGED chainVars /\ (Blocks(th) \/ Begins(th))
        BY <1>4, Steps
    <2>2. CASE Hooks(th)
        <3>1. RollupInv'
            BY <2>2, StartsRollups, EndRunRollups, EmitRollups DEF Hooks, CloseInv
        <3>2. BracketInv'
            BY <2>2, HooksBrackets DEF CloseInv
        <3> QED
            BY <3>1, <3>2 DEF CloseInv
    <2>3. CASE UNCHANGED chainVars /\ Blocks(th)
        BY <1>1, <2>3, BlocksBrackets DEF CloseInv
    <2>4. CASE UNCHANGED chainVars /\ Begins(th)
        BY <1>1, <1>2, <2>4 DEF Begins, Begin, chainVars, CloseInv
    <2> QED
        BY <2>1, <2>2, <2>3, <2>4
<1> QED
    BY <1>3, <1>4

LEMMA CloseImplies == CloseInv => TracesClose
<1> SUFFICES ASSUME CloseInv
             PROVE  TracesClose
    OBVIOUS
<1>1. \A t \in DOMAIN rollups :
         LET r == rollups[t].root
         IN  Tracked(r) \/ InHook(r) \/ r \in evicted \/ rollups[t].bad
    BY DEF CloseInv, RollupInv, RollupOk
<1> QED
    BY <1>1 DEF CloseInv, BracketInv, TracesClose

\* For each trace that no two roots have shared, the starts published exceed the ends
\* by exactly the blocks and the roll-ups that are still open: no interleaving of
\* hooks, blocks and evictions loses a trace.end or publishes one too many.
THEOREM TracesClosed == Spec => []TracesClose
<1>1. Init => TypeInv /\ ForestInv /\ CloseInv
    BY InitTypes, InitForest, InitClose
<1>2. TypeInv /\ ForestInv /\ CloseInv /\ [Next]_vars => (TypeInv /\ ForestInv /\ CloseInv)'
    BY NextTypes, NextForest, NextClose
<1>3. CloseInv => TracesClose
    BY CloseImplies
<1> QED
    BY <1>1, <1>2, <1>3, PTL DEF Spec

-------------------------------------------------------------------------------
(* The spans that are published are a tree as the platform builds it       *)

\* What happens to the spans in a step: one is made, the state of one is set, or none
\* of what the platform sees of them changes.
Makes(e) == spans' = Append(spans, e)
Sets(s, v) == spans' = [spans EXCEPT ![s].state = v]
Keeps ==
    /\ DOMAIN spans' = DOMAIN spans
    /\ \A s \in DOMAIN spans :
          spans'[s].state = spans[s].state /\ spans'[s].parent = spans[s].parent

LEMMA SpanMade ==
    ASSUME TracerTypes, NEW e \in SpanRec, Makes(e)
    PROVE  /\ Len(spans) + 1 \notin DOMAIN spans /\ Len(spans) + 1 # 0
           /\ DOMAIN spans' = DOMAIN spans \cup {Len(spans) + 1}
           /\ spans'[Len(spans) + 1] = e
           /\ \A s \in DOMAIN spans : spans'[s] = spans[s]
<1>1. /\ spans \in Seq(SpanRec) /\ Len(spans) \in Nat /\ DOMAIN spans = 1 .. Len(spans)
      /\ Len(spans') = Len(spans) + 1 /\ DOMAIN spans' = 1 .. Len(spans) + 1
      /\ spans'[Len(spans) + 1] = e
      /\ \A i \in 1 .. Len(spans) : spans'[i] = spans[i]
    BY Appended DEF TracerTypes, Makes
<1>2. 1 .. Len(spans) + 1 = 1 .. Len(spans) \cup {Len(spans) + 1}
    BY <1>1
<1> QED
    BY <1>1, <1>2

LEMMA SpanSet ==
    ASSUME TracerTypes, NEW s \in DOMAIN spans, NEW v, Sets(s, v)
    PROVE  /\ DOMAIN spans' = DOMAIN spans
           /\ spans'[s].state = v /\ spans'[s].parent = spans[s].parent
           /\ \A x \in DOMAIN spans \ {s} : spans'[x] = spans[x]
<1>1. /\ DOMAIN spans' = DOMAIN spans
      /\ spans'[s] = [spans[s] EXCEPT !.state = v]
      /\ \A x \in DOMAIN spans \ {s} : spans'[x] = spans[x]
    BY DEF Sets
<1>2. spans[s] \in SpanRec
    BY ElementOfSeq, LenProperties DEF TracerTypes
<1> QED
    BY <1>1, <1>2 DEF SpanRec

\* What is published stays published, under its parent.
Grows ==
    \A s \in DOMAIN spans :
        /\ s \in DOMAIN spans' /\ spans'[s].parent = spans[s].parent
        /\ spans[s].state # "made" => spans'[s].state # "made"

\* A span the platform knows after the step.
KnownNext(s) == s = 0 \/ (s \in DOMAIN spans' /\ spans'[s].state # "made")

LEMMA SpansGrow ==
    ASSUME TracerTypes,
           \/ \E e \in SpanRec : Makes(e)
           \/ \E s \in DOMAIN spans, v \in {"open", "ended"} : Sets(s, v)
           \/ Keeps
    PROVE  Grows /\ \A s : KnownSpan(s) => KnownNext(s)
<1>1. ASSUME NEW e \in SpanRec, Makes(e)
      PROVE  Grows
    BY <1>1, SpanMade DEF Grows
<1>2. ASSUME NEW s \in DOMAIN spans, NEW v \in {"open", "ended"}, Sets(s, v)
      PROVE  Grows
    <2>1. /\ DOMAIN spans' = DOMAIN spans
          /\ spans'[s].state = v /\ spans'[s].parent = spans[s].parent
          /\ \A x \in DOMAIN spans \ {s} : spans'[x] = spans[x]
        BY <1>2, SpanSet
    <2>2. v # "made"
        OBVIOUS
    <2> QED
        BY <2>1, <2>2 DEF Grows
<1>3. Keeps => Grows
    BY DEF Keeps, Grows
<1>4. Grows
    BY <1>1, <1>2, <1>3
<1>5. \A s : KnownSpan(s) => KnownNext(s)
    BY <1>4 DEF Grows, KnownSpan, KnownNext, Published
<1> QED
    BY <1>4, <1>5

\* A thread enters a block of a new span, under a parent that is known.
EntersSpan(th, block, inner, e) ==
    /\ Enter(th, block, inner) /\ Makes(e)
    /\ block \in Block /\ ~block.brackets /\ block.span = Len(spans) + 1
    /\ block.outer = context[th]
    /\ inner.span = Len(spans) + 1
    /\ e \in SpanRec /\ e.state = "open" /\ e.parent \in {0, context[th].span}

\* What the steps of a tracer do to its blocks and spans.
LEMMA BlockSteps ==
    ASSUME TypeInv, NEW th \in Threads, Blocks(th)
    PROVE  \/ \E block, inner, e : EntersSpan(th, block, inner, e)
           \/ /\ Keeps
              /\ \E block \in Block, inner \in Context :
                    /\ Enter(th, block, inner)
                    /\ block.brackets /\ block.outer = context[th] /\ inner.span = 0
           \/ /\ blocks[th] # <<>> /\ Leave(th)
              /\ \/ Last(blocks[th]).brackets /\ Keeps
                 \/ ~Last(blocks[th]).brackets /\ Sets(Last(blocks[th]).span, "ended")
           \/ Keeps /\ UNCHANGED <<blocks, context>>
<1> USE Numbers
<1> DEFINE c == context[th]
<1>1. c \in Context /\ Len(spans) \in Nat
    BY LenProperties DEF TypeInv, TracerTypes
<1>2. UNCHANGED spans => Keeps
    BY DEF Keeps
<1>3. CASE \E t \in Traces : OpenTrace(th, t)
    <2>1. PICK t \in Traces : OpenTrace(th, t)
        BY <1>3
    <2> DEFINE block == [trace |-> t, span |-> 0, outer |-> c,
                         sets |-> {"trace", "span"}, brackets |-> TRUE]
    <2>2. Enter(th, block, InTrace(th, t)) /\ UNCHANGED spans
        BY <2>1 DEF OpenTrace
    <2>3. block \in Block /\ block.brackets /\ block.outer = c
        BY <1>1 DEF Block
    <2>4. InTrace(th, t).span = 0
        BY <1>1 DEF InTrace, Context
    <2>5. InTrace(th, t) \in Context
        <3>1. t \in Traces \cup {None} /\ 0 \in 0 .. MaxSpans
            OBVIOUS
        <3> QED
            BY <1>1, <3>1, ContextUpdate, Zenon DEF InTrace
    <2> HIDE DEF block
    <2> QED
        BY <1>2, <2>2, <2>3, <2>4, <2>5
<1>4. CASE \E t \in Traces, pinned \in BOOLEAN : OpenSpan(th, t, pinned)
    <2>1. PICK t \in Traces, pinned \in BOOLEAN : OpenSpan(th, t, pinned)
        BY <1>4
    <2> DEFINE s == Len(spans) + 1
               block == [trace |-> t, span |-> s, outer |-> c, brackets |-> FALSE,
                         sets |-> IF c.trace = t THEN {"span"} ELSE {"span", "trace"}]
               inner == [c EXCEPT !.trace = t, !.span = s]
               p == ParentFor(th, t, pinned)
               e == NewSpan(t, p)
    <2>2. Enter(th, block, inner) /\ Makes(e) /\ s \in 0 .. MaxSpans
        BY <1>1, <2>1 DEF OpenSpan, Makes
    <2>3. block \in Block /\ ~block.brackets /\ block.span = s /\ block.outer = c
        BY <1>1, <2>2 DEF Block
    <2>4. inner.span = s
        BY <1>1 DEF Context
    <2>5. p \in {0, c.span} /\ c.span \in 0 .. MaxSpans
        BY <1>1 DEF ParentFor, Context
    <2>6. e \in SpanRec /\ e.state = "open" /\ e.parent \in {0, c.span}
        <3> HIDE DEF p
        <3> QED
            BY <2>5 DEF SpanRec, NewSpan
    <2> HIDE DEF block, inner, e
    <2>7. EntersSpan(th, block, inner, e)
        BY <2>2, <2>3, <2>4, <2>6 DEF EntersSpan
    <2> QED
        BY <2>7
<1>5. CASE \E t \in Traces, named, llm \in BOOLEAN : OpenOperation(th, t, named, llm)
    <2>1. PICK t \in Traces, named \in BOOLEAN, llm \in BOOLEAN : OpenOperation(th, t, named, llm)
        BY <1>5
    <2> DEFINE d == IF named THEN InScope(th, t) ELSE c
               s == Len(spans) + 1
               block == [trace |-> t, span |-> s, outer |-> c, brackets |-> FALSE,
                         sets |-> {"span"} \cup (IF named THEN {"trace"} ELSE {})
                                           \cup (IF llm THEN {"llm"} ELSE {})]
               inner == [d EXCEPT !.span = s, !.llm = IF llm THEN s ELSE @]
               e == NewSpan(t, d.span)
    <2>2. Enter(th, block, inner) /\ Makes(e) /\ s \in 0 .. MaxSpans
        BY <1>1, <2>1 DEF OpenOperation, Makes
    <2>3. block \in Block /\ ~block.brackets /\ block.span = s /\ block.outer = c
        BY <1>1, <2>2 DEF Block
    <2>4. d \in Context /\ d.span = c.span /\ c.span \in 0 .. MaxSpans
        BY <1>1 DEF InScope, Context
    <2>5. inner.span = s
        <3> HIDE DEF d
        <3> QED
            BY <2>4 DEF Context
    <2>6. e \in SpanRec /\ e.state = "open" /\ e.parent \in {0, c.span}
        <3> HIDE DEF d
        <3> QED
            BY <2>4 DEF SpanRec, NewSpan
    <2> HIDE DEF block, inner, e
    <2>7. EntersSpan(th, block, inner, e)
        BY <2>2, <2>3, <2>5, <2>6 DEF EntersSpan
    <2> QED
        BY <2>7
<1>6. CASE CloseTrace(th)
    BY <1>2, <1>6 DEF CloseTrace
<1>7. CASE CloseSpan(th)
    BY <1>7 DEF CloseSpan, Sets
<1>8. CASE RecordUsage(th)
    <2> DEFINE s == c.llm
    <2>1. spans' = [spans EXCEPT ![s].usage = TRUE] /\ UNCHANGED <<blocks, context>>
        BY <1>8 DEF RecordUsage
    <2> HIDE DEF s
    <2>2. DOMAIN spans' = DOMAIN spans
        BY <2>1
    <2>3. ASSUME NEW x \in DOMAIN spans
          PROVE  spans'[x].state = spans[x].state /\ spans'[x].parent = spans[x].parent
        <3>1. spans[x] \in SpanRec
            BY ElementOfSeq, LenProperties DEF TypeInv, TracerTypes
        <3>2. spans'[x] = IF x = s THEN [spans[x] EXCEPT !.usage = TRUE] ELSE spans[x]
            BY <2>1
        <3> QED
            BY <3>1, <3>2 DEF SpanRec
    <2> QED
        BY <2>1, <2>2, <2>3 DEF Keeps
<1> QED
    BY <1>3, <1>4, <1>5, <1>6, <1>7, <1>8 DEF Blocks

\* A step that leaves the hooks, the host and the spans of the runs alone.
LEMMA RunSpansKept ==
    ASSUME RunSpanInv, UNCHANGED <<hook, began, over>>,
           \A s : KnownSpan(s) => KnownNext(s),
           \A r \in Runs : began[r] # NoRun /\ began[r].span # 0 =>
               /\ began[r].span \in DOMAIN spans'
               /\ spans'[began[r].span].state = spans[began[r].span].state
               /\ spans'[began[r].span].parent = spans[began[r].span].parent
    PROVE  RunSpanInv'
<1> SUFFICES ASSUME NEW r \in Runs, began'[r] # NoRun
             PROVE  RunSpanOk(r)'
    BY DEF RunSpanInv
<1>1. began' = began /\ began[r] # NoRun /\ RunSpanOk(r)
    BY DEF RunSpanInv
<1>2. (Starting(r)' <=> Starting(r)) /\ (Ending(r)' <=> Ending(r)) /\ over' = over
    BY DEF Starting, Ending
<1>3. ~began[r].bad => KnownNext(began[r].parent)
    BY <1>1 DEF RunSpanOk
<1> QED
    BY <1>1, <1>2, <1>3 DEF RunSpanOk, KnownSpan, KnownNext, Published

LEMMA EntersSpanKeeps ==
    ASSUME TypeInv, SpanInv, NEW th \in Threads, NEW block, NEW inner, NEW e,
           EntersSpan(th, block, inner, e), UNCHANGED chainVars
    PROVE  SpanInv'
<1> DEFINE s == Len(spans) + 1
           n == Len(blocks[th])
<1>1. /\ Enter(th, block, inner) /\ Makes(e)
      /\ block \in Block /\ ~block.brackets /\ block.span = s
      /\ block.outer = context[th] /\ inner.span = s
      /\ e \in SpanRec /\ e.state = "open"
    BY DEF EntersSpan
<1>2. /\ s \notin DOMAIN spans /\ s # 0
      /\ DOMAIN spans' = DOMAIN spans \cup {s}
      /\ spans'[s] = e
      /\ \A x \in DOMAIN spans : spans'[x] = spans[x]
    BY <1>1, SpanMade DEF TypeInv
<1>3. \A x : KnownSpan(x) => KnownNext(x)
    BY <1>1, SpansGrow DEF TypeInv
<1>4. /\ blocks'[th] = Append(blocks[th], block) /\ context'[th] = inner
      /\ \A o \in Threads \ {th} : blocks'[o] = blocks[o] /\ context'[o] = context[o]
    BY <1>1 DEF Enter, TypeInv, TracerTypes
<1>5. /\ n \in Nat /\ DOMAIN blocks[th] = 1 .. n
      /\ DOMAIN blocks'[th] = 1 .. n + 1
      /\ blocks'[th][n + 1] = block
      /\ \A i \in 1 .. n : blocks'[th][i] = blocks[th][i]
    BY <1>1, <1>4, Appended DEF TypeInv, TracerTypes
<1> HIDE DEF s, n
<1>6. \A o \in Threads : \A i \in DOMAIN blocks'[o] :
         \/ o = th /\ i = n + 1
         \/ i \in DOMAIN blocks[o] /\ blocks'[o][i] = blocks[o][i] /\ <<o, i>> # <<th, n + 1>>
    <2> TAKE o \in Threads
    <2> TAKE i \in DOMAIN blocks'[o]
    <2>1. CASE o = th
        <3>1. i = n + 1 \/ i \in 1 .. n
            BY <1>5, <2>1
        <3>2. i \in 1 .. n => i # n + 1
            BY <1>5
        <3> QED
            BY <1>5, <2>1, <3>1, <3>2
    <2>2. CASE o # th
        BY <1>4, <2>2
    <2> QED
        BY <2>1, <2>2
<1>7. ParentInv'
    <2> SUFFICES ASSUME NEW o \in Threads
                 PROVE  ParentsKnown(o)'
        BY DEF ParentInv
    <2>1. ParentsKnown(o) /\ ParentsKnown(th)
        BY DEF SpanInv, ParentInv
    <2>2. KnownNext(s)
        BY <1>1, <1>2 DEF KnownNext
    <2>3. KnownNext(context'[o].span)
        BY <1>1, <1>3, <1>4, <2>1, <2>2 DEF ParentsKnown
    <2>4. \A i \in DOMAIN blocks'[o] : KnownNext(blocks'[o][i].outer.span)
        BY <1>1, <1>3, <1>5, <1>6, <2>1 DEF ParentsKnown
    <2> QED
        BY <2>3, <2>4 DEF ParentsKnown, KnownSpan, KnownNext, Published
<1>8. \A o \in Threads : \A i \in DOMAIN blocks[o] :
         ~blocks[o][i].brackets => BlockSpanOk(o, i) /\ blocks[o][i].span # s
    BY <1>2 DEF SpanInv, BlockSpanInv, BlockSpanOk
<1>9. \A r \in Runs : began[r] # NoRun =>
         RunSpanOk(r) /\ (began[r].span # 0 => began[r].span \in DOMAIN spans) /\ began[r].span # s
    BY <1>2 DEF SpanInv, RunSpanInv, RunSpanOk
<1>10. BlockSpanInv'
    <2> SUFFICES ASSUME NEW o \in Threads, NEW i \in DOMAIN blocks'[o], ~blocks'[o][i].brackets
                 PROVE  BlockSpanOk(o, i)'
        BY DEF BlockSpanInv
    <2>1. began' = began
        BY DEF chainVars
    <2>2. CASE o = th /\ i = n + 1
        <3>1. blocks'[o][i].span = s
            BY <1>1, <1>5, <2>2
        <3>2. \A x \in Threads : \A j \in DOMAIN blocks'[x] :
                 (<<x, j>> # <<o, i>> /\ ~blocks'[x][j].brackets) => blocks'[x][j].span # s
            BY <1>6, <1>8, <2>2
        <3> QED
            BY <1>1, <1>2, <1>9, <2>1, <3>1, <3>2 DEF BlockSpanOk
    <2>3. CASE ~(o = th /\ i = n + 1)
        <3>1. i \in DOMAIN blocks[o] /\ blocks'[o][i] = blocks[o][i]
            BY <1>6, <2>3
        <3>2. BlockSpanOk(o, i) /\ blocks[o][i].span # s
            BY <1>8, <3>1
        <3>3. ASSUME NEW x \in Threads, NEW j \in DOMAIN blocks'[x],
                     <<x, j>> # <<o, i>>, ~blocks'[x][j].brackets
              PROVE  blocks'[x][j].span # blocks[o][i].span
            <4>1. CASE x = th /\ j = n + 1
                BY <1>1, <1>5, <3>2, <4>1
            <4>2. CASE ~(x = th /\ j = n + 1)
                BY <1>6, <3>2, <3>3, <4>2 DEF BlockSpanOk
            <4> QED
                BY <4>1, <4>2
        <3> QED
            BY <1>2, <2>1, <3>1, <3>2, <3>3 DEF BlockSpanOk
    <2> QED
        BY <2>2, <2>3
<1>11. RunSpanInv'
    BY <1>2, <1>3, <1>9, RunSpansKept DEF SpanInv, chainVars
<1> QED
    BY <1>7, <1>10, <1>11 DEF SpanInv

\* A block of a trace has no span of its own.
LEMMA EntersTraceKeeps ==
    ASSUME TypeInv, SpanInv, NEW th \in Threads, NEW block \in Block, NEW inner \in Context,
           Keeps, Enter(th, block, inner), block.brackets, block.outer = context[th],
           inner.span = 0, UNCHANGED chainVars
    PROVE  SpanInv'
<1> DEFINE n == Len(blocks[th])
<1>1. \A x : KnownSpan(x) => KnownNext(x)
    BY SpansGrow DEF TypeInv
<1>2. /\ blocks'[th] = Append(blocks[th], block) /\ context'[th] = inner
      /\ \A o \in Threads \ {th} : blocks'[o] = blocks[o] /\ context'[o] = context[o]
    BY DEF Enter, TypeInv, TracerTypes
<1>3. /\ n \in Nat /\ DOMAIN blocks[th] = 1 .. n
      /\ DOMAIN blocks'[th] = 1 .. n + 1
      /\ blocks'[th][n + 1] = block
      /\ \A i \in 1 .. n : blocks'[th][i] = blocks[th][i]
    BY <1>2, Appended DEF TypeInv, TracerTypes
<1> HIDE DEF n
<1>4. \A o \in Threads : \A i \in DOMAIN blocks'[o] :
         \/ o = th /\ blocks'[o][i] = block
         \/ i \in DOMAIN blocks[o] /\ blocks'[o][i] = blocks[o][i]
    <2> TAKE o \in Threads
    <2> TAKE i \in DOMAIN blocks'[o]
    <2>1. CASE o = th
        <3>1. i = n + 1 \/ i \in 1 .. n
            BY <1>3, <2>1
        <3> QED
            BY <1>3, <2>1, <3>1
    <2>2. CASE o # th
        BY <1>2, <2>2
    <2> QED
        BY <2>1, <2>2
<1>5. ParentInv'
    <2> SUFFICES ASSUME NEW o \in Threads
                 PROVE  ParentsKnown(o)'
        BY DEF ParentInv
    <2>1. ParentsKnown(o) /\ ParentsKnown(th)
        BY DEF SpanInv, ParentInv
    <2>2. KnownNext(context'[o].span)
        BY <1>1, <1>2, <2>1 DEF ParentsKnown, KnownNext
    <2>3. \A i \in DOMAIN blocks'[o] : KnownNext(blocks'[o][i].outer.span)
        BY <1>1, <1>4, <2>1 DEF ParentsKnown
    <2> QED
        BY <2>2, <2>3 DEF ParentsKnown, KnownSpan, KnownNext, Published
<1>6. BlockSpanInv'
    <2> SUFFICES ASSUME NEW o \in Threads, NEW i \in DOMAIN blocks'[o], ~blocks'[o][i].brackets
                 PROVE  BlockSpanOk(o, i)'
        BY DEF BlockSpanInv
    <2>1. i \in DOMAIN blocks[o] /\ blocks'[o][i] = blocks[o][i]
        BY <1>4
    <2>2. BlockSpanOk(o, i)
        BY <2>1 DEF SpanInv, BlockSpanInv
    <2>3. \A x \in Threads : \A j \in DOMAIN blocks'[x] :
             ~blocks'[x][j].brackets => j \in DOMAIN blocks[x] /\ blocks'[x][j] = blocks[x][j]
        BY <1>4
    <2>4. began' = began
        BY DEF chainVars
    <2> QED
        BY <2>1, <2>2, <2>3, <2>4 DEF BlockSpanOk, Keeps
<1>7. RunSpanInv'
    <2>1. \A r \in Runs : began[r] # NoRun /\ began[r].span # 0 => began[r].span \in DOMAIN spans
        BY DEF SpanInv, RunSpanInv, RunSpanOk
    <2> QED
        BY <1>1, <2>1, RunSpansKept DEF SpanInv, chainVars, Keeps
<1> QED
    BY <1>5, <1>6, <1>7 DEF SpanInv

\* Leaving a block ends its span, which is nobody else's.
LEMMA LeavesKeeps ==
    ASSUME TypeInv, SpanInv, NEW th \in Threads, blocks[th] # <<>>, Leave(th),
           UNCHANGED chainVars,
           \/ Last(blocks[th]).brackets /\ Keeps
           \/ ~Last(blocks[th]).brackets /\ Sets(Last(blocks[th]).span, "ended")
    PROVE  SpanInv'
<1> DEFINE n == Len(blocks[th])
           b == Last(blocks[th])
<1>1. /\ n \in Nat \ {0} /\ DOMAIN blocks[th] = 1 .. n
      /\ b = blocks[th][n] /\ n \in DOMAIN blocks[th]
      /\ Front(blocks[th]) \in Seq(Block) /\ Len(Front(blocks[th])) = n - 1
      /\ \A i \in 1 .. n - 1 : Front(blocks[th])[i] = blocks[th][i]
    <2>1. blocks[th] \in Seq(Block)
        BY DEF TypeInv, TracerTypes
    <2>2. /\ Len(blocks[th]) \in Nat \ {0} /\ DOMAIN blocks[th] = 1 .. Len(blocks[th])
          /\ Last(blocks[th]) = blocks[th][Len(blocks[th])]
          /\ Front(blocks[th]) \in Seq(Block) /\ Len(Front(blocks[th])) = Len(blocks[th]) - 1
          /\ \A i \in 1 .. Len(blocks[th]) - 1 : Front(blocks[th])[i] = blocks[th][i]
        BY <2>1, LastAndFront
    <2> QED
        BY <2>2
<1>2. /\ blocks'[th] = Front(blocks[th])
      /\ context'[th].span \in {context[th].span, b.outer.span}
      /\ \A o \in Threads \ {th} : blocks'[o] = blocks[o] /\ context'[o] = context[o]
    BY DEF Leave, TypeInv, TracerTypes
<1>3. DOMAIN blocks'[th] = 1 .. n - 1
    BY <1>1, <1>2, LenProperties
<1> HIDE DEF n, b
<1>4. \A o \in Threads : \A i \in DOMAIN blocks'[o] :
         /\ i \in DOMAIN blocks[o] /\ blocks'[o][i] = blocks[o][i]
         /\ <<o, i>> # <<th, n>>
    <2> TAKE o \in Threads
    <2> TAKE i \in DOMAIN blocks'[o]
    <2>1. CASE o = th
        <3>1. i \in 1 .. n - 1 /\ i \in 1 .. n /\ i # n
            BY <1>1, <1>3, <2>1
        <3> QED
            BY <1>1, <1>2, <2>1, <3>1
    <2>2. CASE o # th
        BY <1>2, <2>2
    <2> QED
        BY <2>1, <2>2
<1>5. ~b.brackets => BlockSpanOk(th, n) /\ b.span \in DOMAIN spans
    BY <1>1 DEF SpanInv, BlockSpanInv, BlockSpanOk
<1>6. (b.brackets /\ Keeps) \/ (~b.brackets /\ Sets(b.span, "ended"))
    BY DEF b
<1>7. /\ \A x : KnownSpan(x) => KnownNext(x)
      /\ DOMAIN spans' = DOMAIN spans
      /\ \A x \in DOMAIN spans : (b.brackets \/ x # b.span) =>
            spans'[x].state = spans[x].state /\ spans'[x].parent = spans[x].parent
    <2>1. CASE b.brackets /\ Keeps
        BY <2>1, SpansGrow DEF TypeInv, Keeps
    <2>2. CASE ~b.brackets /\ Sets(b.span, "ended")
        <3>1. /\ DOMAIN spans' = DOMAIN spans
              /\ \A x \in DOMAIN spans \ {b.span} : spans'[x] = spans[x]
            BY <1>5, <2>2, SpanSet DEF TypeInv
        <3>2. \A x : KnownSpan(x) => KnownNext(x)
            BY <1>5, <2>2, SpansGrow DEF TypeInv
        <3> QED
            BY <2>2, <3>1, <3>2
    <2> QED
        BY <1>6, <2>1, <2>2
<1>8. ParentInv'
    <2> SUFFICES ASSUME NEW o \in Threads
                 PROVE  ParentsKnown(o)'
        BY DEF ParentInv
    <2>1. ParentsKnown(o) /\ ParentsKnown(th)
        BY DEF SpanInv, ParentInv
    <2>2. KnownSpan(b.outer.span)
        BY <1>1, <2>1 DEF ParentsKnown
    <2>3. KnownNext(context'[o].span)
        BY <1>2, <1>7, <2>1, <2>2 DEF ParentsKnown
    <2>4. \A i \in DOMAIN blocks'[o] : KnownNext(blocks'[o][i].outer.span)
        BY <1>4, <1>7, <2>1 DEF ParentsKnown
    <2> QED
        BY <2>3, <2>4 DEF ParentsKnown, KnownSpan, KnownNext, Published
<1>9. BlockSpanInv'
    <2> SUFFICES ASSUME NEW o \in Threads, NEW i \in DOMAIN blocks'[o], ~blocks'[o][i].brackets
                 PROVE  BlockSpanOk(o, i)'
        BY DEF BlockSpanInv
    <2>1. i \in DOMAIN blocks[o] /\ blocks'[o][i] = blocks[o][i] /\ <<o, i>> # <<th, n>>
        BY <1>4
    <2>2. BlockSpanOk(o, i)
        BY <2>1 DEF SpanInv, BlockSpanInv
    <2>3. b.brackets \/ blocks[o][i].span # b.span
        BY <1>1, <1>5, <2>1 DEF BlockSpanOk
    <2>4. began' = began
        BY DEF chainVars
    <2> QED
        BY <1>4, <1>7, <2>1, <2>2, <2>3, <2>4 DEF BlockSpanOk
<1>10. RunSpanInv'
    <2>1. \A r \in Runs : began[r] # NoRun /\ began[r].span # 0 =>
             began[r].span \in DOMAIN spans /\ (b.brackets \/ began[r].span # b.span)
        BY <1>1, <1>5 DEF SpanInv, RunSpanInv, RunSpanOk, BlockSpanOk
    <2> QED
        BY <1>7, <2>1, RunSpansKept DEF SpanInv, chainVars
<1> QED
    BY <1>8, <1>9, <1>10 DEF SpanInv

\* A hook enters and leaves no block, and the spans it works on are not those of blocks.
LEMMA HookKeepsBlocks ==
    ASSUME SpanInv, UNCHANGED <<context, blocks>>,
           \A s : KnownSpan(s) => KnownNext(s),
           \A th \in Threads : \A i \in DOMAIN blocks[th] : ~blocks[th][i].brackets =>
               /\ blocks[th][i].span \in DOMAIN spans'
               /\ spans'[blocks[th][i].span].state = spans[blocks[th][i].span].state,
           \A r \in Runs : began'[r] # began[r] =>
               began'[r].span \notin DOMAIN spans
    PROVE  ParentInv' /\ BlockSpanInv'
<1>1. ParentInv'
    <2> SUFFICES ASSUME NEW o \in Threads
                 PROVE  ParentsKnown(o)'
        BY DEF ParentInv
    <2>1. ParentsKnown(o) /\ context' = context /\ blocks' = blocks
        BY DEF SpanInv, ParentInv
    <2> QED
        BY <2>1 DEF ParentsKnown, KnownSpan, KnownNext, Published
<1>2. BlockSpanInv'
    <2> SUFFICES ASSUME NEW o \in Threads, NEW i \in DOMAIN blocks'[o], ~blocks'[o][i].brackets
                 PROVE  BlockSpanOk(o, i)'
        BY DEF BlockSpanInv
    <2>1. blocks' = blocks /\ BlockSpanOk(o, i)
        BY DEF SpanInv, BlockSpanInv
    <2>2. \A r \in Runs : began'[r] # NoRun => began'[r].span # blocks[o][i].span
        BY <2>1 DEF BlockSpanOk
    <2> QED
        BY <2>1, <2>2 DEF BlockSpanOk
<1> QED
    BY <1>1, <1>2

LEMMA StartsSpans ==
    ASSUME TypeInv, ForestInv, SpanInv, NEW th \in Threads, Starts(th)
    PROVE  SpanInv'
<1>1. PICK r \in Runs, host \in Runs \cup {None}, meta \in AgentTraces \cup {None}, t \in Traces,
           skip \in BOOLEAN, bad \in BOOLEAN : StartRun(th, r, host, meta, t, skip, bad)
    BY DEF Starts
<1> DEFINE run == RunOf(th, r, host, t, skip, bad)
           inherits == host # None /\ Tracked(host)
           e == [NewSpan(t, run.parent) EXCEPT !.state = "made"]
           s == Len(spans) + 1
<1>2. StartFacts(th, r, host, t, skip, run)
    BY <1>1, Started
<1>3. /\ run.id = r /\ run.host = host /\ run.root = ~inherits
      /\ run.span = IF skip THEN 0 ELSE s
      /\ run.parent = IF inherits THEN ParentSpan(Entry(host)) ELSE context[th].span
      /\ run.bad = IF inherits THEN Entry(host).bad ELSE bad
    BY RunFields
<1> HIDE DEF run
<1>4. /\ run \in Run /\ run # NoRun
      /\ hook[th] = Idle /\ began[r] = NoRun
      /\ host # None => Alive(host) /\ ~InHook(host)
      /\ UNCHANGED <<context, blocks, over>>
      /\ IF skip THEN UNCHANGED spans ELSE Makes(e)
    BY <1>2, RunsExist DEF StartFacts, Makes
<1>5. began'[r] = run /\ \A x \in Runs \ {r} : began'[x] = began[x]
    BY <1>2 DEF StartFacts, TypeInv, ChainTypes
<1>6. /\ hook'[th] = IF skip \/ (run.root /\ run.bad) THEN Idle
                     ELSE [at |-> "start", run |-> run]
      /\ \A o \in Threads \ {th} : hook'[o] = hook[o]
    BY <1>2 DEF StartFacts, TypeInv, ChainTypes
<1>7. e \in SpanRec /\ e.state = "made" /\ e.parent = run.parent
    BY <1>4 DEF NewSpan, SpanRec, Run
<1> HIDE DEF e
<1>8. s # 0 /\ s \notin DOMAIN spans
    BY LenProperties DEF TypeInv, TracerTypes
<1>9. /\ \A x \in DOMAIN spans : x \in DOMAIN spans' /\ spans'[x] = spans[x]
      /\ ~skip => s \in DOMAIN spans' /\ spans'[s] = e
    BY <1>4, <1>7, SpanMade DEF TypeInv
<1>10. \A x : KnownSpan(x) => KnownNext(x)
    BY <1>9 DEF KnownSpan, KnownNext, Published
<1> HIDE DEF s
<1>11. \A o \in Threads : \A i \in DOMAIN blocks[o] :
          ~blocks[o][i].brackets => blocks[o][i].span \in DOMAIN spans
    BY DEF SpanInv, BlockSpanInv, BlockSpanOk
<1>12. \A x \in Runs \ {r} : began[x] # NoRun => began[x].span = 0 \/ began[x].span \in DOMAIN spans
    BY DEF SpanInv, RunSpanInv, RunSpanOk
<1>13. 0 \notin DOMAIN spans
    BY LenProperties DEF TypeInv, TracerTypes
<1>14. ParentInv' /\ BlockSpanInv'
    <2>1. \A x \in Runs : began'[x] # began[x] => began'[x].span \notin DOMAIN spans
        BY <1>3, <1>5, <1>8, <1>13
    <2> QED
        BY <1>4, <1>9, <1>10, <1>11, <2>1, HookKeepsBlocks
<1>15. ~run.bad => KnownNext(run.parent)
    <2> SUFFICES ASSUME ~run.bad
                 PROVE  KnownSpan(run.parent)
        BY <1>10
    <2>1. CASE inherits
        <3>1. host \in Runs /\ Entry(host) = began[host] /\ began[host] # NoRun
            BY <2>1, Numbers, EntryBegan DEF TypeInv, ForestInv
        <3>2. RunSpanOk(host) /\ ~began[host].bad /\ ~Starting(host)
            BY <1>3, <1>4, <2>1, <3>1 DEF SpanInv, RunSpanInv, InHook, Starting
        <3>3. began[host].span # 0 => KnownSpan(began[host].span)
            BY <3>2 DEF RunSpanOk, KnownSpan, Published
        <3>4. KnownSpan(began[host].parent)
            BY <3>2 DEF RunSpanOk
        <3> QED
            BY <1>3, <2>1, <3>1, <3>3, <3>4 DEF ParentSpan
    <2>2. CASE ~inherits
        BY <1>3, <2>2 DEF SpanInv, ParentInv, ParentsKnown
    <2> QED
        BY <2>1, <2>2
<1>16. \A x \in Runs \ {r} : (Starting(x)' <=> Starting(x)) /\ (Ending(x)' <=> Ending(x))
    BY <1>3, <1>4, <1>6 DEF Starting, Ending
<1>17. ~skip => run.bad \/ Starting(r)'
    <2> SUFFICES ASSUME ~skip, ~run.bad
                 PROVE  Starting(r)'
        OBVIOUS
    <2>1. hook'[th] = [at |-> "start", run |-> run]
        BY <1>6
    <2>2. hook'[th] # Idle /\ hook'[th].at = "start" /\ hook'[th].run = run
        BY <1>4, <2>1, HooksExist DEF Hook
    <2> QED
        BY <1>3, <2>2 DEF Starting
<1>18. RunSpanInv'
    <2> SUFFICES ASSUME NEW x \in Runs, began'[x] # NoRun
                 PROVE  RunSpanOk(x)'
        BY DEF RunSpanInv
    <2>1. CASE x = r
        <3>1. began'[x] = run
            BY <1>5, <2>1
        <3>2. \A other \in Runs \ {x} : began'[other] # NoRun => began'[other].span # s
            BY <1>5, <1>8, <1>12, <2>1
        <3>3. CASE skip
            BY <1>3, <1>15, <3>1, <3>3 DEF RunSpanOk, KnownSpan, KnownNext, Published
        <3>4. CASE ~skip
            <4>1. run.span = s /\ s \in DOMAIN spans' /\ spans'[s].parent = run.parent
                  /\ spans'[s].state = "made" /\ (run.bad \/ Starting(x)')
                BY <1>3, <1>7, <1>9, <1>17, <2>1, <3>4
            <4> QED
                BY <1>15, <3>1, <3>2, <4>1 DEF RunSpanOk, KnownSpan, KnownNext, Published
        <3> QED
            BY <3>3, <3>4
    <2>2. CASE x # r
        <3>1. began'[x] = began[x] /\ began[x] # NoRun /\ RunSpanOk(x)
            BY <1>5, <2>2 DEF SpanInv, RunSpanInv
        <3>2. (Starting(x)' <=> Starting(x)) /\ (Ending(x)' <=> Ending(x)) /\ over' = over
            BY <1>4, <1>16, <2>2
        <3>3. ~began[x].bad => KnownNext(began[x].parent)
            BY <1>10, <3>1 DEF RunSpanOk
        <3>4. began[x].span # 0 =>
                 \A other \in Runs \ {x} : began'[other] # NoRun => began'[other].span # began[x].span
            <4> SUFFICES ASSUME began[x].span # 0, NEW other \in Runs \ {x}, began'[other] # NoRun
                         PROVE  began'[other].span # began[x].span
                OBVIOUS
            <4>1. CASE other = r
                BY <1>3, <1>5, <1>8, <1>12, <2>2, <3>1, <4>1
            <4>2. CASE other # r
                BY <1>5, <3>1, <4>2 DEF RunSpanOk
            <4> QED
                BY <4>1, <4>2
        <3> QED
            BY <1>9, <3>1, <3>2, <3>3, <3>4 DEF RunSpanOk, KnownSpan, KnownNext, Published
    <2> QED
        BY <2>1, <2>2
<1> QED
    BY <1>14, <1>18 DEF SpanInv

LEMMA EndRunSpans ==
    ASSUME TypeInv, ForestInv, SpanInv, NEW th \in Threads, NEW r \in Runs, EndRun(th, r)
    PROVE  SpanInv'
<1>1. /\ hook[th] = Idle /\ Alive(r) /\ over' = over \cup {r}
      /\ UNCHANGED <<context, blocks, spans, began>>
    BY DEF EndRun, tracerVars
<1>2. \A s : KnownSpan(s) => KnownNext(s)
    BY <1>1 DEF KnownSpan, KnownNext, Published
<1>3. ParentInv' /\ BlockSpanInv'
    <2>1. \A o \in Threads : \A i \in DOMAIN blocks[o] :
             ~blocks[o][i].brackets => blocks[o][i].span \in DOMAIN spans'
        BY <1>1 DEF SpanInv, BlockSpanInv, BlockSpanOk
    <2> QED
        BY <1>1, <1>2, <2>1, HookKeepsBlocks
<1>4. \A x \in Runs : /\ Starting(x)' <=> Starting(x)
                      /\ Ending(x)' => Ending(x) \/ x = r
    <2>1. CASE Tracked(r)
        <3>1. /\ hook'[th] = [at |-> "end", run |-> Entry(r)] /\ Entry(r).id = r
              /\ \A o \in Threads \ {th} : hook'[o] = hook[o]
            BY <2>1, Entries DEF EndRun, TypeInv, ChainTypes
        <3> QED
            BY <1>1, <3>1 DEF Starting, Ending
    <2>2. CASE ~Tracked(r)
        BY <2>2 DEF EndRun, Starting, Ending
    <2> QED
        BY <2>1, <2>2
<1>5. RunSpanInv'
    <2> SUFFICES ASSUME NEW x \in Runs, began'[x] # NoRun
                 PROVE  RunSpanOk(x)'
        BY DEF RunSpanInv
    <2>1. RunSpanOk(x) /\ began' = began /\ spans' = spans
        BY <1>1 DEF SpanInv, RunSpanInv
    <2>2. Starting(x)' <=> Starting(x)
        BY <1>4
    <2>3. x \notin over' \/ Ending(x)' => x \notin over \/ Ending(x)
        BY <1>1, <1>4 DEF Alive
    <2> QED
        BY <2>1, <2>2, <2>3 DEF RunSpanOk, KnownSpan, Published
<1> QED
    BY <1>3, <1>5 DEF SpanInv

\* After the lock: the start opens its run's span, the end ends it.
LEMMA EmitSpans ==
    ASSUME TypeInv, ForestInv, SpanInv, NEW th \in Threads,
           EmitStart(th) \/ EmitEnd(th) \/ CloseRun(th)
    PROVE  SpanInv'
<1>1. PICK h \in Hook : hook[th] = h /\ h # Idle
    BY DEF EmitStart, EmitEnd, CloseRun, TypeInv, ChainTypes
<1> DEFINE run == h.run
           x == run.id
<1>2. /\ run \in Run /\ x \in Runs /\ began[x] = run /\ run # NoRun
      /\ h.at \in {"start", "end", "close"} /\ (h.at = "start" <=> x \notin over)
      /\ h.at = "start" => run.span # 0
      /\ \A o \in Threads \ {th} : hook[o] # Idle => hook[o].run.id # x
    BY <1>1, RunsExist DEF ForestInv, HookInv, Hook, Run
<1>3. RunSpanOk(x)
    BY <1>2 DEF SpanInv, RunSpanInv
<1>4. /\ UNCHANGED <<context, blocks, began, over>>
      /\ hook'[th] = Idle \/ (hook'[th] = [at |-> "close", run |-> run])
      /\ \A o \in Threads \ {th} : hook'[o] = hook[o]
    BY <1>1 DEF EmitStart, EmitEnd, CloseRun, TypeInv, ChainTypes
<1>5. \/ UNCHANGED spans /\ (run.bad \/ run.span = 0 \/ h.at = "close")
      \/ /\ run.span # 0 /\ ~run.bad
         /\ \/ h.at = "start" /\ Sets(run.span, "open")
            \/ h.at = "end" /\ Sets(run.span, "ended")
    <2>1. CASE EmitStart(th)
        BY <1>1, <1>2, <2>1 DEF EmitStart, Sets
    <2>2. CASE EmitEnd(th)
        BY <1>1, <2>2 DEF EmitEnd, Sets
    <2>3. CASE CloseRun(th)
        BY <1>1, <2>3 DEF CloseRun
    <2> QED
        BY <2>1, <2>2, <2>3
<1>6. /\ ~Starting(x)' /\ ~Ending(x)' /\ (Starting(x) => h.at = "start")
      /\ \A y \in Runs \ {x} : (Starting(y)' <=> Starting(y)) /\ (Ending(y)' <=> Ending(y))
    <2>1. hook'[th] # Idle => hook'[th].at = "close"
        BY <1>4
    <2> HIDE DEF x
    <2>2. /\ ~\E o \in Threads : hook'[o] # Idle /\ hook'[o].at \in {"start", "end"}
                                  /\ hook'[o].run.id = x
          /\ hook[th].run.id = x /\ hook[th].at = h.at
        BY <1>1, <1>2, <1>4, <2>1 DEF x
    <2> QED
        BY <1>2, <1>4, <2>1, <2>2 DEF Starting, Ending
<1> HIDE DEF x
<1>7. /\ \A y : KnownSpan(y) => KnownNext(y)
      /\ DOMAIN spans' = DOMAIN spans
      /\ \A y \in DOMAIN spans : spans'[y].parent = spans[y].parent
      /\ \A y \in DOMAIN spans : y # run.span => spans'[y] = spans[y]
    <2>1. CASE UNCHANGED spans
        BY <2>1 DEF KnownSpan, KnownNext, Published
    <2>2. CASE run.span # 0 /\ \E v \in {"open", "ended"} : Sets(run.span, v)
        <3>1. run.span \in DOMAIN spans
            BY <1>2, <1>3, <2>2 DEF RunSpanOk
        <3> QED
            BY <2>2, <3>1, SpanSet, SpansGrow DEF TypeInv
    <2> QED
        BY <1>5, <2>1, <2>2
<1>8. ParentInv' /\ BlockSpanInv'
    <2>1. \A o \in Threads : \A i \in DOMAIN blocks[o] : ~blocks[o][i].brackets =>
             blocks[o][i].span \in DOMAIN spans /\ blocks[o][i].span # run.span
        BY <1>2 DEF SpanInv, BlockSpanInv, BlockSpanOk
    <2> QED
        BY <1>4, <1>7, <2>1, HookKeepsBlocks
<1>9. RunSpanInv'
    <2> SUFFICES ASSUME NEW y \in Runs, began'[y] # NoRun
                 PROVE  RunSpanOk(y)'
        BY DEF RunSpanInv
    <2>1. began' = began /\ over' = over /\ began[y] # NoRun /\ RunSpanOk(y)
        BY <1>4 DEF SpanInv, RunSpanInv
    <2>2. ~began[y].bad => KnownNext(began[y].parent)
        BY <1>7, <2>1 DEF RunSpanOk
    <2>3. CASE y = x
        <3>1. ~Starting(y)' /\ ~Ending(y)' /\ (Starting(y) => h.at = "start")
            BY <1>6, <2>3
        <3>2. run.span # 0 => run.span \in DOMAIN spans
            BY <1>2, <2>1, <2>3 DEF RunSpanOk
        <3>3. (run.span # 0 /\ ~run.bad /\ h.at = "start") =>
                  spans'[run.span].state = "open"
            BY <1>5, <3>2, SpanSet DEF TypeInv
        <3>4. (run.span # 0 /\ ~run.bad) => spans'[run.span].state # "made"
            <4>1. CASE h.at = "close"
                BY <1>2, <1>5, <2>1, <2>3, <3>1, <4>1 DEF RunSpanOk
            <4>2. CASE h.at # "close"
                BY <1>5, <3>2, <4>2, SpanSet DEF TypeInv
            <4> QED
                BY <4>1, <4>2
        <3>5. (run.span # 0 /\ run.bad) => spans'[run.span].state = "made"
            BY <1>2, <1>5, <2>1, <2>3 DEF RunSpanOk
        <3>6. y \in over \/ h.at = "start"
            BY <1>2, <2>3
        <3> QED
            BY <1>2, <1>7, <2>1, <2>2, <2>3, <3>1, <3>2, <3>3, <3>4, <3>5, <3>6
            DEF RunSpanOk, KnownSpan, KnownNext, Published
    <2>4. CASE y # x
        <3>1. (Starting(y)' <=> Starting(y)) /\ (Ending(y)' <=> Ending(y))
            BY <1>6, <2>4
        <3>2. began[y].span # 0 =>
                 began[y].span \in DOMAIN spans /\ began[y].span # run.span
            BY <1>2, <2>1, <2>4 DEF RunSpanOk
        <3> QED
            BY <1>7, <2>1, <2>2, <3>1, <3>2 DEF RunSpanOk, KnownSpan, KnownNext, Published
    <2> QED
        BY <2>3, <2>4
<1> QED
    BY <1>8, <1>9 DEF SpanInv

LEMMA BlocksSpans ==
    ASSUME TypeInv, SpanInv, NEW th \in Threads, Blocks(th), UNCHANGED chainVars
    PROVE  SpanInv'
<1>1. CASE \E block, inner, e : EntersSpan(th, block, inner, e)
    BY <1>1, EntersSpanKeeps
<1>2. CASE /\ Keeps
           /\ \E block \in Block, inner \in Context :
                 /\ Enter(th, block, inner)
                 /\ block.brackets /\ block.outer = context[th] /\ inner.span = 0
    BY <1>2, EntersTraceKeeps
<1>3. CASE /\ blocks[th] # <<>> /\ Leave(th)
           /\ \/ Last(blocks[th]).brackets /\ Keeps
              \/ ~Last(blocks[th]).brackets /\ Sets(Last(blocks[th]).span, "ended")
    BY <1>3, LeavesKeeps
<1>4. CASE Keeps /\ UNCHANGED <<blocks, context>>
    <2>1. \A s : KnownSpan(s) => KnownNext(s)
        BY <1>4, SpansGrow DEF TypeInv
    <2>2. \A o \in Threads : \A i \in DOMAIN blocks[o] : ~blocks[o][i].brackets =>
             blocks[o][i].span \in DOMAIN spans
        BY DEF SpanInv, BlockSpanInv, BlockSpanOk
    <2>3. ParentInv' /\ BlockSpanInv'
        BY <1>4, <2>1, <2>2, HookKeepsBlocks DEF Keeps, chainVars
    <2>4. \A r \in Runs : began[r] # NoRun /\ began[r].span # 0 => began[r].span \in DOMAIN spans
        BY DEF SpanInv, RunSpanInv, RunSpanOk
    <2>5. RunSpanInv'
        BY <1>4, <2>1, <2>4, RunSpansKept DEF SpanInv, Keeps, chainVars
    <2> QED
        BY <2>3, <2>5 DEF SpanInv
<1> QED
    BY <1>1, <1>2, <1>3, <1>4, BlockSteps

LEMMA BeginsSpans ==
    ASSUME TypeInv, SpanInv, NEW th \in Threads, Begins(th), UNCHANGED chainVars
    PROVE  SpanInv'
<1>1. PICK c \in {NoContext} \cup {context[from] : from \in running} : Begin(th, c)
    BY DEF Begins
<1>2. /\ UNCHANGED <<blocks, spans>> /\ context'[th] = c
      /\ \A o \in Threads \ {th} : context'[o] = context[o]
    BY <1>1 DEF Begin, TypeInv, TracerTypes
<1>3. KnownSpan(c.span)
    <2>1. running \subseteq Threads
        BY DEF TypeInv, TracerTypes
    <2> QED
        BY <1>1, <2>1 DEF SpanInv, ParentInv, ParentsKnown, KnownSpan, NoContext
<1>4. \A s : KnownSpan(s) => KnownNext(s)
    BY <1>2 DEF KnownSpan, KnownNext, Published
<1>5. ParentInv'
    <2> SUFFICES ASSUME NEW o \in Threads
                 PROVE  ParentsKnown(o)'
        BY DEF ParentInv
    <2>1. ParentsKnown(o) /\ blocks' = blocks
        BY <1>2 DEF SpanInv, ParentInv
    <2>2. KnownNext(context'[o].span)
        BY <1>2, <1>3, <1>4, <2>1 DEF ParentsKnown
    <2> QED
        BY <1>4, <2>1, <2>2 DEF ParentsKnown, KnownSpan, KnownNext, Published
<1>6. BlockSpanInv'
    BY <1>2 DEF SpanInv, BlockSpanInv, BlockSpanOk, chainVars
<1>7. RunSpanInv'
    <2>1. \A r \in Runs : began[r] # NoRun /\ began[r].span # 0 => began[r].span \in DOMAIN spans
        BY DEF SpanInv, RunSpanInv, RunSpanOk
    <2> QED
        BY <1>2, <1>4, <2>1, RunSpansKept DEF SpanInv, chainVars
<1> QED
    BY <1>5, <1>6, <1>7 DEF SpanInv

LEMMA InitSpans == Init => SpanInv
BY DEF Init, TracerInit, NoContext, SpanInv, ParentInv, ParentsKnown, KnownSpan, BlockSpanInv,
       RunSpanInv

LEMMA NextSpans == TypeInv /\ ForestInv /\ SpanInv /\ [Next]_vars => SpanInv'
<1> SUFFICES ASSUME TypeInv, ForestInv, SpanInv, [Next]_vars
             PROVE  SpanInv'
    OBVIOUS
<1>1. CASE Next
    BY <1>1, Steps, StartsSpans, EndRunSpans, EmitSpans, BlocksSpans, BeginsSpans DEF Hooks
<1>2. CASE UNCHANGED vars
    BY <1>2 DEF vars, tracerVars, chainVars, SpanInv, ParentInv, ParentsKnown, KnownSpan,
                Published, BlockSpanInv, BlockSpanOk, RunSpanInv, RunSpanOk, Starting, Ending
<1> QED
    BY <1>1, <1>2

-------------------------------------------------------------------------------
(* The refinement: every step is one of the tree, or none                  *)

\* The tree, span by span, before a step and after it.
LEMMA TreeOf ==
    ASSUME TracerTypes
    PROVE  /\ DOMAIN spans \subseteq 1 .. MaxSpans
           /\ \A s \in 1 .. MaxSpans :
                 tree[s] = IF Published(s)
                           THEN [state |-> spans[s].state, parent |-> spans[s].parent]
                           ELSE [state |-> "absent", parent |-> 0]
           /\ tree = [s \in 1 .. MaxSpans |-> tree[s]]
<1>1. DOMAIN spans \subseteq 1 .. MaxSpans
    BY LenProperties, TracerAssumption DEF TracerTypes
<1> QED
    BY <1>1 DEF tree, SpanIds, Published

LEMMA TreeAfter ==
    /\ \A s \in 1 .. MaxSpans :
          tree'[s] = IF s \in DOMAIN spans' /\ spans'[s].state # "made"
                     THEN [state |-> spans'[s].state, parent |-> spans'[s].parent]
                     ELSE [state |-> "absent", parent |-> 0]
    /\ tree' = [s \in 1 .. MaxSpans |-> tree'[s]]
BY DEF tree, SpanIds

\* A known parent is one the platform was told of.
LEMMA ParentStarted ==
    ASSUME TracerTypes, NEW p, KnownSpan(p)
    PROVE  Tree!Known(p) /\ p \in 0 .. MaxSpans
<1>1. CASE p = 0
    BY <1>1, TracerAssumption DEF Tree!Known
<1>2. CASE Published(p)
    <2>1. p \in DOMAIN spans /\ p \in 1 .. MaxSpans /\ tree[p].state = spans[p].state
        BY <1>2, TreeOf DEF Published
    <2>2. spans[p].state # "absent"
        <3>1. spans[p] \in SpanRec
            BY <2>1, ElementOfSeq, LenProperties DEF TracerTypes
        <3> QED
            BY <3>1 DEF SpanRec
    <2> QED
        BY <2>1, <2>2, TracerAssumption DEF Tree!Known, Tree!SpanIds
<1> QED
    BY <1>1, <1>2 DEF KnownSpan

\* What the platform is not told of does not change the tree.
LEMMA Untold ==
    ASSUME TracerTypes, Keeps \/ \E e \in SpanRec : Makes(e) /\ e.state = "made"
    PROVE  tree' = tree
<1>1. \A s \in 1 .. MaxSpans : tree'[s] = tree[s]
    <2>1. CASE Keeps
        BY <2>1, TreeOf, TreeAfter DEF Keeps, Published
    <2>2. CASE \E e \in SpanRec : Makes(e) /\ e.state = "made"
        BY <2>2, SpanMade, TreeOf, TreeAfter DEF Published
    <2> QED
        BY <2>1, <2>2
<1> QED
    BY <1>1, TreeOf, TreeAfter

\* A span is told of when it is made by a tracer and when a run's is opened.
LEMMA Told ==
    ASSUME TracerTypes, NEW s \in 1 .. MaxSpans, NEW p, KnownSpan(p),
           ~Published(s), s \in DOMAIN spans',
           spans'[s].state = "open", spans'[s].parent = p,
           \A x \in DOMAIN spans : x # s => x \in DOMAIN spans' /\ spans'[x] = spans[x],
           \A x \in DOMAIN spans' : x # s => x \in DOMAIN spans
    PROVE  Tree!TreeNext
<1>1. Tree!Known(p) /\ p \in 0 .. MaxSpans
    BY ParentStarted
<1>2. tree[s].state = "absent"
    BY TreeOf
<1>3. tree'[s] = [state |-> "open", parent |-> p]
    BY TreeAfter
<1>4. \A x \in 1 .. MaxSpans \ {s} : tree'[x] = tree[x]
    BY TreeOf, TreeAfter DEF Published
<1>5. tree' = [tree EXCEPT ![s] = [state |-> "open", parent |-> p]]
    BY <1>3, <1>4, TreeOf, TreeAfter
<1>6. Tree!StartSpan(s, p)
    BY <1>1, <1>2, <1>5 DEF Tree!StartSpan
<1> QED
    BY <1>1, <1>6 DEF Tree!TreeNext, Tree!SpanIds

\* A span that is open is ended.
LEMMA Ended ==
    ASSUME TracerTypes, NEW s \in DOMAIN spans, spans[s].state = "open", Sets(s, "ended")
    PROVE  Tree!TreeNext
<1>1. s \in 1 .. MaxSpans /\ tree[s] = [state |-> "open", parent |-> spans[s].parent]
    BY TreeOf DEF Published
<1>2. /\ DOMAIN spans' = DOMAIN spans
      /\ spans'[s].state = "ended" /\ spans'[s].parent = spans[s].parent
      /\ \A x \in DOMAIN spans \ {s} : spans'[x] = spans[x]
    BY SpanSet
<1>3. tree'[s] = [state |-> "ended", parent |-> spans[s].parent]
    BY <1>1, <1>2, TreeAfter
<1>4. \A x \in 1 .. MaxSpans \ {s} : tree'[x] = tree[x]
    BY <1>2, TreeOf, TreeAfter DEF Published
<1>5. tree' = [tree EXCEPT ![s].state = "ended"]
    BY <1>1, <1>3, <1>4, TreeOf, TreeAfter
<1>6. Tree!EndSpan(s)
    BY <1>1, <1>5 DEF Tree!EndSpan
<1> QED
    BY <1>1, <1>6 DEF Tree!TreeNext, Tree!SpanIds

LEMMA BlocksTell ==
    ASSUME TypeInv, TracerTypes', SpanInv, NEW th \in Threads, Blocks(th)
    PROVE  Tree!TreeNext \/ tree' = tree
<1>1. CASE \E block, inner, e : EntersSpan(th, block, inner, e)
    <2>1. PICK block, inner, e : EntersSpan(th, block, inner, e)
        BY <1>1
    <2> DEFINE s == Len(spans) + 1
    <2>2. /\ s \notin DOMAIN spans /\ DOMAIN spans' = DOMAIN spans \cup {s}
          /\ spans'[s] = e /\ e.state = "open" /\ e.parent \in {0, context[th].span}
          /\ \A x \in DOMAIN spans : spans'[x] = spans[x]
        BY <2>1, SpanMade DEF EntersSpan, TypeInv
    <2>3. s \in 1 .. MaxSpans
        <3>1. spans' \in Seq(SpanRec) /\ Len(spans') <= MaxSpans
            BY DEF TracerTypes
        <3>2. Len(spans') \in Nat /\ DOMAIN spans' = 1 .. Len(spans')
            BY <3>1, LenProperties
        <3> QED
            BY <2>2, <3>1, <3>2, TracerAssumption
    <2>4. KnownSpan(e.parent)
        BY <2>2 DEF SpanInv, ParentInv, ParentsKnown, KnownSpan
    <2> HIDE DEF s
    <2> QED
        BY <2>2, <2>3, <2>4, Told DEF TypeInv, Published
<1>2. CASE Keeps
    BY <1>2, Untold DEF TypeInv
<1>3. CASE blocks[th] # <<>> /\ ~Last(blocks[th]).brackets /\ Sets(Last(blocks[th]).span, "ended")
    <2>1. blocks[th] \in Seq(Block)
        BY DEF TypeInv, TracerTypes
    <2>2. /\ Len(blocks[th]) \in Nat \ {0} /\ DOMAIN blocks[th] = 1 .. Len(blocks[th])
          /\ Last(blocks[th]) = blocks[th][Len(blocks[th])]
        BY <1>3, <2>1, LastAndFront
    <2>3. BlockSpanOk(th, Len(blocks[th])) /\ ~Last(blocks[th]).brackets
        BY <1>3, <2>2 DEF SpanInv, BlockSpanInv
    <2> QED
        BY <1>3, <2>2, <2>3, Ended DEF BlockSpanOk, TypeInv
<1> QED
    BY <1>1, <1>2, <1>3, BlockSteps

LEMMA HooksTell ==
    ASSUME TypeInv, TracerTypes', ForestInv, SpanInv, NEW th \in Threads, Hooks(th)
    PROVE  Tree!TreeNext \/ tree' = tree
<1>1. UNCHANGED spans => tree' = tree
    BY Untold DEF Keeps, TypeInv
<1>2. CASE Starts(th)
    <2>1. PICK r \in Runs, host \in Runs \cup {None}, meta \in AgentTraces \cup {None},
               t \in Traces, skip \in BOOLEAN, bad \in BOOLEAN :
                   StartRun(th, r, host, meta, t, skip, bad)
        BY <1>2 DEF Starts
    <2> DEFINE run == RunOf(th, r, host, t, skip, bad)
               e == [NewSpan(t, run.parent) EXCEPT !.state = "made"]
    <2>2. StartFacts(th, r, host, t, skip, run)
        BY <2>1, Started
    <2> HIDE DEF run
    <2>3. run \in Run /\ IF skip THEN UNCHANGED spans ELSE Makes(e)
        BY <2>2 DEF StartFacts, Makes
    <2>4. e \in SpanRec /\ e.state = "made"
        BY <2>3 DEF NewSpan, SpanRec, Run
    <2> HIDE DEF e
    <2> QED
        BY <1>1, <2>3, <2>4, Untold DEF TypeInv
<1>3. CASE \E r \in Runs : EndRun(th, r)
    BY <1>1, <1>3 DEF EndRun, tracerVars
<1>4. CASE CloseRun(th)
    BY <1>1, <1>4 DEF CloseRun
<1>5. CASE EmitStart(th) \/ EmitEnd(th)
    <2>1. PICK h \in Hook : hook[th] = h /\ h # Idle
        BY <1>5 DEF EmitStart, EmitEnd, TypeInv, ChainTypes
    <2> DEFINE run == h.run
               s == run.span
    <2>2. /\ run \in Run /\ run.id \in Runs /\ began[run.id] = run /\ run # NoRun
          /\ h.at = "start" => s # 0
          /\ \A o \in Threads \ {th} : hook[o] # Idle => hook[o].run.id # run.id
        BY <2>1, RunsExist DEF ForestInv, HookInv, Hook, Run
    <2>3. RunSpanOk(run.id)
        BY <2>2 DEF SpanInv, RunSpanInv
    <2>4. \/ UNCHANGED spans
          \/ /\ s # 0 /\ ~run.bad
             /\ \/ h.at = "start" /\ Sets(s, "open")
                \/ h.at = "end" /\ Sets(s, "ended")
        BY <1>5, <2>1, <2>2 DEF EmitStart, EmitEnd, Sets
    <2>5. s # 0 => s \in DOMAIN spans
        BY <2>2, <2>3 DEF RunSpanOk
    <2>6. CASE s # 0 /\ ~run.bad /\ h.at = "start" /\ Sets(s, "open")
        <3>1. Starting(run.id)
            BY <2>1, <2>6 DEF Starting
        <3>2. spans[s].state = "made" /\ spans[s].parent = run.parent /\ KnownSpan(run.parent)
            BY <2>2, <2>3, <2>6, <3>1 DEF RunSpanOk
        <3>3. /\ DOMAIN spans' = DOMAIN spans
              /\ spans'[s].state = "open" /\ spans'[s].parent = spans[s].parent
              /\ \A x \in DOMAIN spans \ {s} : spans'[x] = spans[x]
            BY <2>5, <2>6, SpanSet DEF TypeInv
        <3>4. s \in 1 .. MaxSpans
            BY <2>5, <2>6, TreeOf DEF TypeInv
        <3> HIDE DEF s
        <3> QED
            BY <2>5, <2>6, <3>2, <3>3, <3>4, Told DEF TypeInv, Published
    <2>7. CASE s # 0 /\ ~run.bad /\ h.at = "end" /\ Sets(s, "ended")
        <3>1. ~Starting(run.id) /\ Ending(run.id)
            BY <2>1, <2>2, <2>7 DEF Starting, Ending
        <3>2. spans[s].state = "open"
            BY <2>2, <2>3, <2>7, <3>1 DEF RunSpanOk
        <3> QED
            BY <2>5, <2>7, <3>2, Ended DEF TypeInv
    <2> QED
        BY <1>1, <2>4, <2>6, <2>7
<1> QED
    BY <1>2, <1>3, <1>4, <1>5 DEF Hooks

LEMMA TreeSteps ==
    TypeInv /\ ForestInv /\ SpanInv /\ [Next]_vars => [Tree!TreeNext]_tree
<1> SUFFICES ASSUME TypeInv, ForestInv, SpanInv, [Next]_vars
             PROVE  Tree!TreeNext \/ tree' = tree
    OBVIOUS
<1>1. TracerTypes'
    BY NextTypes DEF TypeInv
<1>2. UNCHANGED spans => tree' = tree
    BY Untold DEF Keeps, TypeInv
<1>3. \A th \in Threads : Begins(th) => UNCHANGED spans
    BY DEF Begins, Begin
<1>4. CASE Next
    BY <1>1, <1>2, <1>3, <1>4, Steps, BlocksTell, HooksTell
<1>5. CASE UNCHANGED vars
    BY <1>2, <1>5 DEF vars, tracerVars
<1> QED
    BY <1>4, <1>5

LEMMA TreeStarts == Init => Tree!TreeInit
BY DEF Init, TracerInit, Tree!TreeInit, Tree!SpanIds, tree, SpanIds

\* Whatever opens them, blocks of the tracer or hooks of the handler in any threads, the
\* spans that are published are the tree of SpanTree: each starts once, under none or a
\* parent that started before it, and ends at most once, after its start.
THEOREM ImplementsTree == Spec => TreeSpec
<1>1. Init => TypeInv /\ ForestInv /\ SpanInv /\ Tree!TreeInit
    BY InitTypes, InitForest, InitSpans, TreeStarts
<1>2. TypeInv /\ ForestInv /\ SpanInv /\ [Next]_vars => (TypeInv /\ ForestInv /\ SpanInv)'
    BY NextTypes, NextForest, NextSpans
<1>3. TypeInv /\ ForestInv /\ SpanInv /\ [Next]_vars => [Tree!TreeNext]_tree
    BY TreeSteps
<1> QED
    BY <1>1, <1>2, <1>3, PTL DEF Spec, TreeSpec, Tree!TreeSpec
================================================================================
