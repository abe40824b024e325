----------------------------- MODULE MCLangChain -----------------------------
(***************************************************************************)
(* Small instances of LangChain: two threads, three runs of a graph, one    *)
(* agent run's trace and minted ones, a run table that overflows.          *)
(***************************************************************************)
EXTENDS LangChain, TLC

CONSTANTS th1, th2, agent, graph, node, leaf

MCThreads == {th1, th2}
MCRuns == {graph, node, leaf}
MCKindsOf == (graph :> {"chain"}) @@ (node :> {"chain"}) @@ (leaf :> {"llm", "tool"})
MCHostsOf == (graph :> {None}) @@ (node :> {None, graph}) @@ (leaf :> {graph, node})
MCSymmetry == Permutations(MCThreads)

===============================================================================
