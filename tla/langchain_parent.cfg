SPECIFICATION Spec
CONSTANTS
    th1 = th1
    th2 = th2
    agent = agent
    graph = graph
    node = node
    leaf = leaf
    Threads <- MCThreads
    AgentTraces = {agent}
    MaxTraces = 1
    MaxSpans = 3
    MaxOpened = 3
    Runs <- MCRuns
    KindsOf <- MCKindsOf
    HostsOf <- MCHostsOf
    DefaultTrace = 0
    MaxTracked = 2
CHECK_DEADLOCK FALSE
SYMMETRY MCSymmetry
INVARIANT ParentInTrace
