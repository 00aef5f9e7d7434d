SPECIFICATION MCSpec
CONSTANTS
    t1 = t1
    t2 = t2
    node1 = node1
    input1 = input1
    input2 = input2
    task1 = task1
    agent1 = agent1
    Threads = {t1, t2}
    Counters <- AllCounters
    MaxToolCalls = 2
    MaxIdentical = 2
    CascadeAt = 1
    MaxScore = 9
    FrequencyLimit = 1
    MaxCalls = 3
    SharedCalls = 2
    MaxFaults = 1
    Nodes = {node1}
    MaxNodeCalls = 1
    MaxDepth <- Depths
    Inputs = {input1, input2}
    Tasks = {task1}
    MaxTaskCalls = 1
    Agents = {agent1}
    AllowlistSet = TRUE
    MaxTurns = 1
    MaxOps = 2
    ProjectsListed = TRUE
    MaxScenarioOps = 1
    MaxAgentTurns = 1
INVARIANTS
    EngineTypeOK
    ChainedUnlessOverlapped
    LedgerAgrees
    BudgetsHold
    FailsClosed
    DepthTracks
CHECK_DEADLOCK FALSE
