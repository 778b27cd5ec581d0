SPECIFICATION Spec
CONSTANTS
    q = q
    text1 = text1
    text2 = text2
    LowestPriority <- MCLowestPriority
    PolicySets <- MCPolicySets
    Queries <- MCQueries
INVARIANT DeterministicSelection
CHECK_DEADLOCK FALSE
