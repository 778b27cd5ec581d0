SPECIFICATION Spec
CONSTANTS
    h1 = h1
    h2 = h2
    q1 = q1
    q2 = q2
    text1 = text1
    text2 = text2
    LowestPriority <- MCLowestPriority
    PolicySets <- MCPolicySets
    Handlers <- OneHandler
    Requests <- FewRequests
    ProviderErrors = FALSE
INVARIANT ReasonsNameDeciders
