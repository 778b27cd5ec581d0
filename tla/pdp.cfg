SPECIFICATION PdpFairSpec
CONSTANTS
    h1 = h1
    q1 = q1
    text1 = text1
    opened = opened
    closed = closed
    refused = refused
    schema1 = schema1
    schema2 = schema2
    Contents <- MCContents
    Parses <- MCContents
    Schemas <- MCSchemas
    ValidUnder <- MCValidUnder
    Unreadable = Unreadable
    Nothing = Nothing
    Capacity = 1
    IoErrors = FALSE
    PolicySetOf <- MCPolicySetOf
    LowestPriority <- MCLowestPriority
    Handlers <- MCHandlers
    Requests <- MCRequests
    ProviderErrors = TRUE
INVARIANT DecidedByValid
PROPERTIES ImplementsEvaluation EveryRequestAnswered StableValidDecides
