\* Every setting of a task over three names, and every place where the Langfuse
\* client, a model or the store can fail.
CONSTANTS
    None = None
    Name <- MCName
    WellFormed <- MCWellFormed
    Policies <- MCPolicies
SPECIFICATION Spec
INVARIANTS
    TypeOK
    TriedAsConfigured
    ResponseExplained
    TraceAgrees
PROPERTIES
    AnsweredUnlessStoreRaises
