\* A required scope that the registration of the caller lists.
CONSTANTS
    None = None
    r1 = r1
    r2 = r2
    r3 = r3
    Request <- MCRequest
    Token <- MCToken
    Jti <- MCJti
    JtiOf <- MCJtiOf
    StartOf <- MCStartOf
    ExpOf <- MCExpOf
    Genuine <- MCGenuine
    Scope <- MCScope
    ScopesOf <- MCScopesOf
    CallerScopes <- MCScope
    RequiredScope = "ai:execute"
    Bypass = FALSE
    MaxClock = 3
SPECIFICATION Spec
SYMMETRY Symmetry
INVARIANTS
    MissingScopeIs403
