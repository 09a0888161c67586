\* Three calls over two keys in one process, with fallback, a budget, a rate
\* limit, shared jtis and a restart.
CONSTANTS
    None = None
    r1 = r1
    r2 = r2
    r3 = r3
    Request <- MCRequest
    Key <- MCKey
    Task <- MCTask
    Body <- MCBody
    KeyOf <- MCKeyOf
    TaskOf <- MCTaskOf
    Sound <- MCSound
    Token <- MCToken
    JtiOf <- MCJtiOf
    ExpOf <- MCExpOf
    Jti <- MCJti
    TokensOf <- MCTokensOf
    Bypass = TRUE
    Model = {"m1", "m2"}
    OrderedModels <- MCModels
    Output = {"clean", "raw"}
    Normalize <- MCNormalize
    Valid <- MCValid
    Cost = {1}
    Budget <- MCBudget
    RateLimit <- MCLimit
    Window = 2
    MaxClock = 2
    MaxRestarts = 1
SPECIFICATION Spec
SYMMETRY Symmetry
INVARIANTS
    TypeOK
    RerunsOverlap
    AnswersDifferOnlyByOverlap
    RateWindowBound
    OncePerJti
    OverspentOnlyTogether
PROPERTIES
    RefusedAtLimit
