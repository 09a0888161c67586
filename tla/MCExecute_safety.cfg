\* Calls that race for two keys, with fallback, rejected outputs, a
\* budget, request-id collisions and a crash.
CONSTANTS
    None = None
    r1 = r1
    r2 = r2
    r3 = r3
    c1 = c1
    m1 = m1
    m2 = m2
    Request <- MCRequest
    ClientId <- MCClientId
    RequestId <- MCRequestId
    Body <- MCBody
    Key <- MCKey
    KeyOf <- MCKeyOf
    Task <- MCTask
    TaskOf <- MCTaskOf
    Model = {m1, m2}
    OrderedModels <- MCModels
    Output <- MCOutput
    Normalize <- MCNormalize
    Valid <- MCValid
    Cost <- OneDollar
    Budget <- MCBudget
    RateLimit <- Unlimited
    Window = 1
    MaxClock = 0
    Skew = 0
    Day = {0}
    DayOf <- MCDayOf
    MaxAborts = 1
SPECIFICATION Spec
SYMMETRY Symmetry
INVARIANTS
    TypeOK
    SingleOwner
    ReplayFaithful
    TablesAgree
    MeteredOnce
    ResponseAccounted
    StrandedByLossOnly
PROPERTIES
    RowsAreFinal
    ImplementsOnceOnly
