CONSTANTS
    None = None
    Claimant <- MCClaimant
    BodyFor <- MCBodyFor
    IdFor <- MCIdFor
    RequestId <- MCRequestId
    Body <- MCBody
    Key <- MCKey
    KeyOf <- MCKeyOf
    Task <- MCTask
    TaskOf <- MCTaskOf
    Model = {"m"}
    Output = {"o"}
    Budget <- Zero
    RateLimit <- Zero
    Window = 1
    MaxClock = 0
    Skew = 0
    Day = {0}
    DayOf <- MCDayOf
    MaxFailures = 1
SPECIFICATION Spec
INVARIANTS
    Inductive
PROPERTIES
    ClaimIsAtomic
    EveryClaimReturns
