\* Two calls over midnight, without crashes or a rate limit.
CONSTANTS
    None = None
    r1 = r1
    r2 = r2
    r3 = r3
    c1 = c1
    m1 = m1
    m2 = m2
    Request <- TwoRequests
    ClientId = {}
    RequestId <- TwoRequests
    Body <- MCBody
    Key <- MCKey
    KeyOf <- MCKeyOf
    Task <- MCTask
    TaskOf <- MCTaskOf
    Model = {m1, m2}
    OrderedModels <- MCModels
    Output <- MCOutput
    Normalize <- MCNormalize
    Valid <- MCValid
    Cost <- OneDollar
    Budget <- MCBudget
    RateLimit <- Unlimited
    Window = 1
    MaxClock = 1
    Skew = 0
    Day <- MCDay
    DayOf <- MCDayOf
    MaxAborts = 0
SPECIFICATION FairSpec
PROPERTIES
    InProgressIsTrue
    EveryCallAnswered
    ClaimsSettle
    ExhaustedBudgetStopsCalls
