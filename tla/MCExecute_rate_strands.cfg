\* The same calls: what a call refused for its rate leaves of its key.
CONSTANTS
    None = None
    r1 = r1
    r2 = r2
    r3 = r3
    c1 = c1
    m1 = m1
    m2 = m2
    Request <- MCRequest
    ClientId = {}
    RequestId <- MCRequest
    Body <- RateBody
    Key <- RateBody
    KeyOf <- RateKeyOf
    Task <- MCTask
    TaskOf <- RateTaskOf
    Model = {m1, m2}
    OrderedModels <- MCModels
    Output <- MCOutput
    Normalize <- MCNormalize
    Valid <- MCValid
    Cost <- OneDollar
    Budget <- MCBudget
    RateLimit <- Limited
    Window = 1
    MaxClock = 2
    Skew = 0
    Day <- MCDay
    DayOf <- MCDayOf
    MaxAborts = 0
SPECIFICATION Spec
PROPERTIES
    InProgressIsTrue
