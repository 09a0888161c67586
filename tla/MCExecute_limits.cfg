\* Three calls with keys of their own, one task, a limit of two a minute of two
\* ticks, workers whose clocks are up to a tick off, a day each tick, a dollar a
\* day, and replies that cost a dollar or nothing known.
CONSTANTS
    None = None
    r1 = r1
    r2 = r2
    r3 = r3
    c1 = c1
    m1 = m1
    m2 = m2
    Request <- MCRequest
    ClientId = {}
    RequestId <- MCRequest
    Body <- RateBody
    Key <- RateBody
    KeyOf <- RateKeyOf
    Task <- MCTask
    TaskOf <- RateTaskOf
    Model = {m1, m2}
    OrderedModels <- MCModels
    Output <- MCOutput
    Normalize <- MCNormalize
    Valid <- MCValid
    Cost <- MCCost
    Budget <- MCBudget
    RateLimit <- Limited
    Window = 2
    MaxClock = 2
    Skew = 1
    Day <- MCDay
    DayOf <- MCDayOf
    MaxAborts = 0
SPECIFICATION Spec
SYMMETRY Symmetry
INVARIANTS
    RateWindowBound
    LedgerMatchesUsage
