SPECIFICATION FairSpec
CONSTANTS
    TheJob = j1
    Job = {j1}
    Rest = {v1}
    Writer = {a1}
    None = None
    RequestsFail = FALSE
    Exec = {e1, e2, e3}
    JobOf <- MCJobOf
    Runner = {w1}
    MaxAttempts = 2
    Threshold = 2
    MaxStalls = 1
    CallsFail = FALSE
    LocksLost = FALSE
INVARIANT DeadAfterAllAttempts
INVARIANT DeadLetteredOnce
INVARIANT ExhaustedIsDeadLettered
PROPERTY SettledStays
PROPERTY BreakerHonest
PROPERTY Settles
