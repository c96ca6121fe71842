SPECIFICATION Spec
CONSTANTS
    TheJob = j1
    Job = {j1}
    Rest = {v1}
    Writer = {a1}
    None = None
    RequestsFail = FALSE
    Exec = {e1, e2}
    JobOf <- MCJobOf
    Runner = {w1}
    MaxAttempts = 1
    Threshold = 1
    MaxStalls = 1
    CallsFail = FALSE
    LocksLost = FALSE
INVARIANT DisabledJobNotCalled
