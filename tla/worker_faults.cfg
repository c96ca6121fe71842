SPECIFICATION Spec
CONSTANTS
    TheJob = j1
    Job = {j1}
    Rest = {v1}
    Writer = {a1}
    None = None
    RequestsFail = TRUE
    Exec = {e1}
    JobOf <- MCJobOf
    Runner = {w1, w2}
    MaxAttempts = 2
    Threshold = 9
    MaxStalls = 1
    CallsFail = TRUE
    LocksLost = TRUE
SYMMETRY Symmetry
INVARIANT StaleOnlyAfterRace
INVARIANT WorkerTypeOK
INVARIANT CallbackBudget
INVARIANT DeadLetterBudget
INVARIANT DeletedJobNotCalled
INVARIANT DisabledJobNotCalled
