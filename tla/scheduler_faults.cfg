SPECIFICATION Spec
CONSTANTS
    Job = {j1}
    Slot = {s1, s2}
    Tick = {t1, t2}
    Request = {r1}
    ExecId = {e1, e2}
    Manual = Manual
    None = None
    CallsFail = TRUE
    Crashes = TRUE
SYMMETRY Symmetry
INVARIANT TypeOK
INVARIANT NoDoubleEnqueue
INVARIANT QueuedHasRow
INVARIANT ClaimExclusive
PROPERTY OwnLockOnly
PROPERTY ImplementsFireOnce
