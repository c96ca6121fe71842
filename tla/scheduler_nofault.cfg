SPECIFICATION FairSpec
CONSTANTS
    Job = {j1}
    Slot = {s1, s2}
    Tick = {t1, t2}
    Request = {r1}
    ExecId = {e1, e2}
    Manual = Manual
    None = None
    CallsFail = FALSE
    Crashes = FALSE
INVARIANT LeftLockIsFired
PROPERTY ClaimedSlotFires
