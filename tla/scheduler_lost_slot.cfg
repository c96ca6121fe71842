SPECIFICATION FairSpec
CONSTANTS
    Job = {j1}
    Slot = {s1}
    Tick = {t1}
    Request = {}
    ExecId = {e1, e2}
    Manual = Manual
    None = None
    CallsFail = TRUE
    Crashes = TRUE
PROPERTY ClaimedSlotFires
