SPECIFICATION FairSpec
CONSTANTS
    Node = {n1, n2}
    Lease = 2
    Heartbeat = 1
    Delay = 0
    MaxCmds = 2
    Timely = FALSE
    Errors = FALSE
    Nobody = Nobody
    Ghost = Ghost
PROPERTY LostLeadIsNoticed
PROPERTY OnlyHolderTouchesLease
