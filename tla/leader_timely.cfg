SPECIFICATION Spec
CONSTANTS
    Node = {n1, n2}
    Lease = 6
    Heartbeat = 1
    Delay = 2
    MaxCmds = 4
    Timely = TRUE
    Errors = TRUE
    Nobody = Nobody
    Ghost = Ghost
INVARIANT LeaseTypeOK
INVARIANT LeaderHoldsLease
INVARIANT FailoverBounded
INVARIANT StopRelinquishes
