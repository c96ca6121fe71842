SPECIFICATION Spec
CONSTANTS
    Exec = {e1, e2, e3}
    timeoutMs = 1
    maxRetries = 1
    backoffMs = 2
    Buffer = 1
    Second = 2
    limit = 2
SYMMETRY Symmetry
INVARIANT ApiTypeOK
INVARIANT OneManualRun
INVARIANT PagingMissesNothing
INVARIANT StatsAddUp
