SPECIFICATION Spec
CONSTANTS
    Job = {j1, j2}
    Draft = {d1}
    Request = {r1, r2}
    None = None
SYMMETRY Symmetry
INVARIANT DashboardTypeOK
INVARIANT NothingStuck
INVARIANT LastClickWins
INVARIANT TableShowsLastClick
INVARIANT NoDuplicateJob
