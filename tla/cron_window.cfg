SPECIFICATION Spec
CONSTANTS
    Node = {n1, n2}
    Job = {j1, p1}
    Throwing = {p1}
    Scan = 3
    Slack = 1
    Delay = 1
    Gap = 2
    Spacing = 5
INVARIANT WindowTypeOK
PROPERTY NoSlotSkipped
