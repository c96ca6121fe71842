SPECIFICATION Spec
CONSTANTS
    Node = {n1, n2}
    Job = {j1}
    Throwing = {}
    Scan = 12
    Slack = 1
    Delay = 1
    Gap = 3
    Spacing = 60
PROPERTY EverySlotClaimed
