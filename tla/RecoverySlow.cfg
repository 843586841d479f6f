SPECIFICATION FairSpec
CONSTANTS
    a1 = a1 a2 = a2 b1 = b1 b2 = b2
    Agents = {a1}
    Boards = {b1}
    BoardOf <- OneBoard
    Operators = {op}
    Sweep = sweep
    Interval = 2
    Cooldown = 2
    Dedupe = 3
    Hour = 4
    MaxRestarts = 2
    MaxManual = 1
    MaxFaults = 1
INVARIANTS TypeOK RestartsBounded
PROPERTIES AlertsSpaced KeepsTrying
