SPECIFICATION Spec
CONSTANTS
    Ticks = 8
    Step = 4
    Progress = 3
    Stalls = 3
    Margin = 1
    Sag = 1
    Faults = {"read"}
INVARIANTS NeverPastStop
