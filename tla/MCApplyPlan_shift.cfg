SPECIFICATION Spec
CONSTANTS
    Servos = {1, 2}
    Ids = {1, 2, 3}
    Plans <- ShiftPlans
    Unlock = TRUE
    Lock = TRUE
    Faults = {}
INVARIANTS Delivered
