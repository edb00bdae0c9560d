SPECIFICATION Spec
CONSTANTS
    Servos = {1, 2, 3}
    Ids = {1, 2, 3, 4, 5}
    Plans <- FreshPlans
    Unlock = TRUE
    Lock = TRUE
    Faults <- AllFaults
INVARIANTS TypeOK Delivered Honest Kept Relocked
