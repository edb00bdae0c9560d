SPECIFICATION Spec
CONSTANTS
    c1 = c1
    c2 = c2
    p0 = p0
    p1 = p1
    N = 1
    Callers = {c1, c2}
    Nobody = nobody
    Poses = {p0, p1}
    Zero = p0
    TorqueOnStart = TRUE
    Recorded = TRUE
    Faults <- AllFaults
    MaxSessions = 2
    MaxCalls = 2
SYMMETRY Perms
INVARIANTS SlotHeld BorrowExclusive LockAccounted
PROPERTIES NoStaleMove
