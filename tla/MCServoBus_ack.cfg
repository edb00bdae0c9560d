SPECIFICATION Spec
CONSTANTS
    c1 = c1
    c2 = c2
    p0 = p0
    p1 = p1
    N = 1
    Callers = {c1, c2}
    Nobody = nobody
    Poses = {p0, p1}
    Zero = p0
    TorqueOnStart = TRUE
    Recorded = FALSE
    Faults = {"ack"}
    MaxSessions = 1
    MaxCalls = 1
INVARIANTS LimpHolds
