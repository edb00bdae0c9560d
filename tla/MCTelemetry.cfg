SPECIFICATION FairSpec
CONSTANTS
    s1 = s1
    s2 = s2
    Sinks <- TwoSinks
    MaxLen = 2
    Faults <- AllFaults
    MaxTicks = 3
    Sink = s2
INVARIANTS TypeOK NoLostWakeup Accounted DropsOldest
PROPERTIES ImplementsLog EverySampleLands StopEnds
