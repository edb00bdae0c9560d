CONSTANTS
  s1 = s1
  s2 = s2
  Servos = {s1, s2}
  Noise = Noise
  NoCall = NoCall
  MaxLate = 1
  Faults = {"lost", "corrupt", "noise", "late", "short", "raise"}
SPECIFICATION Spec
INVARIANTS PortFree
PROPERTIES ImplementsExchange EveryCallReturns
