CONSTANTS
  Gui = Gui
  Worker = Worker
  Nobody = Nobody
  l1 = l1
  l2 = l2
  i1 = i1
  i2 = i2
  Loops = {l1, l2}
  Ifaces = {i1, i2}
  MaxOps = 3
  MaxJobs = 1
  Axes <- MCAxes
  Window <- MCWindow
  Found <- MCFound
  MaxGain = 1
  InitialStep = 2
  MinStep = 1
  MaxTrials = 6
  RepeatTrials = 2
  NeedSamples = 1
  MaxSamples = 1
  Passing = 0
  Failing = 1
  Encoder = 6
  Suspect = 5
  Stride = 1
  MaxMisses = 1
  MinTravel = 1
  StallWindow = 2
  Offsets <- MCOffsets
  Plan <- MCPlan
  Starts <- MCStarts
  Lowest = 0
  Highest = 2
  MaxStep = 1
  MaxLag = 1
  Maxlen = 1
  MaxReads = 3
SPECIFICATION Spec
INVARIANTS GuiHasBus TunedGains Centred Recorded
PROPERTIES JobsEnd
CHECK_DEADLOCK FALSE
