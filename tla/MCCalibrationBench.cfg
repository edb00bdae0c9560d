CONSTANTS
  j1 = j1
  j2 = j2
  level = level
  folded_flat = folded_flat
  urdf_zero = urdf_zero
  Joints = {j1, j2}
  Poses = {level, folded_flat, urdf_zero}
  Covers <- MCCovers
  Travels = {1, 3}
  Declared = 2
  Swept <- MCSwept
  Tolerances <- MCTolerances
  Spreads = {0, 2}
  Failures = {"disk", "restart"}
  NoCal = NoCal
  NoPose = NoPose
  None = None
  MaxPasses = 2
  MaxEdits = 4
SPECIFICATION Spec
INVARIANTS TypeOK NothingLostToSliders SignsWereChecked PoseVouches TravelIsLastPass
PROPERTIES DiscardsWhatWasShown LastCopyKept
CHECK_DEADLOCK FALSE
