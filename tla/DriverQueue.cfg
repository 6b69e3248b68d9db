SPECIFICATION PartsSpec
CONSTANTS
  d1 = d1  r1 = r1  r2 = r2  c1 = c1  c2 = c2
  Drivers = {d1}
  Routes = {r1, r2}
  None = None
  MaxCopies = 1
  MaxEvents = 1
  Calls = {c1, c2}
  MaxDialogues = 2
  Keys = {1, 2, 3}
  MaxChanges = 3
  MaxFaults = 1
  MaxMishaps = 1
  MaxRides = 1
  MaxBusy = 2
SYMMETRY Symmetry
INVARIANTS PartsTypeOK WaitingIsQueued QueuedIsOnline OneOrderPerDialogue NoDanglingRoute
CHECK_DEADLOCK FALSE
