SPECIFICATION Spec
CONSTANTS
  Years = {1, 2, 3}
  Requests = {r1, r2}
  Students = {s1, s2}
  Logins = {s1}
  RunIds = {1, 2}
  NoRun = NoRun
  NoRow = NoRow
  NoCall = NoCall
  Scenes <- AllScenes
SYMMETRY Symmetric
INVARIANTS TypeOK OneLogin StudentsSound
PROPERTIES PhasesForward
CHECK_DEADLOCK FALSE
