SPECIFICATION Spec
CONSTANTS
  Years = {1, 2, 3}
  Requests = {r1, r2}
  Students = {s1, s2}
  Logins = {s1}
  RunIds = {1, 2}
  NoRun = NoRun
  NoRow = NoRow
  NoCall = NoCall
  Scenes <- Resumes
INVARIANT OneActivePerBranch
CHECK_DEADLOCK FALSE
