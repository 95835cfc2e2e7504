SPECIFICATION Spec
CONSTANTS
  h1 = h1
  custom = custom
  Fees = {1, 2}
  Heads = {h1, custom}
  Unnumbered = {custom}
  ExtraIds = {e1}
  Requests = {r1, r2}
  Breakdowns <- AllBreakdowns
  Amounts = {1, 2}
  ExtraAmount = 1
  MaxGen = 1
  DupSelection = FALSE
  Scenes <- RepricedArrears
  NoLoc = NoLoc
SYMMETRY RequestSymmetry
INVARIANTS CarriedStaysCharged
CHECK_DEADLOCK FALSE
