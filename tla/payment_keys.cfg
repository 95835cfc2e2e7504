SPECIFICATION Spec
CONSTANTS
  Callers = {c1, c2}
  Keys = {k1}
  NoKey = NoKey
  Payers = {t1, t2}
  Kinds = {"single", "waterfall", "allocate", "family", "familyAllocate"}
  MaxAttempts = 2
  MaxCalls = 3
  Owed = 1
  NoCall = NoCall
SYMMETRY Symmetric
CONSTRAINT OneLedgerGroup
INVARIANTS TypeOK AnswerIsOwn
PROPERTIES FailuresAreEarned PromiseKept
CHECK_DEADLOCK FALSE
