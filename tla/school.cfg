SPECIFICATION Spec
CONSTANTS
    Procs = {P1, P2}
    Scenes <- MCScenes
    Nothing = Nothing
    Notifiers = {P1, P2}
    Queued = {K1, K2}
    Immediate = {N1}
    Contents = {W1, W2}
    NoRow = Nothing
    NoErrand = Nothing
    NoAnswer = Nothing
    Owners = {O1, O2, O3}
    Kind <- Kinds3
    Passwords = {W1, W2, W3}
    SaveKeys = {K1, K2}
    AdmitKeys = {K1, K2}
    Names = {N1, N2}
    Classes = {C1, C2}
    MaxStudents = 3
    MaxNumber = 4
    Employees = {U1, U2, U3}
    Emails = {M1, M2}
    Invitations = {I1, I2}
    Payees = {U1, U2}
    Months = {1, 2}
    PayKeys = {K1, K2}
    Providers = {N1, N2}
    Salary = 8
    Visits <- AllVisits
    Posts <- AllPosts
    Questions <- AllQuestions
    Counters <- AllCounters
    Carts <- ShortCarts
    R1 = R1
    R2 = R2
    R3 = R3
    U1 = U1
    U2 = U2
    U3 = U3
    P1 = P1
    P2 = P2
    M1 = M1
    M2 = M2
    I1 = I1
    I2 = I2
    W3 = W3
    W2 = W2
    W1 = W1
    O3 = O3
    O2 = O2
    O1 = O1
    C2 = C2
    C1 = C1
    N2 = N2
    N1 = N1
    K2 = K2
    K1 = K1
SYMMETRY Symmetric
INVARIANTS StaffSound AdmissionsSound CredentialsSound PayrollSound PlansSound AttendanceSound
INVARIANTS SentIsTold ListAgrees StoreSound SplitAddsUp
PROPERTIES ExamsSound SessionsSound RoomsSound
CHECK_DEADLOCK FALSE
