------------------------------ MODULE BranchStaff ------------------------------
(***************************************************************************)
(* The people who work in one branch: their accounts, their membership of   *)
(* the branch, the one administrator, invitations, tenures and teaching     *)
(* assignments.  Most handlers check with one statement and write with      *)
(* another; what keeps the tables right is then a unique index, a           *)
(* transaction, or nothing.                                                 *)
(***************************************************************************)
EXTENDS Handlers

CONSTANTS Employees, Emails, Invitations

Accounts ==
    [role : {"teacher", "management"}, active : BOOLEAN, email : Emails \cup {Nothing}, profile : BOOLEAN]
Seats == [role : {"branch_admin", "teacher", "management", "worker"}, active : BOOLEAN]

\* user: the account, or Nothing; seat: the row of branch_members; tenures: in the
\* order of their sequence; lessons: who has teaching assignments, the subset "leads" as
\* class teacher; history: who has attendance or payroll rows.  An invitation knows the
\* accounts that were made from it; gone: accounts deleted, of which none comes back;
\* moved: accounts whose e-mail was changed.
StaffTables ==
    [user : [Employees -> {Nothing} \cup Accounts], seat : [Employees -> {Nothing} \cup Seats],
     tenures : [Employees -> Seq({"open", "left"})],
     lessons : SUBSET Employees, leads : SUBSET Employees,
     invite : [Invitations -> {Nothing} \cup [email : Emails, used : BOOLEAN, made : SUBSET Employees]],
     history : SUBSET Employees, gone : SUBSET Employees, moved : SUBSET Employees]

StaffOps == {"remove", "teacher", "work", "fire", "dismiss", "lead", "unassign", "sync", "join", "leave"}
Roles == {"branch_admin", "teacher", "management", "worker"}
StaffCalls ==
    [op : StaffOps, user : Employees]
        \cup [op : {"add", "promote", "role"}, user : Employees, role : Roles]
        \cup [op : {"resign"}, user : Employees, heir : Employees]
        \cup [op : {"invite"}, invitation : Invitations, email : Emails]
        \cup [op : {"register"}, invitation : Invitations, user : Employees]
        \cup [op : {"hire", "edit"}, user : Employees, email : Emails \cup {Nothing}]
        \cup [op : {"turn", "turnTeacher"}, user : Employees, on : BOOLEAN]
        \cup [op : {"assign"}, user : Employees, lead : BOOLEAN]

\* A scene starts with tables that keep what the database keeps, and no one deleted yet.
ASSUME StaffSceneAssumption ==
    /\ Nothing \notin Accounts /\ Nothing \notin Seats /\ Nothing \notin Emails
    /\ Nothing \notin [email : Emails, used : BOOLEAN, made : SUBSET Employees]
    /\ \A s \in Scenes : s.part = "staff" =>
          /\ s.db \in StaffTables
          /\ \A i \in Invitations : s.db.invite[i] = Nothing
          /\ \A u \in Employees :
                /\ s.db.user[u] = Nothing => s.db.seat[u] = Nothing /\ s.db.tenures[u] = <<>>
                /\ \A n \in 1..(Len(s.db.tenures[u]) - 1) : s.db.tenures[u][n] = "left"
          /\ \A u, v \in {w \in Employees : s.db.user[w] # Nothing} :
                s.db.user[u].email = s.db.user[v].email => u = v \/ s.db.user[u].email = Nothing
          /\ s.db.gone = {} /\ s.db.moved = {}
          /\ \A p \in DOMAIN s.calls : s.calls[p] \in Seq(StaffCalls)

Exists(u) == db.user[u] # Nothing
Taken(email) == \E u \in Employees : Exists(u) /\ db.user[u].email = email
Account(role, email) == [role |-> role, active |-> TRUE, email |-> email, profile |-> TRUE]
Seat(role) == [role |-> role, active |-> TRUE]
Teaches(u) == Exists(u) /\ db.user[u].role = "teacher" /\ db.user[u].profile
Admins == {u \in Employees : db.seat[u] # Nothing /\ db.seat[u].role = "branch_admin" /\ db.seat[u].active}

\* The unique indexes on the account's name and e-mail.
MayInsert(u, email) == ~Exists(u) /\ u \notin db.gone /\ (email # Nothing => ~Taken(email))
\* Deleting a user cascades to everything that belongs to it.
Deleted(u) ==
    [db EXCEPT !.user[u] = Nothing, !.seat[u] = Nothing, !.tenures[u] = <<>>,
               !.lessons = @ \ {u}, !.leads = @ \ {u}, !.gone = @ \cup {u}]

-----------------------------------------------------------------------------
(* Membership and the administrator                                        *)

AddMember(p) ==
    LET u == Call(p).user   role == Call(p).role IN
    \/ /\ At(p, "add", 0)
       /\ IF ~Exists(u) \/ db.seat[u] # Nothing THEN Refuse(p) ELSE ReadTo(p, 1, {})
    \/ /\ At(p, "add", 1)
       /\ IF role = "branch_admin" /\ Admins # {} THEN Refuse(p) ELSE ReadTo(p, 2, {})
    \/ /\ At(p, "add", 2)
       /\ IF Exists(u) /\ db.seat[u] = Nothing
          THEN Commit(p, [db EXCEPT !.seat[u] = Seat(role)]) ELSE Refuse(p)

\* promoteToAdmin goes on as addMember or as updateRole, whose reads repeat its own.
GoOnAs(p, op) ==
    /\ calls' = [calls EXCEPT ![p][1].op = op]
    /\ pc' = [pc EXCEPT ![p] = 0] /\ UNCHANGED <<db, loc, scene>>
PromoteToAdmin(p) ==
    LET u == Call(p).user IN
    \/ /\ At(p, "promote", 0)
       /\ CASE db.seat[u] = Nothing -> GoOnAs(p, "add")
            [] db.seat[u] # Nothing /\ db.seat[u].role = "branch_admin" -> Refuse(p)
            [] OTHER -> ReadTo(p, 1, {})
    \/ /\ At(p, "promote", 1)
       /\ IF Admins \ {u} # {} THEN Refuse(p) ELSE GoOnAs(p, "role")

UpdateRole(p) ==
    LET u == Call(p).user   role == Call(p).role IN
    \/ /\ At(p, "role", 0)
       /\ IF db.seat[u] = Nothing THEN Refuse(p) ELSE ReadTo(p, 1, db.seat[u].role)
    \/ /\ At(p, "role", 1)
       /\ IF role = "branch_admin" /\ loc[p] # "branch_admin" /\ Admins \ {u} # {}
          THEN Refuse(p) ELSE ReadTo(p, 2, {})
    \/ /\ At(p, "role", 2)
       /\ IF db.seat[u] # Nothing
          THEN Commit(p, [db EXCEPT !.seat[u].role = role]) ELSE Refuse(p)

RemoveMember(p) ==
    LET u == Call(p).user IN
    \/ /\ At(p, "remove", 0)
       /\ IF db.seat[u] = Nothing THEN Refuse(p) ELSE ReadTo(p, 1, u \in Admins)
    \/ /\ At(p, "remove", 1)
       /\ IF loc[p] /\ Admins \ {u} = {} THEN Refuse(p) ELSE ReadTo(p, 2, {})
    \/ /\ At(p, "remove", 2)
       /\ IF db.seat[u] # Nothing
          THEN Commit(p, [db EXCEPT !.seat[u].active = FALSE]) ELSE Refuse(p)

\* The caller was the administrator when the request was let in.
Resign(p) ==
    LET u == Call(p).user   heir == Call(p).heir IN
    \/ /\ At(p, "resign", 0)
       /\ IF u \in Admins /\ db.seat[heir] # Nothing
             /\ db.seat[heir].role # "branch_admin" /\ db.seat[heir].active
          THEN ReadTo(p, 1, {}) ELSE Refuse(p)
    \/ /\ At(p, "resign", 1)
       /\ IF db.seat[u] # Nothing /\ db.seat[heir] # Nothing
          THEN Commit(p, [db EXCEPT !.seat[heir].role = "branch_admin", !.seat[u].role = "teacher"])
          ELSE Refuse(p)

-----------------------------------------------------------------------------
(* Invitations                                                             *)

\* A pending invitation is sent again instead of making another.
Invite(p) ==
    LET i == Call(p).invitation   email == Call(p).email IN
    \/ /\ At(p, "invite", 0)
       /\ IF \E j \in Invitations : db.invite[j] # Nothing /\ db.invite[j].email = email /\ ~db.invite[j].used
          THEN Refuse(p) ELSE ReadTo(p, 1, {})
    \/ /\ At(p, "invite", 1)
       /\ IF Taken(email) THEN Refuse(p) ELSE ReadTo(p, 2, {})
    \/ /\ At(p, "invite", 2)
       /\ IF db.invite[i] = Nothing
          THEN Commit(p, [db EXCEPT !.invite[i] = [email |-> email, used |-> FALSE, made |-> {}]])
          ELSE Refuse(p)

Redeemed(i, u) ==
    [email |-> db.invite[i].email, used |-> TRUE, made |-> db.invite[i].made \cup {u}]
\* Mutant: the invitation is marked used outside the transaction.
RegisterMarksFirst(p) ==
    LET u == Call(p).user   i == Call(p).invitation IN
    IF MayInsert(u, db.invite[i].email)
    THEN Commit(p, [db EXCEPT !.user[u] = Account("management", db.invite[i].email),
                              !.invite[i] = Redeemed(i, u),
                              !.seat[u] = Seat("branch_admin")])
    ELSE Commit(p, [db EXCEPT !.invite[i].used = TRUE])
\* The account, the used invitation, the membership and the profile in one transaction.
RegisterTx(p) ==
    LET u == Call(p).user   i == Call(p).invitation IN
    IF MayInsert(u, db.invite[i].email)
    THEN Commit(p, [db EXCEPT !.user[u] = Account("management", db.invite[i].email),
                              !.invite[i] = Redeemed(i, u),
                              !.seat[u] = Seat("branch_admin")])
    ELSE Refuse(p)

CompleteRegistration(p) ==
    LET i == Call(p).invitation IN
    \/ /\ At(p, "register", 0)
       /\ IF db.invite[i] = Nothing \/ db.invite[i].used THEN Refuse(p) ELSE ReadTo(p, 1, {})
    \/ At(p, "register", 1) /\ RegisterTx(p)

-----------------------------------------------------------------------------
(* Accounts of staff and teachers                                          *)

\* createStaff and createWorker: everything in one transaction, a worker with a tenure.
CreateStaff(p) ==
    LET u == Call(p).user   email == Call(p).email IN
    \/ /\ At(p, "hire", 0)
       /\ IF ~MayInsert(u, email) THEN Refuse(p) ELSE ReadTo(p, 1, {})
    \/ /\ At(p, "hire", 1)
       /\ IF MayInsert(u, email)
          THEN Commit(p, [db EXCEPT !.user[u] = Account("management", email), !.seat[u] = Seat("management")])
          ELSE Refuse(p)
\* A worker's name is tried with other endings until it is free.
CreateWorker(p) ==
    LET u == Call(p).user IN
    \/ At(p, "work", 0) /\ ~Exists(u) /\ ReadTo(p, 1, {})
    \/ /\ At(p, "work", 1)
       /\ IF MayInsert(u, Nothing)
          THEN Commit(p, [db EXCEPT !.user[u] = Account("management", Nothing), !.seat[u] = Seat("worker"),
                                    !.tenures[u] = <<"open">>])
          ELSE Refuse(p)

\* A teacher is created in three statements: account, profile, membership.
CreateTeacher(p) ==
    LET u == Call(p).user IN
    \/ /\ At(p, "teacher", 0)
       /\ IF MayInsert(u, Nothing)
          THEN WriteTo(p, 1, [db EXCEPT !.user[u] = [Account("teacher", Nothing) EXCEPT !.profile = FALSE]])
          ELSE Refuse(p)
    \/ /\ At(p, "teacher", 1)
       /\ IF Exists(u) THEN WriteTo(p, 2, [db EXCEPT !.user[u].profile = TRUE]) ELSE Refuse(p)
    \/ /\ At(p, "teacher", 2)       \* or the branch was not named, or the statement failed
       /\ \/ IF Exists(u) /\ ~(db.seat[u] # Nothing /\ db.seat[u].active)
             THEN Commit(p, [db EXCEPT !.seat[u] = Seat("teacher")]) ELSE Refuse(p)
          \/ scene.fails /\ Refuse(p)

\* deactivate, reactivate: the account first, the membership in a second statement.
SetActive(p, op, known) ==
    LET u == Call(p).user   on == Call(p).on IN
    \/ /\ At(p, op, 0)
       /\ IF ~known \/ db.user[u].active = on THEN Refuse(p) ELSE ReadTo(p, 1, {})
    \/ /\ At(p, op, 1)
       /\ IF Exists(u) THEN WriteTo(p, 2, [db EXCEPT !.user[u].active = on]) ELSE Refuse(p)
    \/ /\ At(p, op, 2)
       /\ IF db.seat[u] # Nothing
          THEN Commit(p, [db EXCEPT !.seat[u].active = on]) ELSE Refuse(p)
TurnStaff(p) == SetActive(p, "turn", db.seat[Call(p).user] # Nothing)
TurnTeacher(p) == SetActive(p, "turnTeacher", Teaches(Call(p).user))

\* updateStaffProfile, as far as the e-mail: checked by hand, then by the index.
UpdateStaffProfile(p) ==
    LET u == Call(p).user   email == Call(p).email
        clash == email # Nothing /\ \E v \in Employees \ {u} : Exists(v) /\ db.user[v].email = email IN
    \/ /\ At(p, "edit", 0)
       /\ IF db.seat[u] = Nothing \/ clash THEN Refuse(p) ELSE ReadTo(p, 1, {})
    \/ /\ At(p, "edit", 1)
       /\ IF Exists(u) /\ ~clash
          THEN Commit(p, [db EXCEPT !.user[u].email = email,
                                    !.moved = IF db.user[u].email = email THEN @ ELSE @ \cup {u}])
          ELSE Refuse(p)

\* Only who has no history may be deleted; the payroll rows also refuse by themselves.
DeleteStaff(p) ==
    LET u == Call(p).user IN
    \/ /\ At(p, "fire", 0)
       /\ IF db.seat[u] = Nothing \/ u \in db.history THEN Refuse(p) ELSE ReadTo(p, 1, {})
    \/ /\ At(p, "fire", 1)
       /\ IF Exists(u) /\ u \notin db.history THEN Commit(p, Deleted(u)) ELSE Refuse(p)

DeleteTeacher(p) ==
    LET u == Call(p).user IN
    \/ /\ At(p, "dismiss", 0)
       /\ IF ~Teaches(u) \/ u \in db.lessons THEN Refuse(p) ELSE ReadTo(p, 1, {})
    \/ /\ At(p, "dismiss", 1)
       /\ IF Teaches(u)
          THEN WriteTo(p, 2, [db EXCEPT !.user[u].profile = FALSE]) ELSE Refuse(p)
    \/ /\ At(p, "dismiss", 2)
       /\ \/ IF Exists(u) THEN Commit(p, Deleted(u)) ELSE Refuse(p)
          \/ u \in db.history /\ Refuse(p)       \* payroll rows keep the account

-----------------------------------------------------------------------------
(* Assignments, and the memberships worked out from them                    *)

Assign(p) ==
    LET u == Call(p).user IN
    \/ /\ At(p, "assign", 0)
       /\ IF Exists(u) /\ db.user[u].role = "teacher" /\ db.user[u].active
          THEN ReadTo(p, 1, {}) ELSE Refuse(p)
    \/ /\ At(p, "assign", 1)
       /\ IF Exists(u)
          THEN Commit(p, [db EXCEPT !.lessons = @ \cup {u}, !.leads = IF Call(p).lead THEN @ \cup {u} ELSE @])
          ELSE Refuse(p)

\* update: the others of the class lose the lead in a statement of its own.
SetLead(p) ==
    LET u == Call(p).user IN
    \/ /\ At(p, "lead", 0)
       /\ IF u \notin db.lessons THEN Refuse(p) ELSE WriteTo(p, 1, [db EXCEPT !.leads = @ \cap {u}])
    \/ /\ At(p, "lead", 1)
       /\ IF u \in db.lessons THEN Commit(p, [db EXCEPT !.leads = @ \cup {u}]) ELSE Refuse(p)
Unassign(p) ==
    /\ At(p, "unassign", 0)
    /\ Commit(p, [db EXCEPT !.lessons = @ \ {Call(p).user}, !.leads = @ \ {Call(p).user}])

\* syncTeachersForBranch runs on every list of teachers: active teachers with a lesson,
\* then those without a seat, are seated one by one.
Seatless == {u \in Employees : Exists(u) /\ db.user[u].role = "teacher" /\ db.user[u].active /\ db.user[u].profile
                              /\ ~(db.seat[u] # Nothing /\ db.seat[u].active)}
Teaching == {u \in db.lessons : db.user[u].active}
SeatOne(p, n) ==
    /\ At(p, "sync", n) /\ loc[p] # {}
    /\ \E u \in loc[p] :
          IF Exists(u)
          THEN /\ db' = [db EXCEPT !.seat[u] = Seat("teacher")]
               /\ loc' = [loc EXCEPT ![p] = @ \ {u}] /\ UNCHANGED <<pc, calls, scene>>
          ELSE Refuse(p)
SyncTeachers(p) ==
    \/ At(p, "sync", 0) /\ ReadTo(p, 1, Teaching)
    \/ SeatOne(p, 1) \/ SeatOne(p, 2)
    \/ /\ At(p, "sync", 1) /\ loc[p] = {}
       /\ IF db.lessons = {} THEN Refuse(p) ELSE ReadTo(p, 2, Seatless)
    \/ At(p, "sync", 2) /\ loc[p] = {} /\ Refuse(p)

-----------------------------------------------------------------------------
(* Tenures: the sequence of a member's times in the branch                  *)

LastOpen(s) == s # <<>> /\ s[Len(s)] = "open"

\* Mutant: the sequence is counted when the row is written.
JoinCounts(p) ==
    LET u == Call(p).user IN
    \/ /\ At(p, "join", 0)
       /\ IF db.seat[u] = Nothing \/ LastOpen(db.tenures[u]) THEN Refuse(p)
          ELSE ReadTo(p, 1, Len(db.tenures[u]))
    \/ /\ At(p, "join", 1)
       /\ IF db.seat[u] # Nothing
          THEN Commit(p, [db EXCEPT !.tenures[u] = Append(@, "open")]) ELSE Refuse(p)
\* The unique index on the member and the sequence decides between two joins.
Join(p) ==
    LET u == Call(p).user IN
    \/ /\ At(p, "join", 0)
       /\ IF db.seat[u] = Nothing \/ LastOpen(db.tenures[u]) THEN Refuse(p)
          ELSE ReadTo(p, 1, Len(db.tenures[u]))
    \/ /\ At(p, "join", 1)
       /\ IF db.seat[u] # Nothing /\ Len(db.tenures[u]) = loc[p]
          THEN Commit(p, [db EXCEPT !.tenures[u] = Append(@, "open")]) ELSE Refuse(p)

Leave(p) ==
    LET u == Call(p).user
        open == {n \in DOMAIN db.tenures[u] : db.tenures[u][n] = "open"} IN
    \/ /\ At(p, "leave", 0)
       /\ IF open = {} THEN Refuse(p) ELSE ReadTo(p, 1, CHOOSE n \in open : \A k \in open : k <= n)
    \/ /\ At(p, "leave", 1)
       /\ IF loc[p] \in DOMAIN db.tenures[u]
          THEN Commit(p, [db EXCEPT !.tenures[u][loc[p]] = "left"]) ELSE Refuse(p)

-----------------------------------------------------------------------------
StaffInit == HandlersInit

StaffNext ==
    \/ \E p \in Procs :
          \/ AddMember(p) \/ PromoteToAdmin(p) \/ UpdateRole(p) \/ RemoveMember(p) \/ Resign(p)
          \/ Invite(p) \/ CompleteRegistration(p)
          \/ CreateStaff(p) \/ CreateWorker(p) \/ CreateTeacher(p)
          \/ TurnStaff(p) \/ TurnTeacher(p) \/ UpdateStaffProfile(p)
          \/ DeleteStaff(p) \/ DeleteTeacher(p)
          \/ Assign(p) \/ SetLead(p) \/ Unassign(p) \/ SyncTeachers(p)
          \/ Join(p) \/ Leave(p)
    \/ Rest

StaffSpec == StaffInit /\ [][StaffNext]_handlerVars

-----------------------------------------------------------------------------
(* Properties                                                              *)

\* The tables hold rows of their types, and handlers run as handlers do.
StaffTypeOK == HandlersTypeOK /\ db \in StaffTables

\* A member has at most one open tenure, the last of the sequence, however joins and
\* leaves overlap (recordBranchJoin, recordBranchLeave).
TenuresInOrder ==
    \A u \in Employees : \A n \in 1..(Len(db.tenures[u]) - 1) : db.tenures[u][n] = "left"

\* An invitation that is used has made an account, and what it made is whole: user, profile
\* and membership, for as long as the user is there.  Of all accounts made for one address,
\* by one invitation or by several, at most one is there with that address, and the rest
\* were deleted or got another (completeRegistration).
InvitationMakesOne ==
    /\ \A i \in Invitations : db.invite[i] # Nothing =>
          /\ db.invite[i].used => db.invite[i].made # {}
          /\ \A u \in db.invite[i].made \ db.gone :
                Exists(u) /\ db.user[u].profile /\ db.seat[u] # Nothing
    /\ \A i, j \in Invitations :
          db.invite[i] # Nothing /\ db.invite[j] # Nothing /\ db.invite[i].email = db.invite[j].email =>
            \A u \in db.invite[i].made \ (db.gone \cup db.moved), v \in db.invite[j].made \ (db.gone \cup db.moved) :
                u = v /\ i = j

\* Staff: the tenures of a member follow one another, with the last one alone open, and an
\* invitation makes one whole account.
StaffSound == Of("staff") => StaffTypeOK /\ TenuresInOrder /\ InvitationMakesOne

\* What promoteToAdmin says of an administrator who keeps the classes ("user stays in
\* TeacherProfile + group assignments"): only a call about the administrator ends the
\* administration.
AdminStaysAdmin ==
    [][\A u \in Admins : u \in Admins' \/
          \E p \in Procs : calls[p] # <<>> /\ Call(p).op \in {"role", "remove", "resign", "turn", "turnTeacher", "fire", "dismiss"}]_handlerVars
=============================================================================
