------------------------------- MODULE ChatRooms -------------------------------
(***************************************************************************)
(* The chat rooms of one branch, year and class: how they come to exist and *)
(* who becomes a member.  Every portal bootstraps its rooms when a user     *)
(* lands on it, opening a room heals a membership that is missing, branch   *)
(* settings and class roles are followed by a sync of the members, and two  *)
(* people open their direct conversation from either side.                  *)
(*                                                                         *)
(* A handler is a plan of rooms to ensure and member lists to write: a list *)
(* is worked out from what was read, then upserted one row at a time.  A    *)
(* parent joins and is healed with the student and has no steps of its own. *)
(***************************************************************************)
EXTENDS Integers, Sequences, SequencesExt, FiniteSets

CONSTANTS
    Procs,                      \* handlers under way
    Admins, Teachers, Students, \* users
    Roles,                      \* definitions of class roles
    Scenes, NoMember, Keep      \* Keep: an upsert leaves the field alone

VARIABLES
    rooms,      \* keys of the rooms that exist, one row per key
    members,    \* of each room and user: the membership, or NoMember
    settings,   \* who may post announcements: school, teachers, all
    defs,       \* of each role: active, posts, initiates, receives
    klass,      \* the students of the class
    held,       \* of each role and student: "none", "held" or "restricted"
    thread,     \* the room of the one direct conversation, 0 for none
    calls,      \* of each handler: the calls its caller still makes
    todo,       \* of each handler: the rows it has still to upsert
    scene, pc, loc

vars == <<rooms, members, settings, defs, klass, held, thread, calls, todo, scene, pc, loc>>

Users == Admins \cup Teachers \cup Students
School == <<"school">>   StaffRoom == <<"teachers">>   Community == <<"community">>
Class == <<"class">>     Subject == <<"subject">>      Own(u) == <<"own", u>>
Dm(n) == <<"dm", n>>
DmNumbers == 1..2
Keys == {School, StaffRoom, Community, Class, Subject} \cup {Own(u) : u \in Users} \cup {Dm(n) : n \in DmNumbers}

\* calls: the calls of each handler, one after the other; branchTeachers: members of the
\* branch; classTeachers, taught (by whom the subject is taught): the assignments; pair:
\* who writes to each other; defs, klass, held: the roles, the students of the class and
\* who of them holds what at first; fails: statements may fail.
Write(k, u, post) == [room |-> k, user |-> u, canPost |-> post, restricted |-> Keep]

Init ==
    /\ scene \in Scenes
    /\ rooms = {} /\ thread = 0
    /\ members = [k \in Keys |-> [u \in Users |-> NoMember]]
    /\ settings = [school |-> {}, teachers |-> {}, all |-> FALSE]
    /\ defs = scene.defs /\ klass = scene.klass /\ held = scene.held /\ calls = scene.calls
    /\ todo = [p \in Procs |-> <<>>]
    /\ pc = [p \in Procs |-> "idle"]
    /\ loc = [p \in Procs |-> [call |-> 0, plan |-> <<>>, room |-> 0]]

-----------------------------------------------------------------------------
(* Who belongs where                                                       *)

Assigned == scene.classTeachers \cup scene.taught
IsBranchChatAdmin(u) == u \in Admins
Tied(u) == u \in scene.branchTeachers \cup Assigned

\* The active roles a student holds without a restriction, and with one.
Holds(s) == {r \in Roles : defs[r].active /\ held[r][s] # "none"}
Free(s) == {r \in Holds(s) : held[r][s] = "held"}
RolePosts(s) == \E r \in Free(s) : defs[r].posts
CanSend(u) == u \notin Students \/ \E r \in Free(u) : defs[r].initiates \/ defs[r].receives
MayOpen(u, other) ==
    /\ u \in Students => \E r \in Free(u) : defs[r].initiates
    /\ other \in Students => \E r \in Free(other) : defs[r].receives

-----------------------------------------------------------------------------
(* The member lists                                                        *)

InOrder(ws) == SetToSeq({{w} : w \in ws})

\* syncSchoolAnnouncementMembers: administrators and posters, then the teachers among
\* the members who are neither.
SchoolList ==
    LET posting == Admins \cup settings.school
        others == {t \in Teachers \ posting : members[School][t] # NoMember}
    IN  InOrder({Write(School, u, TRUE) : u \in posting})
          \o InOrder({Write(School, t, FALSE) : t \in others})

\* syncTeacherAnnouncementMembers
StaffList ==
    InOrder({Write(StaffRoom, u, TRUE) : u \in Admins})
      \o InOrder({Write(StaffRoom, t, settings.all \/ t \in settings.teachers) :
                      t \in scene.branchTeachers \ Admins})
      \o InOrder({Write(StaffRoom, u, TRUE) : u \in settings.teachers \ Admins})

\* ensureStudentChatBootstrap: the student, and every teacher of the class.
StudentJoins(s) ==
    InOrder({Write(k, s, FALSE) : k \in {School, Class, Own(s)}})
      \o InOrder({Write(Class, t, t \in scene.classTeachers) : t \in Assigned}
                  \cup {Write(School, t, FALSE) : t \in Assigned})
StudentSubject(s) ==
    InOrder({Write(Subject, s, FALSE)} \cup {Write(Subject, t, TRUE) : t \in scene.taught})

\* ensureTeacherChatBootstrap
TeacherSelf(t) ==
    InOrder({Write(School, t, FALSE), Write(StaffRoom, t, settings.all \/ t \in settings.teachers)})
TeacherClass(t) ==
    InOrder({Write(Class, t, t \in scene.classTeachers)} \cup {Write(Subject, x, TRUE) : x \in scene.taught \cap {t}})

\* ensureStaffChatBootstrap: every teacher of the class moderates its room.
StaffClass(a) ==
    InOrder({Write(Class, a, TRUE)})
StaffSubject(a) ==
    InOrder({Write(Subject, u, TRUE) : u \in {a} \cup scene.taught})
      \o InOrder({Write(Class, t, TRUE) : t \in Assigned \ {a}})

\* Mutant: a student is restricted by any one role that does not post.
RoleListAnyRole ==
    {{[room |-> Subject, user |-> s, canPost |-> RolePosts(s),
       restricted |-> \E r \in Holds(s) : ~(r \in Free(s) /\ defs[r].posts)] : s \in klass}}

\* syncClassRoleMemberships: all students of the class in one text of statements.
RoleList ==
    {{[room |-> Subject, user |-> s, canPost |-> RolePosts(s),
       restricted |-> Holds(s) # {} /\ ~RolePosts(s)] : s \in klass}}

\* syncDmMembershipCanPost
DmList(n) ==
    InOrder({[room |-> Dm(n), user |-> u, canPost |-> CanSend(u), restricted |-> ~CanSend(u)] : u \in scene.pair})

List(name, p) ==
    LET u == loc[p].call.who
    IN  CASE name = "school" -> SchoolList
          [] name = "teachers" -> StaffList
          [] name = "student" -> StudentJoins(u)
          [] name = "student subject" -> StudentSubject(u)
          [] name = "teacher" -> TeacherSelf(u)
          [] name = "teacher class" -> TeacherClass(u)
          [] name = "admin" -> InOrder({Write(k, u, TRUE) : k \in {School, StaffRoom}})
          [] name = "admin class" -> StaffClass(u)
          [] name = "admin subject" -> StaffSubject(u)
          [] name = "own" -> InOrder({Write(Own(u), u, FALSE)})
          [] name = "roles" -> IF Subject \in rooms /\ klass # {} THEN SetToSeq(RoleList) ELSE <<>>
          [] name = "dm" -> DmList(loc[p].room)
          [] name = "here" -> InOrder({Write(loc[p].call.room, u, IsBranchChatAdmin(u))})
          [] name = "class here" -> InOrder({Write(Class, u, u \in scene.classTeachers)})
          [] name = "subject here" -> InOrder({Write(Subject, u, TRUE)})

-----------------------------------------------------------------------------
(* The plans                                                               *)

Ensure(k) == <<"ensure", k>>
Do(name) == <<"write", name>>
StudentPlan(s) ==
    <<Ensure(Community), Ensure(School), Ensure(Class), Ensure(Own(s)), Do("student"),
      Ensure(Subject), Do("student subject"), Do("school")>>
TeacherPlan(t) ==
    <<Ensure(School), Do("school"), Ensure(StaffRoom), Do("teachers"), Do("teacher"),
      Ensure(Community), Ensure(Class), Ensure(Subject), Do("teacher class"), Ensure(Own(t)), Do("own")>>
StaffPlan ==
    <<Ensure(School), Do("school"), Ensure(StaffRoom), Do("teachers"), Do("admin"),
      Ensure(Community), Ensure(Class), Do("admin class"), Ensure(Subject), Do("admin subject")>>

\* Mutant: any teacher is healed into the rooms of the class.
HealPlanUntied(u, k) ==
    IF u \in Teachers THEN <<Do("class here")>> ELSE StudentPlan(u)

\* ensureChatRoomAccess, for a user who is not a member: what heals the membership.
HealPlan(u, k) ==
    CASE u \in Admins ->
            IF k = School THEN <<Do("school"), Do("here")>>
            ELSE IF k = StaffRoom THEN <<Do("teachers"), Do("here")>>
            ELSE IF k \in {Class, Subject} \cup {Dm(n) : n \in DmNumbers} THEN <<Do("here")>> ELSE <<>>
      [] u \in Teachers ->
            IF k = School /\ Tied(u) THEN <<Do("school"), Do("here")>>
            ELSE IF k = StaffRoom /\ Tied(u) THEN <<Do("teachers")>>
            ELSE IF k = Class /\ u \in Assigned THEN <<Do("class here")>>
            ELSE IF k = Subject /\ u \in scene.taught THEN <<Do("subject here")>>
            ELSE IF k = Own(u) THEN <<Do("own")>> ELSE <<>>
      [] OTHER -> StudentPlan(u)

-----------------------------------------------------------------------------
(* One handler                                                             *)

Goto(p, label, l) ==
    /\ pc' = [pc EXCEPT ![p] = label]
    /\ loc' = [loc EXCEPT ![p] = l]
    /\ UNCHANGED <<scene, calls>>
End(p, how) == Goto(p, how, [loc[p] EXCEPT !.plan = <<>>, !.room = 0])
Planned(p, plan) == Goto(p, "phase", [loc[p] EXCEPT !.plan = plan])
Chat == <<rooms, members, thread>>
Rights == <<settings, defs, klass, held>>

\* The next call of the handler's caller, once the last one has not failed.
Begin(p) ==
    /\ pc[p] \in {"idle", "done", "denied"} /\ calls[p] # <<>>
    /\ calls' = [calls EXCEPT ![p] = Tail(calls[p])]
    /\ pc' = [pc EXCEPT ![p] = "start"]
    /\ loc' = [loc EXCEPT ![p] = [call |-> Head(calls[p]), plan |-> <<>>, room |-> 0]]
    /\ UNCHANGED <<Chat, Rights, todo, scene>>

At(p, h) == pc[p] = "start" /\ loc[p].call.h = h
Start(p) ==
    LET c == loc[p].call
    IN  /\ \/ At(p, "student") /\ Planned(p, StudentPlan(c.who))
           \/ At(p, "teacher") /\ IF c.who \in Assigned THEN Planned(p, TeacherPlan(c.who)) ELSE End(p, "denied")
           \/ At(p, "staff") /\ IF IsBranchChatAdmin(c.who) THEN Planned(p, StaffPlan) ELSE End(p, "denied")
        /\ UNCHANGED <<Chat, Rights, todo>>

\* Opening a room: a student's own room is bootstrapped first, and only for its owner.
Open(p) ==
    LET u == loc[p].call.who  k == loc[p].call.room
    IN  /\ At(p, "open")
        /\ IF k \in rooms /\ k \in {Own(s) : s \in Students}
           THEN IF k = Own(u) THEN Planned(p, StudentPlan(u)) ELSE End(p, "denied")
           ELSE IF members[k][u] # NoMember THEN End(p, "done")
           ELSE IF k \notin rooms THEN End(p, "done")
           ELSE Planned(p, Append(HealPlan(u, k), <<"check", k>>))
        /\ UNCHANGED <<Chat, Rights, todo>>
Check(p) ==
    /\ pc[p] = "phase" /\ loc[p].plan # <<>> /\ Head(loc[p].plan)[1] = "check"
    /\ End(p, IF members[loc[p].call.room][loc[p].call.who] = NoMember THEN "denied" ELSE "done")
    /\ UNCHANGED <<Chat, Rights, todo>>

\* validateTeacherPosterUserIds, validateSchoolPosterUserIds: active teachers of the branch.
ValidPosters(c) == c.school \cup c.teachers \subseteq scene.branchTeachers
\* updateBranchChatSettings
Settings(p) ==
    LET c == loc[p].call
    IN  /\ At(p, "settings")
        /\ IF ValidPosters(c)
           THEN /\ settings' = [school |-> c.school, teachers |-> c.teachers, all |-> c.all]
                /\ Planned(p, <<Do("school"), Do("teachers")>>)
           ELSE UNCHANGED settings /\ End(p, "denied")
        /\ UNCHANGED <<Chat, defs, klass, held, todo>>

\* The handlers of class roles: the edit, then the sync.
Update(p) ==
    LET c == loc[p].call
    IN  /\ At(p, "update")
        /\ IF defs[c.role].active
           THEN /\ defs' = [defs EXCEPT ![c.role].posts = c.posts]
                /\ Planned(p, IF c.posts # defs[c.role].posts THEN <<Do("roles")>> ELSE <<>>)
           ELSE UNCHANGED defs /\ End(p, "denied")
        /\ UNCHANGED <<Chat, settings, klass, held, todo>>
Delete(p) ==
    LET c == loc[p].call
    IN  /\ At(p, "delete")
        /\ IF defs[c.role].active
           THEN defs' = [defs EXCEPT ![c.role].active = FALSE] /\ Planned(p, <<Do("roles")>>)
           ELSE UNCHANGED defs /\ End(p, "denied")
        /\ UNCHANGED <<Chat, settings, klass, held, todo>>
Assign(p) ==
    LET c == loc[p].call
    IN  /\ At(p, "assign")
        /\ IF defs[c.role].active /\ c.who \in klass
           THEN held' = [held EXCEPT ![c.role][c.who] = c.as] /\ Planned(p, <<Do("roles")>>)
           ELSE UNCHANGED held /\ End(p, "denied")
        /\ UNCHANGED <<Chat, settings, defs, klass, todo>>
RemoveAssignment(p) ==
    LET c == loc[p].call
    IN  /\ At(p, "remove")
        /\ IF held[c.role][c.who] # "none"
           THEN held' = [held EXCEPT ![c.role][c.who] = "none"] /\ Planned(p, <<Do("roles")>>)
           ELSE UNCHANGED held /\ End(p, "denied")
        /\ UNCHANGED <<Chat, settings, defs, klass, todo>>

\* A student with a login is placed in the class (Admissions).
Enrol(p) ==
    /\ At(p, "enrol")
    /\ klass' = klass \cup {loc[p].call.who}
    /\ End(p, "done")
    /\ UNCHANGED <<Chat, settings, defs, held, todo>>

-----------------------------------------------------------------------------
(* Rooms and members                                                       *)

AtPhase(p, what) == pc[p] = "phase" /\ loc[p].plan # <<>> /\ Head(loc[p].plan)[1] = what
Rest(p) == [loc[p] EXCEPT !.plan = Tail(loc[p].plan)]

Look(p) ==
    /\ AtPhase(p, "ensure")
    /\ IF Head(loc[p].plan)[2] \in rooms THEN Goto(p, "phase", Rest(p)) ELSE Goto(p, "create", loc[p])
    /\ UNCHANGED <<Chat, Rights, todo>>

\* Only the student's bootstrap, and whoever ensures the school room, go on with the
\* room that someone else has created since; the others answer with the error.
Converges(p, k) == k = School \/ loc[p].call.who \in Students
Create(p) ==
    LET k == Head(loc[p].plan)[2]
    IN  /\ pc[p] = "create"
        /\ rooms' = rooms \cup {k}
        /\ IF k \in rooms /\ ~Converges(p, k) THEN End(p, "failed") ELSE Goto(p, "phase", Rest(p))
        /\ UNCHANGED <<members, thread, Rights, todo>>
Read(p) ==
    /\ AtPhase(p, "write")
    /\ todo' = [todo EXCEPT ![p] = List(Head(loc[p].plan)[2], p)]
    /\ Goto(p, "write", Rest(p))
    /\ UNCHANGED <<Chat, Rights>>

Upserted(m, w) ==
    [canPost |-> w.canPost,
     restricted |-> IF w.restricted # Keep THEN w.restricted ELSE m # NoMember /\ m.restricted]
\* The statements of one text share their parameters, and PostgreSQL prepares one
\* statement at a time: a text of two or more is refused.
Refused(batch) == Cardinality(batch) > 1
\* ensureRoomMembership, and the batch of syncClassRoleMemberships.
Upsert(p) ==
    /\ pc[p] = "write"
    /\ IF todo[p] = <<>>
       THEN Goto(p, "phase", loc[p]) /\ UNCHANGED <<members, todo>>
       ELSE IF Refused(Head(todo[p]))
       THEN End(p, "failed") /\ todo' = [todo EXCEPT ![p] = <<>>] /\ UNCHANGED members
       ELSE LET batch == Head(todo[p])
            IN  /\ members' = [k \in Keys |-> [u \in Users |->
                       LET ws == {w \in batch : w.room = k /\ w.user = u}
                       IN  IF ws = {} THEN members[k][u] ELSE Upserted(members[k][u], CHOOSE w \in ws : TRUE)]]
                /\ todo' = [todo EXCEPT ![p] = Tail(todo[p])]
                /\ UNCHANGED <<pc, loc, scene, calls>>
    /\ UNCHANGED <<rooms, thread, Rights>>
Planless(p) ==
    /\ pc[p] = "phase" /\ loc[p].plan = <<>> /\ pc' = [pc EXCEPT ![p] = "done"]
    /\ UNCHANGED <<Chat, Rights, scene, calls, todo, loc>>

\* A statement of the handler fails.
Fail(p) ==
    /\ scene.fails /\ pc[p] \notin {"idle", "done", "denied", "failed"}
    /\ End(p, "failed") /\ todo' = [todo EXCEPT ![p] = <<>>]
    /\ UNCHANGED <<Chat, Rights>>

-----------------------------------------------------------------------------
(* ensureDirectMessageRoom                                                 *)

OpenDm(p) ==
    LET u == loc[p].call.who  other == CHOOSE x \in scene.pair : x # u
    IN  /\ At(p, "dm")
        /\ IF thread # 0 THEN Goto(p, "phase", [loc[p] EXCEPT !.plan = <<Do("dm")>>, !.room = thread])
           ELSE IF MayOpen(u, other) THEN Goto(p, "dm_room", loc[p])
           ELSE End(p, "denied")
        /\ UNCHANGED <<Chat, Rights, todo>>
DmRoom(p) ==
    /\ pc[p] = "dm_room"
    /\ \E n \in DmNumbers :
          /\ Dm(n) \notin rooms /\ \A x \in DmNumbers : x < n => Dm(x) \in rooms
          /\ rooms' = rooms \cup {Dm(n)}
          /\ Goto(p, "dm_thread", [loc[p] EXCEPT !.room = n])
    /\ UNCHANGED <<members, thread, Rights, todo>>
DmThread(p) ==
    /\ pc[p] = "dm_thread"
    /\ IF thread = 0
       THEN thread' = loc[p].room /\ Goto(p, "phase", [loc[p] EXCEPT !.plan = <<Do("dm")>>])
       ELSE UNCHANGED thread /\ Goto(p, "dm_clean", loc[p])
    /\ UNCHANGED <<rooms, members, Rights, todo>>

\* Mutant: the caller keeps the room that lost.
DmCleanKeeps(p) ==
    /\ pc[p] = "dm_clean"
    /\ Goto(p, "phase", [loc[p] EXCEPT !.plan = <<Do("dm")>>])
    /\ UNCHANGED <<Chat, Rights, todo>>

\* The loser of the race deletes its own room; the deletion may fail unnoticed.
DmClean(p) ==
    /\ pc[p] = "dm_clean"
    /\ \/ rooms' = rooms \ {Dm(loc[p].room)}
       \/ scene.fails /\ UNCHANGED rooms
    /\ Goto(p, "phase", [loc[p] EXCEPT !.plan = <<Do("dm")>>, !.room = thread])
    /\ UNCHANGED <<members, thread, Rights, todo>>

-----------------------------------------------------------------------------

Handle(p) == Begin(p) \/ Start(p) \/ Open(p) \/ Check(p) \/ Settings(p)
EditRoles(p) == Update(p) \/ Delete(p) \/ Assign(p) \/ RemoveAssignment(p) \/ Enrol(p)
Follow(p) == Look(p) \/ Create(p) \/ Read(p) \/ Upsert(p) \/ Planless(p) \/ Fail(p)
Direct(p) == OpenDm(p) \/ DmRoom(p) \/ DmThread(p) \/ DmClean(p)
Next == \E p \in Procs : Handle(p) \/ EditRoles(p) \/ Follow(p) \/ Direct(p)
Spec == Init /\ [][Next]_vars

Resting == \A p \in Procs : pc[p] \in {"idle", "done", "denied"}
Ended == \A p \in Procs : pc[p] \in {"idle", "done", "denied", "failed"}

TypeOK ==
    /\ rooms \subseteq Keys /\ thread \in {0} \cup DmNumbers
    /\ members \in [Keys -> [Users -> {NoMember} \cup [canPost : BOOLEAN, restricted : BOOLEAN]]]
    /\ settings \in [school : SUBSET Teachers, teachers : SUBSET Teachers, all : BOOLEAN]
    /\ klass \subseteq Students
    /\ held \in [Roles -> [Students -> {"none", "held", "restricted"}]]

\* Once every handler has ended, no student whose class role lets him write in the subject
\* rooms is kept from it by a restriction left on his membership.
RestrictionsFollowRoles ==
    Ended => \A s \in Students :
        members[Subject][s] # NoMember /\ members[Subject][s].restricted => ~RolePosts(s)

\* Restrictions follow the roles in a class nobody has joined since: either its one
\* membership is synced, or the sync is refused and has never set a restriction.
NeverWronglySilenced == klass = scene.klass => RestrictionsFollowRoles

\* With no failing statement a handler ends with an error only where the code lets it: an
\* edit of the roles of a class of several, or a landing of staff or a teacher that met
\* somebody else; a student always lands.
FailuresAreEarned ==
    ~scene.fails => \A p \in Procs : pc[p] = "failed" =>
        \/ loc[p].call.h \in {"update", "delete", "assign", "remove"} /\ Cardinality(klass) > 1
        \/ loc[p].call.h \in {"teacher", "staff"} /\ \E q \in Procs \ {p} : pc[q] # "idle"

\* However many callers open the conversation at once, from either side, it has one room,
\* both are members of it, and no other room is left behind.
DmConverges ==
    Resting /\ thread # 0 =>
        /\ scene.fails \/ {n \in DmNumbers : Dm(n) \in rooms} = {thread}
        /\ Dm(thread) \in rooms
        /\ (\E p \in Procs : pc[p] = "done" /\ loc[p].call.h = "dm") =>
              \A u \in scene.pair : members[Dm(thread)][u] # NoMember

\* A membership appears only for someone tied to the room: healing adds what belongs.
Belongs(k, u) ==
    CASE k = School -> u \in Admins \cup Students \cup settings.school \/ Tied(u)
      [] k = StaffRoom -> u \in Admins \cup settings.teachers \/ Tied(u)
      [] k = Class -> u \in Admins \cup Assigned \cup Students
      [] k = Subject -> u \in Admins \cup scene.taught \cup Students
      [] k \in {Own(x) : x \in Users} -> k = Own(u)
      [] OTHER -> u \in scene.pair \cup Admins
OnlyTheTied ==
    \A k \in Keys, u \in Users :
        members[k][u] = NoMember /\ members'[k][u] # NoMember => Belongs(k, u)
=============================================================================
