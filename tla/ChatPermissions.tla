---------------------------- MODULE ChatPermissions ----------------------------
(***************************************************************************)
(* Who may write in a chat room, decided twice: for one room when a message *)
(* is sent (resolveCanPost), and for all rooms of a user at once when the   *)
(* list is shown, from rows loaded in batches (computeCanPostFromContext).  *)
(* Beneath them: the portal permissions of a teacher, the class roles of a  *)
(* student, and who may open a direct conversation with whom.               *)
(*                                                                         *)
(* A behaviour puts one question and answers it along every path.           *)
(***************************************************************************)
EXTENDS Integers, FiniteSets

CONSTANTS
    Questions,      \* a user, a room, the user's membership of it, the rest of the list
    NoAnswer

VARIABLES ask, answer

\* user: role, active, branch (the branch membership: role, active), profile (a teacher
\* has one), portal; room: kind, branch, class (belongs to one), poster (the user is on
\* the branch's list), allowAll; ties: classTeacher, ownSubject, roles (class roles),
\* sameClass; member; others: kinds of the user's other rooms.
mayVars == <<ask, answer>>

Announcements == {"school_announcement", "teacher_announcement"}
StaffRoles == {"teacher", "management", "branch_admin", "sub_admin", "super_admin", "staff"}
BranchAdminRoles == {"branch_admin", "sub_admin", "management"}

-----------------------------------------------------------------------------
(* resolveTeacherPermissions                                               *)

\* portal: access FULL, READ_ONLY or FROZEN; the levels of a section's entry, of its
\* reading and of its writing; branchDefault: what an inherited write falls back to.

\* Mutant: an explicit allow writes in a read-only portal.
ResolveLevelIgnoresReadOnly(level, default, write, readOnly) ==
    level # "deny" /\ (level = "allow" \/ (default /\ ~(write /\ readOnly)))

ResolveLevel(level, default, write, readOnly) ==
    level # "deny" /\ ~(write /\ readOnly) /\ (level = "allow" \/ default)
ParentAllowed(portal) == portal.access # "FROZEN" /\ portal.entry # "deny"
CanView(portal) == ParentAllowed(portal) /\ ResolveLevel(portal.view, TRUE, FALSE, FALSE)
CanWrite(portal) ==
    /\ ParentAllowed(portal) /\ CanView(portal)
    /\ ResolveLevel(portal.write, portal.branchDefault, TRUE, portal.access = "READ_ONLY")

-----------------------------------------------------------------------------
(* The gate of the teacher's app                                           *)

HasAppGate(u) == u.role = "teacher" /\ u.active /\ u.profile
\* loadTeacherAppChatPermissions, appChatAllowsPost: kinds without a switch follow the app.
AppAllows(u, kind) ==
    IF kind \in Announcements \cup {"class_announcement", "group_chat", "direct_message"}
    THEN CanWrite(u.portal) ELSE CanView(u.portal)
AppGate(u, r) == r.branch /\ HasAppGate(u) => AppAllows(u, r.kind)

\* The batch loads the profile only for a list with one of these kinds.
ListLoadsProfile(q) ==
    ({q.room.kind} \cup q.others)
        \cap (Announcements \cup {"group_chat", "direct_message"}) # {}
ListedAppGate(q) == ListLoadsProfile(q) => AppGate(q.user, q.room)

-----------------------------------------------------------------------------
(* Branch administration, posters, class teachers, class roles             *)

IsBranchChatAdmin(u) ==
    /\ u.active /\ u.branch.active
    /\ u.role = "super_admin" \/ (u.role = "management" /\ u.branch.role \in BranchAdminRoles)

CanPostSchoolAnnouncement(u, r) == IsBranchChatAdmin(u) \/ r.poster
CanPostTeacherAnnouncement(u, r) ==
    \/ IsBranchChatAdmin(u) \/ r.poster
    \/ r.allowAll /\ u.branch.active /\ u.branch.role = "teacher"
CanPostClassAnnouncement(u, r, ties) ==
    (r.branch /\ IsBranchChatAdmin(u)) \/ (r.class /\ ties.classTeacher)

\* A class role lets its holder write unless it is restricted.
RolePosts(ties) == \E a \in ties.roles : ~a.restricted /\ a.posts
CanPostGroupChat(u, r, ties) ==
    \/ r.branch /\ IsBranchChatAdmin(u)
    \/ ties.ownSubject
    \/ RolePosts(ties)

\* getStudentDmFlags: over the roles that are not restricted.
Unrestricted(ties) == {a \in ties.roles : ~a.restricted}
CanInitiate(ties) == \E a \in Unrestricted(ties) : a.initiates
CanReceive(ties) == \E a \in Unrestricted(ties) : a.receives
IsMessagingRestricted(ties) == ties.roles # {} /\ Unrestricted(ties) = {}

CanUserSendInDirectMessage(u, r, ties) ==
    /\ u.active
    /\ \/ u.role \in StaffRoles /\ AppGate(u, [r EXCEPT !.kind = "direct_message"])
       \/ u.role = "student" /\ (CanInitiate(ties) \/ CanReceive(ties))

-----------------------------------------------------------------------------
(* The two decisions                                                       *)

MayWriteAtAll(m) == m.canRead /\ ~m.muted /\ ~m.restricted
MemberMayPost(u, r, m) ==
    /\ m.canPost                    \* an observer without it and a member without it alike
    /\ r.onlyStaff => u.role \in StaffRoles

\* resolveCanPost
ResolveCanPost(q) ==
    LET u == q.user  r == q.room
    IN  /\ MayWriteAtAll(q.member)
        /\ CASE r.kind = "school_announcement" -> r.branch /\ CanPostSchoolAnnouncement(u, r) /\ AppGate(u, r)
             [] r.kind = "teacher_announcement" -> r.branch /\ CanPostTeacherAnnouncement(u, r) /\ AppGate(u, r)
             [] r.kind = "class_announcement" -> CanPostClassAnnouncement(u, r, q.ties) /\ AppGate(u, r)
             [] r.kind = "group_chat" -> CanPostGroupChat(u, r, q.ties) /\ AppGate(u, r)
             [] r.kind = "direct_message" -> CanUserSendInDirectMessage(u, r, q.ties) /\ AppGate(u, r)
             [] OTHER -> MemberMayPost(u, r, q.member)

\* Mutant: the teacher of a subject room is looked up under its class.
ListedByClass(q) ==
    LET u == q.user  r == q.room
    IN  /\ MayWriteAtAll(q.member)
        /\ IF r.kind = "group_chat"
           THEN ((r.branch /\ IsBranchChatAdmin(u)) \/ RolePosts(q.ties)) /\ ListedAppGate(q)
           ELSE ResolveCanPost(q)

\* computeCanPostFromContext
Listed(q) ==
    LET u == q.user  r == q.room
    IN  /\ MayWriteAtAll(q.member)
        /\ CASE r.kind = "school_announcement" ->
                    r.branch /\ CanPostSchoolAnnouncement(u, r) /\ ListedAppGate(q)
             [] r.kind = "teacher_announcement" ->
                    r.branch /\ CanPostTeacherAnnouncement(u, r) /\ ListedAppGate(q)
             [] r.kind = "class_announcement" -> CanPostClassAnnouncement(u, r, q.ties) /\ ListedAppGate(q)
             [] r.kind = "group_chat" -> CanPostGroupChat(u, r, q.ties) /\ ListedAppGate(q)
             [] r.kind = "direct_message" ->
                    u.active /\ (u.role \in StaffRoles \cup {"student"}) /\ ListedAppGate(q)
             [] OTHER -> MemberMayPost(u, r, q.member)

-----------------------------------------------------------------------------
(* assertCanCreateDirectMessage: the asking user opens a conversation.      *)

MayMessageStaff(ties, other) ==         \* a student: administrators, own teachers
    (other.branch.active /\ other.branch.role \in BranchAdminRoles) \/ ties.sameClass
MayMessageStudent(u, ties) == IsBranchChatAdmin(u) \/ ties.sameClass
MayMessageParent(u, ties) == IF u.role = "teacher" THEN ties.sameClass ELSE IsBranchChatAdmin(u)
IsBranchStaff(other) == other.branch.active /\ other.branch.role \in BranchAdminRoles \cup {"teacher"}

\* Mutant: a student need not be able to receive.
MayOpenUnasked(q) ==
    LET u == q.user  other == q.other
    IN  /\ u.active /\ other.active
        /\ CanUserSendInDirectMessage(u, q.room, q.ties)
        /\ other.role = "student" => MayMessageStudent(u, q.ties)

MayOpen(q) ==
    LET u == q.user  other == q.other
    IN  /\ u.active /\ other.active
        /\ \/ /\ u.role = "student"
              /\ ~IsMessagingRestricted(q.ties) /\ CanInitiate(q.ties)
              /\ other.role \in StaffRoles /\ MayMessageStaff(q.ties, other)
           \/ /\ u.role \in StaffRoles
              /\ CanUserSendInDirectMessage(u, q.room, q.ties)
              /\ \/ /\ other.role = "student" /\ MayMessageStudent(u, q.ties)
                    /\ ~IsMessagingRestricted(q.otherTies) /\ CanReceive(q.otherTies)
                 \/ other.role = "parent" /\ MayMessageParent(u, q.ties)
                 \/ other.role \in StaffRoles /\ IsBranchStaff(other)

-----------------------------------------------------------------------------

AskInit == ask \in Questions /\ answer = NoAnswer
Answer ==
    /\ answer = NoAnswer
    /\ answer' = [send |-> ResolveCanPost(ask), list |-> Listed(ask), open |-> MayOpen(ask)]
    /\ UNCHANGED ask
MaySpec == AskInit /\ [][Answer]_mayVars

AnswerTypeOK == answer = NoAnswer \/ answer \in [send : BOOLEAN, list : BOOLEAN, open : BOOLEAN]

\* The list never hides the right to write, and promises it in vain only to a student in
\* a direct conversation and to a teacher whose list holds nothing but class rooms.
ListTellsRight ==
    answer # NoAnswer =>
        /\ answer.send => answer.list
        /\ answer.list /\ ~answer.send =>
              \/ ask.room.kind = "direct_message" /\ ask.user.role = "student"
              \/ ask.room.kind = "class_announcement" /\ ~ListLoadsProfile(ask)

\* Whoever opens a direct conversation may write in it, and so may the student it is
\* opened with.
OpenerMayWrite ==
    answer # NoAnswer /\ answer.open =>
        /\ CanUserSendInDirectMessage(ask.user, ask.room, ask.ties)
        /\ ask.other.role = "student" =>
              CanUserSendInDirectMessage(ask.other, ask.room, ask.otherTies)

\* Nothing is written from a read-only portal and nothing seen in a frozen one.
PortalLimits ==
    LET p == ask.user.portal
    IN  /\ p.access = "READ_ONLY" => ~CanWrite(p)
        /\ p.access = "FROZEN" => ~CanView(p)
        /\ CanWrite(p) => CanView(p)

\* Permissions: the room list and the resolver of the right to write agree.
ListAgrees ==
    answer # NoAnswer => AnswerTypeOK /\ ListTellsRight /\ OpenerMayWrite /\ PortalLimits
=============================================================================
