-------------------------------- MODULE MCChat --------------------------------
(* Small instances of the chat's rooms, its notifications and its permission *)
(* resolver, beside the parts of the office (MCSchool), whose callers and    *)
(* scene variables they use.                                                 *)
EXTENDS Handlers, Notifications, ChatPermissions, TLC

CONSTANTS
    Visits,     \* scenes of the rooms
    U1, U2, U3, P1, P2, M1, M2, I1, I2, K1, K2, N1, N2, C1, C2, O1, O2, O3, W1, W2, W3

VARIABLES
    area,                                                   \* the part that a behaviour runs
    rooms, members, settings, defs, klass, held, thread, todo   \* ChatRooms

Chat == INSTANCE ChatRooms WITH
    Admins <- {O1}, Teachers <- {U1, U2, U3}, Students <- {O2, O3}, Roles <- {N1, N2},
    Scenes <- Visits, NoMember <- Nothing, Keep <- I1

-----------------------------------------------------------------------------
(* Chat rooms: one class of one student O2, where O3 may be or come to be   *)
(* the second, its teacher U1, the teacher U2                              *)
(* of its subject, an administrator O1, and a teacher U3 of another branch; *)
(* the class role N1 lets a student write, N2 does not.                     *)

Chats(one, two) ==
    [part |-> "rooms", calls |-> P1 :> one @@ P2 :> two, branchTeachers |-> {U1, U2}, classTeachers |-> {U1}, taught |-> {U2},
     pair |-> {U2, O2}, defs |-> [r \in {N1, N2} |-> [active |-> TRUE, posts |-> r = N1, initiates |-> r = N1, receives |-> TRUE]],
     klass |-> {O2}, held |-> [r \in {N1, N2} |-> [s \in {O2, O3} |-> "none"]], fails |-> FALSE]
Lands(h, u) == [h |-> h, who |-> u]
Opens(u, k) == [h |-> "open", who |-> u, room |-> k]
Writes(u) == [h |-> "dm", who |-> u]
Landings == {Lands("student", O2), Lands("teacher", U1), Lands("teacher", U2), Lands("staff", O1)}
Edits == {[h |-> "update", role |-> N1, posts |-> b, who |-> O2] : b \in BOOLEAN}
    \cup {[h |-> "delete", role |-> N1, who |-> O2], [h |-> "remove", role |-> N1, who |-> O2]}
    \cup {[h |-> "assign", role |-> r, who |-> O2, as |-> x] : r \in {N1, N2}, x \in {"held", "restricted"}}
Assigns(s) == [h |-> "assign", role |-> N2, who |-> s, as |-> "held"]
Doors == {Opens(u, k) : u \in {O1, U1, U2, U3, O2},
              k \in {<<"school">>, <<"teachers">>, <<"class">>, <<"subject">>, <<"own", O2>>, <<"own", U1>>}}
Appoints == {[h |-> "settings", who |-> O1, school |-> x, teachers |-> y, all |-> FALSE] : x \in {{}, {U1}}, y \in {{}, {U2}, {U3}}}
Enrols == [h |-> "enrol", who |-> O3]
HoldsRole(sc) == [sc EXCEPT !.held[N1][O2] = "held"]
AllVisits ==
    \* two portals land at once, and statements fail
    {[Chats(<<x>>, <<y>>) EXCEPT !.fails = f] : x \in Landings, y \in Landings, f \in BOOLEAN}
    \* roles are edited by one hand while the student lands
    \cup {HoldsRole(Chats(<<Lands("student", O2), x, y>>, <<>>)) : x \in Edits, y \in Edits}
    \cup {HoldsRole(Chats(<<Lands("student", O2), x>>, <<Lands("student", O2)>>)) : x \in Edits}
    \* in a class of two, or one that grows, where a sync is refused
    \cup {[HoldsRole(Chats(<<Lands("student", O2), x>>, <<Lands("student", O3)>>)) EXCEPT !.klass = {O2, O3}] : x \in Edits}
    \cup {HoldsRole(Chats(<<Lands("student", O2), Assigns(O3)>>, <<Enrols, x>>)) : x \in Edits}
    \* both sides open the conversation
    \cup {[HoldsRole(Chats(<<Writes(u), Writes(v)>>, <<Writes(O2)>>)) EXCEPT !.fails = f] :
             u \in {U2, O2}, v \in {U2, O2}, f \in BOOLEAN}
    \* rooms are opened by everyone, posters appointed
    \cup {Chats(<<Lands("staff", O1)>>, <<x>>) : x \in Doors}
    \cup {Chats(<<Lands("staff", O1), x, y>>, <<>>) : x \in Appoints, y \in Doors}
    \cup {Chats(<<Lands("student", O2), Lands("teacher", U1), x>>, <<>>) : x \in Doors}

-----------------------------------------------------------------------------
(* Notifications: two queued events and a direct one, each with two texts.  *)

Told == [event : {K1, K2, N1}, content : {W1, W2}]
AllPosts ==
    {[calls |-> c, maxCalls |-> 3, maxFaults |-> f, flush |-> f > 0] :
        f \in 0..2, c \in {x \in SUBSET Told : Cardinality(x) \in 1..2}}

\* The same, with nothing that fails: an event is reported again with another text.
Reported == {[calls |-> Told, maxCalls |-> 2, maxFaults |-> 0, flush |-> FALSE]}

-----------------------------------------------------------------------------
(* Chat permissions: a question to the resolver.                            *)

Rights == {"allow", "deny", "inherit"}
OpenPortal == [access |-> "FULL", entry |-> "allow", view |-> "inherit", write |-> "inherit", branchDefault |-> TRUE]
AnyUser == [role : {"super_admin", "management", "teacher", "student", "parent"}, active : BOOLEAN,
            branch : [role : {"branch_admin", "teacher"}, active : BOOLEAN], profile : {TRUE}, portal : {OpenPortal}]
ATeacher ==
    [role : {"teacher"}, active : {TRUE}, branch : {[role |-> "teacher", active |-> TRUE]}, profile : BOOLEAN,
     portal : [access : {"FULL", "READ_ONLY", "FROZEN"}, entry : {"allow", "deny"},
               view : {"inherit", "deny"}, write : Rights, branchDefault : {TRUE}]]
Ties(roles) == [classTeacher : BOOLEAN, ownSubject : BOOLEAN, sameClass : {TRUE}, roles : roles]
NoTies == [classTeacher |-> FALSE, ownSubject |-> FALSE, sameClass |-> TRUE, roles |-> {}]
ARoom(kind) == [kind |-> kind, branch |-> TRUE, class |-> TRUE, poster |-> FALSE, allowAll |-> FALSE, onlyStaff |-> FALSE]
AMember == [canRead |-> TRUE, muted |-> FALSE, restricted |-> FALSE, canPost |-> TRUE]
Kinds == {"school_announcement", "teacher_announcement", "class_announcement", "group_chat", "direct_message", "system_result"}
ClassRole(i, r) == [restricted |-> FALSE, posts |-> FALSE, initiates |-> i, receives |-> r]
Question(u, r, t, m, o) ==
    [user |-> u, room |-> r, ties |-> t, member |-> m, others |-> o,
     other |-> [role |-> "student", active |-> TRUE, branch |-> [role |-> "teacher", active |-> FALSE],
                profile |-> FALSE, portal |-> OpenPortal],
     otherTies |-> NoTies]
AllQuestions ==
    \* every user in every kind of room
    {Question(u, [ARoom(k) EXCEPT !.poster = po], t, AMember, {}) :
        u \in AnyUser, k \in Kinds, po \in BOOLEAN, t \in Ties({{}, {ClassRole(FALSE, TRUE)}})}
    \* every portal of a teacher, in long and short lists
    \cup {Question(u, ARoom(k), [NoTies EXCEPT !.classTeacher = TRUE, !.ownSubject = TRUE], AMember, o) :
             u \in ATeacher, k \in Kinds, o \in {{}, {"group_chat"}}}
    \* every membership, rooms for staff only
    \cup {Question(u, [ARoom(k) EXCEPT !.onlyStaff = TRUE], NoTies,
                   [canRead |-> r, muted |-> mu, restricted |-> re, canPost |-> TRUE], {}) :
             u \in {x \in AnyUser : x.branch.active}, k \in Kinds, r \in BOOLEAN, mu \in BOOLEAN, re \in BOOLEAN}
    \* direct conversations under every class role, with everyone
    \cup {[Question(u, ARoom("direct_message"), [NoTies EXCEPT !.roles = ro, !.sameClass = s], AMember, {})
              EXCEPT !.other = v, !.otherTies = [NoTies EXCEPT !.roles = so]] :
             u \in {x \in AnyUser : x.active /\ x.branch.active}, v \in {x \in AnyUser : x.branch.active}, s \in BOOLEAN,
             ro \in {{}, {ClassRole(TRUE, FALSE)}}, so \in {{}, {ClassRole(FALSE, TRUE)}}}

-----------------------------------------------------------------------------

\* A lone student is restricted, the class grows, and his role is changed to let him write.
GrowingClass == {Chats(<<Lands("student", O2), Assigns(O2), Enrols, [Assigns(O2) EXCEPT !.role = N1]>>, <<>>)}
NoScenes == {}
chatVars == <<rooms, members, settings, defs, klass, held, thread, todo>>
NoChat == rooms = Nothing /\ members = Nothing /\ settings = Nothing /\ defs = Nothing
            /\ klass = Nothing /\ held = Nothing /\ thread = Nothing /\ todo = Nothing
NoNews == post = Nothing /\ NothingTold
NoQuestion == ask = Nothing /\ answer = NoAnswer
NoCalls == scene = Nothing /\ calls = Nothing /\ pc = Nothing /\ loc = Nothing
ChatInit ==
    /\ db = Nothing
    /\ \/ area = "rooms" /\ Chat!Init /\ NoNews /\ NoQuestion
       \/ area = "news" /\ NewsInit /\ NoChat /\ NoQuestion /\ NoCalls
       \/ area = "may" /\ AskInit /\ NoChat /\ NoNews /\ NoCalls
ChatNext ==
    \/ area = "rooms" /\ Chat!Next /\ UNCHANGED <<area, db, newsVars, mayVars>>
    \/ area = "news" /\ NewsNext /\ UNCHANGED <<area, handlerVars, chatVars, mayVars>>
    \/ area = "may" /\ Answer /\ UNCHANGED <<area, handlerVars, chatVars, newsVars>>

\* Rooms: in a class nobody has joined, syncs leave no restriction on a student whose class
\* role lets him write; only a refused sync or a lost race fails a handler; callers who open
\* a conversation at once end with one room, and only someone tied to a room becomes its member.
RoomsSound ==
    /\ [](area = "rooms" => Chat!TypeOK /\ Chat!NeverWronglySilenced
                                 /\ Chat!FailuresAreEarned /\ Chat!DmConverges)
    /\ [][area = "rooms" => Chat!OnlyTheTied]_<<handlerVars, chatVars>>

\* Class roles: the members of the subject rooms follow every change of roles, whoever is
\* in the class.
RolesFollowed == area = "rooms" => Chat!RestrictionsFollowRoles
=============================================================================
