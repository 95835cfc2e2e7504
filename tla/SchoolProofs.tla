----------------------------- MODULE SchoolProofs -----------------------------
(***************************************************************************)
(* Proofs about the chat's gates and notices and about the office, one part *)
(* after the other: ChatPermissions and Notifications, then what holds of   *)
(* the handlers of all parts of the office, then Credentials, Admissions,   *)
(* BranchStaff and Payroll.  Each part is proved on its own, for any values *)
(* of its constants; they share a module because they share those lemmas.   *)
(***************************************************************************)
EXTENDS ChatPermissions, Notifications, Credentials, Admissions, BranchStaff, Payroll, SumTheorems, FiniteSetTheorems,
        TLAPS

-----------------------------------------------------------------------------
(* ChatPermissions, for any users, rooms, memberships and lists.           *)

\* What the gate of the app allows for the list it allows for the send, and the other way
\* round unless the list loads no profile.
LEMMA GateFacts ==
    ASSUME NEW q
    PROVE  /\ AppGate(q.user, q.room) => ListedAppGate(q)
           /\ ListLoadsProfile(q) /\ ListedAppGate(q) => AppGate(q.user, q.room)
BY DEF ListedAppGate

\* A list with a room of one of these kinds loads it.
LEMMA ListLoads ==
    ASSUME NEW q, q.room.kind \in Announcements \cup {"group_chat", "direct_message"}
    PROVE  ListLoadsProfile(q)
BY DEF ListLoadsProfile

LEMMA SendIsListed == ASSUME NEW q, ResolveCanPost(q) PROVE Listed(q)
<1> DEFINE kind == q.room.kind
<1>1. CASE kind = "school_announcement"
  BY <1>1, GateFacts DEF ResolveCanPost, Listed
<1>2. CASE kind = "teacher_announcement"
  BY <1>2, GateFacts DEF ResolveCanPost, Listed
<1>3. CASE kind = "class_announcement"
  BY <1>3, GateFacts DEF ResolveCanPost, Listed
<1>4. CASE kind = "group_chat"
  BY <1>4, GateFacts DEF ResolveCanPost, Listed
<1>5. CASE kind = "direct_message"
  BY <1>5, GateFacts DEF ResolveCanPost, Listed, CanUserSendInDirectMessage
<1>6. CASE kind \notin {"school_announcement", "teacher_announcement", "class_announcement", "group_chat", "direct_message"}
  BY <1>6 DEF ResolveCanPost, Listed
<1> QED
  BY <1>1, <1>2, <1>3, <1>4, <1>5, <1>6

LEMMA ListedIsSent ==
    ASSUME NEW q, Listed(q), ~ResolveCanPost(q)
    PROVE  \/ q.room.kind = "direct_message" /\ q.user.role = "student"
           \/ q.room.kind = "class_announcement" /\ ~ListLoadsProfile(q)
<1> DEFINE kind == q.room.kind
<1>1. CASE kind = "school_announcement"
  BY <1>1, GateFacts, ListLoads DEF ResolveCanPost, Listed, Announcements
<1>2. CASE kind = "teacher_announcement"
  BY <1>2, GateFacts, ListLoads DEF ResolveCanPost, Listed, Announcements
<1>3. CASE kind = "class_announcement"
  BY <1>3, GateFacts DEF ResolveCanPost, Listed
<1>4. CASE kind = "group_chat"
  BY <1>4, GateFacts, ListLoads DEF ResolveCanPost, Listed, Announcements
<1>5. CASE kind = "direct_message"
  <2>1. SUFFICES ASSUME q.user.role # "student" PROVE FALSE
    BY <1>5
  <2>2. AppGate(q.user, q.room)
    BY <1>5, GateFacts, ListLoads DEF Listed
  <2>3. AppGate(q.user, [q.room EXCEPT !.kind = "direct_message"])
    BY <1>5, <2>2 DEF AppGate, AppAllows
  <2>4. CanUserSendInDirectMessage(q.user, q.room, q.ties)
    BY <1>5, <2>1, <2>3 DEF Listed, CanUserSendInDirectMessage
  <2> QED
    BY <1>5, <2>2, <2>4 DEF ResolveCanPost, Listed
<1>6. CASE kind \notin {"school_announcement", "teacher_announcement", "class_announcement", "group_chat", "direct_message"}
  BY <1>6 DEF ResolveCanPost, Listed
<1> QED
  BY <1>1, <1>2, <1>3, <1>4, <1>5, <1>6

LEMMA OpenersWrite ==
    ASSUME NEW q, MayOpen(q)
    PROVE  /\ CanUserSendInDirectMessage(q.user, q.room, q.ties)
           /\ q.other.role = "student" => CanUserSendInDirectMessage(q.other, q.room, q.otherTies)
BY DEF MayOpen, CanUserSendInDirectMessage, StaffRoles

LEMMA PortalsLimit ==
    ASSUME NEW p
    PROVE  /\ p.access = "READ_ONLY" => ~CanWrite(p)
           /\ p.access = "FROZEN" => ~CanView(p)
           /\ CanWrite(p) => CanView(p)
BY DEF CanWrite, CanView, ParentAllowed, ResolveLevel

LEMMA AnswersAreFormulas ==
    ASSUME NEW q
    PROVE  ResolveCanPost(q) \in BOOLEAN /\ Listed(q) \in BOOLEAN /\ MayOpen(q) \in BOOLEAN
<1>1. ResolveCanPost(q) \in BOOLEAN
  BY DEF ResolveCanPost
<1>2. Listed(q) \in BOOLEAN
  BY DEF Listed
<1>3. MayOpen(q) \in BOOLEAN
  BY DEF MayOpen
<1> QED
  BY <1>1, <1>2, <1>3

\* A question has the answers of the resolver, of the list and of the door.
Answered ==
    answer = NoAnswer \/ answer = [send |-> ResolveCanPost(ask), list |-> Listed(ask), open |-> MayOpen(ask)]

\* The right to write, the room list and the door of a direct conversation agree for
\* every user, room, membership and list (resolveCanPost, computeCanPostFromContext,
\* assertCanCreateDirectMessage).
THEOREM PermissionsAgree == MaySpec => []ListAgrees
<1>1. AskInit => Answered
  BY DEF AskInit, Answered
<1>2. Answered /\ [Answer]_mayVars => Answered'
  BY DEF Answered, Answer, mayVars
<1>3. Answered => ListAgrees
  <2> SUFFICES ASSUME answer = [send |-> ResolveCanPost(ask), list |-> Listed(ask), open |-> MayOpen(ask)]
               PROVE  AnswerTypeOK /\ ListTellsRight /\ OpenerMayWrite /\ PortalLimits
    BY DEF Answered, ListAgrees
  <2>1. AnswerTypeOK
    BY AnswersAreFormulas DEF AnswerTypeOK
  <2>2. ListTellsRight
    BY SendIsListed, ListedIsSent DEF ListTellsRight
  <2>3. OpenerMayWrite
    BY OpenersWrite DEF OpenerMayWrite
  <2>4. PortalLimits
    BY PortalsLimit DEF PortalLimits
  <2> QED
    BY <2>1, <2>2, <2>3, <2>4
<1> QED
  BY <1>1, <1>2, <1>3, PTL DEF MaySpec

-----------------------------------------------------------------------------
(* Notifications, for any queues, contents, notifiers and posts.           *)

Events == Queued \cup Immediate
Errands == [event : Events, content : Contents, rows : Seq(Queued), mine : Nat]
RowOf(e) == outbox[e] # NoRow

\* A delivery under way: the rows it is about exist, and past the insertion its message
\* stands in the feed.
OnErrand(p) ==
    newsPc[p] # "idle" =>
        /\ newsLoc[p] \in Errands
        /\ newsLoc[p].event \in Queued => RowOf(newsLoc[p].event)
        /\ \A i \in DOMAIN newsLoc[p].rows : RowOf(newsLoc[p].rows[i])
        /\ newsPc[p] \in {"row", "mark"} => newsLoc[p].event \in Queued
        /\ newsPc[p] = "mark" => InFeed(Mine(p))
        /\ newsPc[p] = "touch" => newsLoc[p].mine \in DOMAIN feed /\ feed[newsLoc[p].mine] = Mine(p)
NewsTyped ==
    /\ NewsTypeOK
    /\ post \in Posts /\ newsFaults \in Nat
    /\ newsPc \in [Notifiers -> {"idle", "row", "insert", "touch", "mark"}]
    /\ newsLoc \in [Notifiers -> Errands \cup {NoErrand}]
    /\ \A p \in Notifiers : OnErrand(p)
FeedTells ==
    /\ IsInjective(feed)
    /\ \A e \in Queued : RowOf(e) /\ outbox[e].sent => InFeed(Message(e, outbox[e].content))
\* While nothing has failed, somebody is at work for every row not yet sent and for every
\* message not yet shown.
SomebodyAtWork ==
    newsFaults = 0 =>
        /\ \A e \in Unsent : \E p \in Notifiers : newsPc[p] # "idle" /\ newsLoc[p].event = e
        /\ \A i \in DOMAIN feed \ shown : \E p \in Notifiers : newsPc[p] = "touch" /\ newsLoc[p].mine = i
NewsInv == NewsTyped /\ FeedTells /\ SomebodyAtWork

\* What no step takes back: rows with their texts, messages, and failures.
Grows ==
    /\ \A e \in Queued : RowOf(e) => RowOf(e)' /\ outbox'[e].content = outbox[e].content
    /\ \A i \in DOMAIN feed : i \in DOMAIN feed' /\ feed'[i] = feed[i]
    /\ newsFaults' \in Nat /\ (newsFaults' = 0 => newsFaults = 0)

LEMMA InvHolds == NewsInv => SentIsTold
<1> SUFFICES ASSUME NewsInv PROVE SentStands
  BY DEF SentIsTold, NewsInv, NewsTyped
<1>1. Resting /\ newsFaults = 0 => Unsent = {} /\ shown = DOMAIN feed
  BY DEF NewsInv, SomebodyAtWork, Resting, NewsTyped, NewsTypeOK
<1> QED
  BY <1>1 DEF SentStands, NewsInv, FeedTells, RowOf

LEMMA NewsStarts == NewsInit => NewsInv
<1> SUFFICES ASSUME NewsInit PROVE NewsInv
  OBVIOUS
<1> USE DEF NewsInit, NothingTold
<1>1. NewsTyped
  BY DEF NewsTyped, NewsTypeOK, OnErrand
<1>2. FeedTells
  BY DEF FeedTells, RowOf, IsInjective
<1>3. SomebodyAtWork
  BY DEF SomebodyAtWork, Unsent
<1> QED
  BY <1>1, <1>2, <1>3 DEF NewsInv

-----------------------------------------------------------------------------
\* A delivery that a step leaves alone is where it was.
LEMMA OthersGoOn ==
    ASSUME NewsTyped, Grows, NEW q \in Notifiers, newsPc'[q] = newsPc[q], newsLoc'[q] = newsLoc[q]
    PROVE  OnErrand(q)'
<1> SUFFICES ASSUME newsPc[q] # "idle"
             PROVE  OnErrand(q)'
  BY DEF OnErrand
<1>1. OnErrand(q) /\ newsLoc[q] \in Errands
  BY DEF NewsTyped, OnErrand
<1>2. /\ newsLoc[q].event \in Queued => RowOf(newsLoc[q].event)'
      /\ \A i \in DOMAIN newsLoc[q].rows : RowOf(newsLoc[q].rows[i])'
  <2> USE DEF Errands
  <2>1. newsLoc[q].rows \in Seq(Queued) /\ \A i \in DOMAIN newsLoc[q].rows : newsLoc[q].rows[i] \in Queued
    BY <1>1
  <2> QED
    BY <1>1, <2>1 DEF OnErrand, Grows
<1>3. newsLoc[q].event \in Queued => outbox'[newsLoc[q].event].content = outbox[newsLoc[q].event].content
  BY <1>1 DEF OnErrand, Grows
<1>4. Mine(q)' = Mine(q)
  BY <1>3 DEF Mine, RowContent
<1>5. InFeed(Mine(q)) => InFeed(Mine(q))'
  BY <1>4 DEF InFeed, Grows
<1>6. newsPc[q] = "touch" => newsLoc[q].mine \in DOMAIN feed' /\ feed'[newsLoc[q].mine] = Mine(q)'
  BY <1>1, <1>4 DEF OnErrand, Grows
<1> QED
  BY <1>1, <1>2, <1>5, <1>6 DEF OnErrand

\* A delivery that is done goes to the next row of its flush or rests.
LEMMA DoneMovesOn ==
    ASSUME NewsTyped, Grows, NEW p \in Notifiers, newsPc[p] # "idle", NEW well, NewsDone(p, well)
    PROVE  /\ OnErrand(p)'
           /\ newsPc' \in [Notifiers -> {"idle", "row", "insert", "touch", "mark"}]
           /\ newsLoc' \in [Notifiers -> Errands \cup {NoErrand}]
           /\ post' \in Posts
           /\ \A q \in Notifiers \ {p} : newsPc'[q] = newsPc[q] /\ newsLoc'[q] = newsLoc[q]
<1>1. /\ newsLoc[p] \in Errands /\ newsLoc[p].rows \in Seq(Queued)
      /\ \A i \in DOMAIN newsLoc[p].rows : RowOf(newsLoc[p].rows[i])
  BY DEF NewsTyped, OnErrand, Errands
<1>2. CASE newsLoc[p].rows = <<>>
  BY <1>1, <1>2 DEF NewsDone, NewsGoto, NewsTyped, OnErrand
<1>3. CASE newsLoc[p].rows # <<>>
  <2> DEFINE next == [newsLoc[p] EXCEPT !.event = Head(newsLoc[p].rows), !.rows = Tail(newsLoc[p].rows)]
  <2>1. NewsGoto(p, "row", next)
    BY <1>3 DEF NewsDone
  <2>2. /\ Head(newsLoc[p].rows) \in Queued /\ Tail(newsLoc[p].rows) \in Seq(Queued)
        /\ RowOf(Head(newsLoc[p].rows))
        /\ \A i \in DOMAIN Tail(newsLoc[p].rows) : RowOf(Tail(newsLoc[p].rows)[i])
    BY <1>1, <1>3
  <2>3. next \in Errands
    BY <1>1, <2>2 DEF Errands, Events
  <2>4. next.event = Head(newsLoc[p].rows) /\ next.rows = Tail(newsLoc[p].rows)
    BY <1>1 DEF Errands
  <2> HIDE DEF next
  <2>5. newsPc'[p] = "row" /\ newsLoc'[p] = next
    BY <2>1 DEF NewsGoto, NewsTyped
  <2>6. outbox'[next.event] # NoRow /\ \A i \in DOMAIN next.rows : outbox'[next.rows[i]] # NoRow
    <3>1. \A i \in DOMAIN next.rows : next.rows[i] \in Queued
      BY <2>2, <2>4
    <3> QED
      BY <2>2, <2>4, <3>1 DEF Grows, RowOf
  <2>7. OnErrand(p)'
    BY <2>2, <2>3, <2>4, <2>5, <2>6 DEF OnErrand, RowOf
  <2> QED
    BY <2>1, <2>3, <2>7 DEF NewsGoto, NewsTyped
<1> QED
  BY <1>2, <1>3

\* One delivery goes on and the rest is kept.
LEMMA OneGoesOn ==
    ASSUME NewsTyped, Grows, NewsTypeOK', NEW p \in Notifiers, NEW label, NEW l \in Errands,
           label \in {"row", "insert", "touch", "mark"}, NewsGoto(p, label, l),
           newsPc'[p] = label /\ newsLoc'[p] = l => OnErrand(p)'
    PROVE  /\ NewsTyped'
           /\ newsPc'[p] = label /\ newsLoc'[p] = l
           /\ \A q \in Notifiers \ {p} : newsPc'[q] = newsPc[q] /\ newsLoc'[q] = newsLoc[q]
<1>1. /\ newsPc'[p] = label /\ newsLoc'[p] = l
      /\ \A q \in Notifiers \ {p} : newsPc'[q] = newsPc[q] /\ newsLoc'[q] = newsLoc[q]
      /\ newsPc' \in [Notifiers -> {"idle", "row", "insert", "touch", "mark"}]
      /\ newsLoc' \in [Notifiers -> Errands \cup {NoErrand}]
      /\ post' \in Posts
  BY DEF NewsGoto, NewsTyped
<1>2. \A q \in Notifiers : OnErrand(q)'
  BY <1>1, OthersGoOn
<1> QED
  BY <1>1, <1>2 DEF NewsTyped, Grows

-----------------------------------------------------------------------------
\* The parts of the invariant that do not follow from the types alone.

\* Nothing in the feed or among the sent rows changes.
LEMMA TellsStill ==
    ASSUME NewsTyped, FeedTells, feed' = feed, outbox' = outbox
    PROVE  FeedTells'
BY DEF FeedTells, RowOf, InFeed, Message, IsInjective

\* Whoever was at work still is, but for p, whose row is sent or is still its own.
LEMMA WorkersStay ==
    ASSUME NewsTyped, SomebodyAtWork, NEW p \in Notifiers,
           newsFaults' = 0 => newsFaults = 0,
           \A q \in Notifiers \ {p} : newsPc'[q] = newsPc[q] /\ newsLoc'[q] = newsLoc[q],
           newsFaults' = 0 => \A e \in Unsent' :
               \/ e \in Unsent /\ (newsPc[p] # "idle" => newsLoc[p].event # e)
               \/ newsPc'[p] # "idle" /\ newsLoc'[p].event = e,
           newsFaults' = 0 => \A i \in DOMAIN feed' \ shown' :
               \/ newsPc'[p] = "touch" /\ newsLoc'[p].mine = i
               \/ i \in DOMAIN feed \ shown /\ (newsPc[p] = "touch" => newsLoc[p].mine # i)
    PROVE  SomebodyAtWork'
<1> SUFFICES ASSUME newsFaults' = 0
             PROVE  /\ \A e \in Unsent' : \E q \in Notifiers : newsPc'[q] # "idle" /\ newsLoc'[q].event = e
                    /\ \A i \in DOMAIN feed' \ shown' : \E q \in Notifiers : newsPc'[q] = "touch" /\ newsLoc'[q].mine = i
  BY DEF SomebodyAtWork
<1>1. ASSUME NEW e \in Unsent'
      PROVE  \E q \in Notifiers : newsPc'[q] # "idle" /\ newsLoc'[q].event = e
  <2>1. CASE newsPc'[p] # "idle" /\ newsLoc'[p].event = e
    BY <2>1
  <2>2. CASE e \in Unsent /\ (newsPc[p] # "idle" => newsLoc[p].event # e)
    <3>1. PICK q \in Notifiers : newsPc[q] # "idle" /\ newsLoc[q].event = e
      BY <2>2 DEF SomebodyAtWork
    <3>2. q # p
      BY <2>2, <3>1
    <3> QED
      BY <3>1, <3>2
  <2> QED
    BY <1>1, <2>1, <2>2
<1>2. ASSUME NEW i \in DOMAIN feed' \ shown'
      PROVE  \E q \in Notifiers : newsPc'[q] = "touch" /\ newsLoc'[q].mine = i
  <2>1. CASE newsPc'[p] = "touch" /\ newsLoc'[p].mine = i
    BY <2>1
  <2>2. CASE i \in DOMAIN feed \ shown /\ (newsPc[p] = "touch" => newsLoc[p].mine # i)
    <3>1. PICK q \in Notifiers : newsPc[q] = "touch" /\ newsLoc[q].mine = i
      BY <2>2 DEF SomebodyAtWork
    <3>2. q # p
      BY <2>2, <3>1
    <3> QED
      BY <3>1, <3>2
  <2> QED
    BY <1>2, <2>1, <2>2
<1> QED
  BY <1>1, <1>2

\* A delivery is typed, and a queued one has a row with a text.
LEMMA UnderWay ==
    ASSUME NewsTyped, NEW p \in Notifiers, newsPc[p] # "idle"
    PROVE  /\ newsLoc[p] \in Errands
           /\ newsLoc[p].event \in Events /\ newsLoc[p].content \in Contents /\ newsLoc[p].rows \in Seq(Queued)
           /\ newsLoc[p].event \in Queued => outbox[newsLoc[p].event] \in [content : Contents, sent : BOOLEAN]
           /\ Mine(p) \in [event : Events, content : Contents]
<1>1. /\ newsLoc[p] \in Errands
      /\ newsLoc[p].event \in Queued => outbox[newsLoc[p].event] \in [content : Contents, sent : BOOLEAN]
  BY DEF NewsTyped, OnErrand, RowOf, NewsTypeOK
<1>2. newsLoc[p].event \in Events /\ newsLoc[p].content \in Contents /\ newsLoc[p].rows \in Seq(Queued)
  BY <1>1 DEF Errands
<1>3. RowContent(p) \in Contents
  BY <1>1, <1>2 DEF RowContent
<1> QED
  BY <1>1, <1>2, <1>3 DEF Mine, Message

-----------------------------------------------------------------------------
LEMMA LooksAtRow == ASSUME NewsInv, NEW p \in Notifiers, LookAtRow(p) PROVE NewsInv'
<1> USE DEF NewsInv
<1>1. /\ newsPc[p] = "row" /\ UNCHANGED <<outbox, feed, shown, newsFaults>>
      /\ newsLoc[p] \in Errands /\ newsLoc[p].event \in Queued /\ RowOf(newsLoc[p].event)
  BY DEF LookAtRow, NoNewsFault, NewsTyped, OnErrand
<1>2. Grows /\ NewsTypeOK' /\ FeedTells' /\ newsFaults' \in Nat
  BY <1>1, TellsStill DEF Grows, NewsTyped, NewsTypeOK, RowOf
<1>3. CASE outbox[newsLoc[p].event].sent
  <2>1. NewsDone(p, TRUE)
    BY <1>3 DEF LookAtRow
  <2>2. NewsTyped'
    BY <1>1, <1>2, <2>1, DoneMovesOn, OthersGoOn DEF NewsTyped
  <2>3. SomebodyAtWork'
    BY <1>1, <1>3, <2>1, DoneMovesOn, <1>2, WorkersStay DEF Unsent
  <2> QED
    BY <1>2, <2>2, <2>3
<1>4. CASE ~outbox[newsLoc[p].event].sent
  <2> DEFINE label == IF InFeed(Mine(p)) THEN "mark" ELSE "insert"
  <2>1. NewsGoto(p, label, newsLoc[p])
    BY <1>4 DEF LookAtRow
  <2>2. ASSUME newsPc'[p] = label, newsLoc'[p] = newsLoc[p]
        PROVE  OnErrand(p)'
    <3>1. Mine(p)' = Mine(p)
      BY <1>1, <2>2 DEF Mine, RowContent
    <3> QED
      BY <1>1, <2>2, <3>1 DEF OnErrand, InFeed, RowOf, NewsTyped
  <2>3. /\ NewsTyped' /\ newsPc'[p] = label /\ newsLoc'[p] = newsLoc[p]
        /\ \A q \in Notifiers \ {p} : newsPc'[q] = newsPc[q] /\ newsLoc'[q] = newsLoc[q]
    BY <1>1, <1>2, <2>1, <2>2, OneGoesOn
  <2>4. SomebodyAtWork'
    BY <1>1, <2>3, WorkersStay DEF Unsent
  <2> QED
    BY <1>2, <2>3, <2>4
<1> QED
  BY <1>3, <1>4

LEMMA Touches == ASSUME NewsInv, NEW p \in Notifiers, Touch(p) PROVE NewsInv'
<1> USE DEF NewsInv
<1>1. /\ newsPc[p] = "touch" /\ UNCHANGED <<outbox, feed, newsFaults>> /\ shown' = shown \cup {newsLoc[p].mine}
      /\ newsLoc[p] \in Errands /\ newsLoc[p].mine \in DOMAIN feed /\ InFeed(Mine(p))
      /\ newsLoc[p].event \in Queued => RowOf(newsLoc[p].event)
  BY DEF Touch, NoNewsFault, NewsTyped, OnErrand, InFeed
<1>2. Grows /\ NewsTypeOK' /\ FeedTells' /\ newsFaults' \in Nat
  BY <1>1, TellsStill DEF Grows, NewsTyped, NewsTypeOK, RowOf
<1>3. CASE newsLoc[p].event \notin Queued
  <2>1. NewsDone(p, TRUE)
    BY <1>3 DEF Touch
  <2>2. NewsTyped'
    BY <1>1, <1>2, <2>1, DoneMovesOn, OthersGoOn DEF NewsTyped
  <2>3. \A e \in Unsent' : e \in Unsent /\ newsLoc[p].event # e
    BY <1>1, <1>3 DEF Unsent
  <2>4. SomebodyAtWork'
    BY <1>1, <2>1, <2>3, DoneMovesOn, <1>2, WorkersStay
  <2> QED
    BY <1>2, <2>2, <2>4
<1>4. CASE newsLoc[p].event \in Queued
  <2>1. NewsGoto(p, "mark", newsLoc[p])
    BY <1>4 DEF Touch
  <2>2. ASSUME newsPc'[p] = "mark", newsLoc'[p] = newsLoc[p]
        PROVE  OnErrand(p)'
    <3>1. Mine(p)' = Mine(p)
      BY <1>1, <2>2 DEF Mine, RowContent
    <3> QED
      BY <1>1, <1>4, <2>2, <3>1 DEF OnErrand, InFeed, RowOf, NewsTyped
  <2>3. /\ NewsTyped' /\ newsPc'[p] = "mark" /\ newsLoc'[p] = newsLoc[p]
        /\ \A q \in Notifiers \ {p} : newsPc'[q] = newsPc[q] /\ newsLoc'[q] = newsLoc[q]
    BY <1>1, <1>2, <2>1, <2>2, OneGoesOn
  <2>4. SomebodyAtWork'
    BY <1>1, <2>3, WorkersStay DEF Unsent
  <2> QED
    BY <1>2, <2>3, <2>4
<1> QED
  BY <1>3, <1>4

LEMMA Marks == ASSUME NewsInv, NEW p \in Notifiers, Mark(p) PROVE NewsInv'
<1> USE DEF NewsInv
<1> DEFINE e == newsLoc[p].event
<1>1. /\ newsPc[p] = "mark" /\ UNCHANGED <<feed, shown, newsFaults>> /\ NewsDone(p, TRUE)
      /\ outbox' = [outbox EXCEPT ![e].sent = TRUE]
      /\ e \in Queued /\ RowOf(e) /\ InFeed(Mine(p))
  BY DEF Mark, NoNewsFault, NewsTyped, OnErrand
<1>2. outbox[e] \in [content : Contents, sent : BOOLEAN] /\ outbox' = [outbox EXCEPT ![e] = [outbox[e] EXCEPT !.sent = TRUE]]
  BY <1>1, UnderWay
<1> DEFINE row == [outbox[e] EXCEPT !.sent = TRUE]
<1>9. row \in [content : Contents, sent : BOOLEAN] /\ row.content = outbox[e].content /\ row.sent
  BY <1>2
<1> HIDE DEF row
<1>3. /\ outbox'[e] \in [content : Contents, sent : BOOLEAN] /\ outbox'[e].content = outbox[e].content /\ outbox'[e].sent
      /\ \A f \in Queued \ {e} : outbox'[f] = outbox[f]
      /\ outbox' \in [Queued -> {NoRow} \cup [content : Contents, sent : BOOLEAN]]
  <2>1. outbox' = [outbox EXCEPT ![e] = row] /\ outbox \in [Queued -> {NoRow} \cup [content : Contents, sent : BOOLEAN]]
    BY <1>2 DEF NewsTyped, NewsTypeOK, row
  <2> QED
    BY <1>1, <1>9, <2>1
<1>4. Grows /\ NewsTypeOK' /\ newsFaults' \in Nat
  BY <1>1, <1>3, NotificationAssumption DEF Grows, NewsTyped, NewsTypeOK, RowOf
<1>5. FeedTells'
  <2>1. Mine(p) = Message(e, outbox[e].content)
    BY <1>1 DEF Mine, RowContent
  <2>2. ASSUME NEW f \in Queued, outbox'[f] # NoRow, outbox'[f].sent
        PROVE  InFeed(Message(f, outbox'[f].content))
    BY <1>1, <1>3, <2>1, <2>2 DEF FeedTells, RowOf
  <2> QED
    BY <1>1, <2>2 DEF FeedTells, RowOf, InFeed, Message, IsInjective
<1>6. NewsTyped'
  BY <1>1, <1>4, DoneMovesOn, OthersGoOn DEF NewsTyped
<1>7. \A f \in Unsent' : f \in Unsent /\ f # e
  BY <1>3 DEF Unsent
<1>8. SomebodyAtWork'
  BY <1>1, <1>4, <1>7, DoneMovesOn, WorkersStay
<1> QED
  BY <1>5, <1>6, <1>8

LEMMA Fails == ASSUME NewsInv, NEW p \in Notifiers, Fail(p) PROVE NewsInv'
<1> USE DEF NewsInv
<1>1. /\ newsPc[p] # "idle" /\ UNCHANGED <<outbox, feed, shown>> /\ newsFaults' = newsFaults + 1 /\ NewsDone(p, FALSE)
  BY DEF Fail
<1>2. Grows /\ NewsTypeOK' /\ FeedTells' /\ newsFaults' \in Nat /\ newsFaults' # 0
  BY <1>1, TellsStill DEF Grows, NewsTyped, NewsTypeOK, RowOf
<1>3. NewsTyped'
  BY <1>1, <1>2, DoneMovesOn, OthersGoOn DEF NewsTyped
<1> QED
  BY <1>2, <1>3 DEF SomebodyAtWork

\* A message is appended that was not there, or adopted.
LEMMA Inserts == ASSUME NewsInv, NEW p \in Notifiers, InsertMessage(p) PROVE NewsInv'
<1> USE DEF NewsInv
<1>1. /\ newsPc[p] = "insert" /\ UNCHANGED <<outbox, shown, newsFaults>>
      /\ newsLoc[p] \in Errands /\ Mine(p) \in [event : Events, content : Contents]
      /\ newsLoc[p].event \in Queued => RowOf(newsLoc[p].event)
      /\ \A i \in DOMAIN newsLoc[p].rows : RowOf(newsLoc[p].rows[i])
  BY UnderWay DEF InsertMessage, NoNewsFault, NewsTyped, OnErrand
<1>2. CASE InFeed(Mine(p))
  <2>1. feed' = feed
    BY <1>2 DEF InsertMessage
  <2>2. Grows /\ NewsTypeOK' /\ FeedTells' /\ newsFaults' \in Nat
    BY <1>1, <2>1, TellsStill DEF Grows, NewsTyped, NewsTypeOK, RowOf
  <2>3. CASE newsLoc[p].event \notin Queued
    <3>1. NewsDone(p, TRUE)
      BY <1>2, <2>3 DEF InsertMessage
    <3>2. NewsTyped'
      BY <1>1, <2>2, <3>1, DoneMovesOn, OthersGoOn DEF NewsTyped
    <3>3. \A e \in Unsent' : e \in Unsent /\ newsLoc[p].event # e
      BY <1>1, <2>3 DEF Unsent
    <3>4. SomebodyAtWork'
      BY <1>1, <2>1, <2>2, <3>1, <3>3, DoneMovesOn, WorkersStay
    <3> QED
      BY <2>2, <3>2, <3>4
  <2>4. CASE newsLoc[p].event \in Queued
    <3>1. NewsGoto(p, "mark", newsLoc[p])
      BY <1>2, <2>4 DEF InsertMessage
    <3>2. ASSUME newsPc'[p] = "mark", newsLoc'[p] = newsLoc[p]
          PROVE  OnErrand(p)'
      <4>1. Mine(p)' = Mine(p)
        BY <1>1, <3>2 DEF Mine, RowContent
      <4> QED
        BY <1>1, <1>2, <2>1, <2>4, <3>2, <4>1 DEF OnErrand, InFeed, RowOf
    <3>3. /\ NewsTyped' /\ newsPc'[p] = "mark" /\ newsLoc'[p] = newsLoc[p]
          /\ \A q \in Notifiers \ {p} : newsPc'[q] = newsPc[q] /\ newsLoc'[q] = newsLoc[q]
      BY <1>1, <2>2, <3>1, <3>2, OneGoesOn
    <3>4. SomebodyAtWork'
      BY <1>1, <2>1, <3>3, WorkersStay DEF Unsent
    <3> QED
      BY <2>2, <3>3, <3>4
  <2> QED
    BY <2>3, <2>4
<1>3. CASE ~InFeed(Mine(p))
  <2> DEFINE l == [newsLoc[p] EXCEPT !.mine = Len(feed) + 1]
  <2>1. feed' = Append(feed, Mine(p)) /\ NewsGoto(p, "touch", l)
    BY <1>3 DEF InsertMessage
  <2>2. /\ feed \in Seq([event : Events, content : Contents]) /\ shown \subseteq DOMAIN feed
        /\ outbox \in [Queued -> {NoRow} \cup [content : Contents, sent : BOOLEAN]]
    BY DEF NewsTyped, NewsTypeOK, Events
  <2>3. /\ feed' \in Seq([event : Events, content : Contents])
        /\ Len(feed) \in Nat /\ DOMAIN feed' = 1..Len(feed) + 1 /\ DOMAIN feed = 1..Len(feed)
        /\ feed'[Len(feed) + 1] = Mine(p)
        /\ \A i \in 1..Len(feed) : feed'[i] = feed[i]
    BY <1>1, <2>1, <2>2
  <2>4. Grows /\ NewsTypeOK'
    <3>1. \A i \in DOMAIN feed : i \in DOMAIN feed'
      BY <2>3
    <3> QED
      BY <1>1, <2>2, <2>3, <3>1 DEF Grows, NewsTyped, NewsTypeOK, RowOf, Events
  <2>5. FeedTells'
    <3>1. \A i \in DOMAIN feed' : i = Len(feed) + 1 \/ i \in DOMAIN feed
      BY <2>3
    <3>2. \A i \in DOMAIN feed : feed[i] # Mine(p)
      BY <1>3 DEF InFeed
    <3>3. IsInjective(feed)'
      BY <2>3, <3>1, <3>2 DEF FeedTells, IsInjective
    <3>4. \A m : InFeed(m) => InFeed(m)'
      BY <2>3 DEF InFeed
    <3> QED
      BY <1>1, <3>3, <3>4 DEF FeedTells, RowOf
  <2>6. l \in Errands /\ l.event = newsLoc[p].event /\ l.content = newsLoc[p].content /\ l.rows = newsLoc[p].rows
        /\ l.mine = Len(feed) + 1
    BY <1>1, <2>3 DEF Errands
  <2> HIDE DEF l
  <2>7. ASSUME newsPc'[p] = "touch", newsLoc'[p] = l
        PROVE  OnErrand(p)'
    <3>1. Mine(p)' = Mine(p)
      BY <1>1, <2>6, <2>7 DEF Mine, RowContent
    <3>2. newsLoc'[p].mine \in DOMAIN feed' /\ feed'[newsLoc'[p].mine] = Mine(p)'
      BY <2>3, <2>6, <2>7, <3>1
    <3> QED
      BY <1>1, <2>6, <2>7, <3>2 DEF OnErrand, RowOf
  <2>8. /\ NewsTyped' /\ newsPc'[p] = "touch" /\ newsLoc'[p] = l
        /\ \A q \in Notifiers \ {p} : newsPc'[q] = newsPc[q] /\ newsLoc'[q] = newsLoc[q]
    BY <2>1, <2>4, <2>6, <2>7, OneGoesOn
  <2>9. SomebodyAtWork'
    <3>1. \A i \in DOMAIN feed' \ shown' : i = l.mine \/ i \in DOMAIN feed \ shown
      BY <1>1, <2>3, <2>6
    <3> QED
      BY <1>1, <2>6, <2>8, <3>1, WorkersStay DEF Unsent
  <2> QED
    BY <2>5, <2>8, <2>9
<1> QED
  BY <1>2, <1>3

\* An idle process takes an errand about rows that exist.
LEMMA TakesErrand ==
    ASSUME NewsTyped, Grows, NewsTypeOK', NEW p \in Notifiers, NEW e \in Events, NEW c \in Contents,
           NEW rows \in Seq(Queued), NEW label \in {"row", "insert"}, NewsGoto(p, label, Errand(e, c, rows)),
           label = "row" => e \in Queued,
           e \in Queued => outbox'[e] # NoRow,
           \A i \in DOMAIN rows : outbox'[rows[i]] # NoRow
    PROVE  /\ NewsTyped'
           /\ newsPc'[p] = label /\ newsLoc'[p].event = e
           /\ \A q \in Notifiers \ {p} : newsPc'[q] = newsPc[q] /\ newsLoc'[q] = newsLoc[q]
<1> DEFINE l == Errand(e, c, rows)
<1>1. l \in Errands /\ l.event = e /\ l.rows = rows
  BY DEF Errand, Errands
<1> HIDE DEF l
<1>2. ASSUME newsPc'[p] = label, newsLoc'[p] = l PROVE OnErrand(p)'
  BY <1>1, <1>2 DEF OnErrand, RowOf
<1>3. NewsGoto(p, label, l)
  BY DEF l
<1> QED
  BY <1>1, <1>2, <1>3, OneGoesOn

LEMMA NoRowsLeft == <<>> \in Seq(Queued) /\ DOMAIN <<>> = {}
OBVIOUS

LEMMA Tells == ASSUME NewsInv, NEW p \in Notifiers, Tell(p) PROVE NewsInv'
<1> USE DEF NewsInv
<1>1. PICK c \in post.calls :
        /\ c.event \in Immediate
        /\ IF InFeed(c) THEN told' = told \cup {c} /\ UNCHANGED <<post, newsPc, newsLoc>>
           ELSE NewsGoto(p, "insert", Errand(c.event, c.content, <<>>)) /\ UNCHANGED told
  BY DEF Tell
<1>2. newsPc[p] = "idle" /\ UNCHANGED <<outbox, feed, shown, newsFaults>>
  BY DEF Tell, NewsBegin, NoNewsFault
<1>3. c.event \in Events /\ c.event \notin Queued /\ c.content \in Contents
  BY <1>1, NotificationAssumption DEF NewsTyped, Events
<1>4. Grows /\ NewsTypeOK' /\ FeedTells' /\ newsFaults' \in Nat
  BY <1>2, TellsStill DEF Grows, NewsTyped, NewsTypeOK, RowOf
<1>5. CASE UNCHANGED <<post, newsPc, newsLoc>>
  <2>1. NewsTyped'
    BY <1>4, <1>5, OthersGoOn DEF NewsTyped
  <2>2. SomebodyAtWork'
    BY <1>2, <1>5, WorkersStay DEF Unsent
  <2> QED
    BY <1>4, <2>1, <2>2
<1>6. CASE NewsGoto(p, "insert", Errand(c.event, c.content, <<>>))
  <2>1. /\ NewsTyped' /\ newsPc'[p] = "insert" /\ newsLoc'[p].event = c.event
        /\ \A q \in Notifiers \ {p} : newsPc'[q] = newsPc[q] /\ newsLoc'[q] = newsLoc[q]
    BY <1>3, <1>4, <1>6, NoRowsLeft, TakesErrand
  <2>2. SomebodyAtWork'
    BY <1>2, <2>1, WorkersStay DEF Unsent
  <2> QED
    BY <1>4, <2>1, <2>2
<1> QED
  BY <1>1, <1>5, <1>6

LEMMA Queues == ASSUME NewsInv, NEW p \in Notifiers, Queue(p) PROVE NewsInv'
<1> USE DEF NewsInv
<1>1. PICK c \in post.calls :
        /\ c.event \in Queued
        /\ outbox' = IF outbox[c.event] = NoRow
                     THEN [outbox EXCEPT ![c.event] = [content |-> c.content, sent |-> FALSE]] ELSE outbox
        /\ IF outbox'[c.event].sent
           THEN told' = told \cup {c} /\ UNCHANGED <<post, newsPc, newsLoc>>
           ELSE NewsGoto(p, "row", Errand(c.event, c.content, <<>>)) /\ UNCHANGED told
  BY DEF Queue
<1>2. newsPc[p] = "idle" /\ UNCHANGED <<feed, shown, newsFaults>>
  BY DEF Queue, NewsBegin, NoNewsFault
<1>3. c.event \in Events /\ c.content \in Contents
  BY <1>1, NotificationAssumption DEF NewsTyped, Events
<1> DEFINE Rows == [content : Contents, sent : BOOLEAN]
<1>4. /\ outbox' \in [Queued -> {NoRow} \cup Rows] /\ outbox'[c.event] # NoRow
      /\ \A e \in Queued : outbox[e] # NoRow => outbox'[e] = outbox[e]
      /\ \A e \in Queued : outbox'[e] = outbox[e] \/ (e = c.event /\ ~outbox'[e].sent)
  <2>1. outbox \in [Queued -> {NoRow} \cup Rows]
    BY DEF NewsTyped, NewsTypeOK
  <2>2. CASE outbox[c.event] = NoRow
    <3>1. [content |-> c.content, sent |-> FALSE] \in Rows
      BY <1>3
    <3> QED
      BY <1>1, <2>1, <2>2, <3>1, NotificationAssumption
  <2>3. CASE outbox[c.event] # NoRow
    BY <1>1, <2>1, <2>3
  <2> QED
    BY <2>2, <2>3
<1>5. Grows /\ NewsTypeOK' /\ newsFaults' \in Nat
  BY <1>2, <1>4 DEF Grows, NewsTyped, NewsTypeOK, RowOf
<1>6. FeedTells'
  BY <1>2, <1>4 DEF FeedTells, RowOf, InFeed, Message, IsInjective
<1>7. CASE outbox'[c.event].sent /\ UNCHANGED <<post, newsPc, newsLoc>>
  <2>1. NewsTyped'
    BY <1>5, <1>7, OthersGoOn DEF NewsTyped
  <2>2. \A e \in Unsent' : e \in Unsent
    BY <1>4, <1>7 DEF Unsent
  <2>3. SomebodyAtWork'
    BY <1>2, <1>7, <2>2, WorkersStay
  <2> QED
    BY <1>6, <2>1, <2>3
<1>8. CASE NewsGoto(p, "row", Errand(c.event, c.content, <<>>))
  <2>1. /\ NewsTyped' /\ newsPc'[p] = "row" /\ newsLoc'[p].event = c.event
        /\ \A q \in Notifiers \ {p} : newsPc'[q] = newsPc[q] /\ newsLoc'[q] = newsLoc[q]
    BY <1>1, <1>3, <1>4, <1>5, <1>8, NoRowsLeft, TakesErrand
  <2>2. \A e \in Unsent' : e \in Unsent \/ e = c.event
    BY <1>4 DEF Unsent
  <2>3. SomebodyAtWork'
    BY <1>2, <2>1, <2>2, WorkersStay
  <2> QED
    BY <1>6, <2>1, <2>3
<1> QED
  BY <1>1, <1>7, <1>8

\* A finite set that is not empty can be put in a row.
LEMMA PutInARow ==
    ASSUME NEW S, IsFiniteSet(S), S # {}
    PROVE  SetToSeq(S) \in Seq(S) /\ SetToSeq(S) # <<>>
<1>1. Cardinality(S) \in Nat /\ ExistsBijection(1..Cardinality(S), S) /\ Cardinality(S) # 0
  BY FS_CardinalityType, FS_EmptySet
<1>2. PICK f : f \in Bijection(1..Cardinality(S), S)
  BY <1>1 DEF ExistsBijection
<1>3. f \in [1..Cardinality(S) -> S] /\ IsInjective(f)
  BY <1>2 DEF Bijection, Injection, IsInjective
<1>4. SetToSeq(S) \in [1..Cardinality(S) -> S]
  BY <1>3 DEF SetToSeq
<1>5. SetToSeq(S) \in Seq(S)
  BY <1>1, <1>4
<1>6. Len(SetToSeq(S)) = Cardinality(S)
  BY <1>1, <1>4, <1>5
<1> QED
  BY <1>1, <1>5, <1>6

LEMMA Flushes == ASSUME NewsInv, NEW p \in Notifiers, Flush(p) PROVE NewsInv'
<1> USE DEF NewsInv
<1> DEFINE rows == SetToSeq(Unsent)
<1>1. /\ newsPc[p] = "idle" /\ UNCHANGED <<outbox, feed, shown, newsFaults>> /\ Unsent # {}
      /\ NewsGoto(p, "row", Errand(Head(rows), outbox[Head(rows)].content, Tail(rows)))
  BY DEF Flush, NewsBegin, NoNewsFault
<1>2. IsFiniteSet(Unsent)
  BY NotificationAssumption, FS_Subset DEF Unsent
<1>3. rows \in Seq(Unsent) /\ rows # <<>>
  BY <1>1, <1>2, PutInARow
<1> HIDE DEF rows
<1>4. Head(rows) \in Unsent /\ Tail(rows) \in Seq(Unsent)
  BY <1>3
<1>5. Tail(rows) \in Seq(Queued)
  BY <1>4 DEF Unsent
<1>6. \A i \in DOMAIN Tail(rows) : Tail(rows)[i] \in Unsent
  BY <1>4
<1>7. Grows /\ NewsTypeOK' /\ FeedTells' /\ newsFaults' \in Nat
  BY <1>1, TellsStill DEF Grows, NewsTyped, NewsTypeOK, RowOf
<1>8. /\ Head(rows) \in Queued /\ outbox'[Head(rows)] # NoRow /\ outbox[Head(rows)].content \in Contents
      /\ \A i \in DOMAIN Tail(rows) : outbox'[Tail(rows)[i]] # NoRow
  BY <1>1, <1>4, <1>6 DEF Unsent, NewsTyped, NewsTypeOK
<1>9. /\ NewsTyped' /\ newsPc'[p] = "row"
      /\ \A q \in Notifiers \ {p} : newsPc'[q] = newsPc[q] /\ newsLoc'[q] = newsLoc[q]
  BY <1>1, <1>5, <1>7, <1>8, TakesErrand DEF Events
<1>10. SomebodyAtWork'
  BY <1>1, <1>9, WorkersStay DEF Unsent
<1> QED
  BY <1>7, <1>9, <1>10

\* The student reads an event at most once however often it is queued, flushed and delivered,
\* a row marked sent has its message, and without a failure nothing is left (notification
\* delivery and its outbox).
THEOREM NotificationsAreTold == NewsSpec => []SentIsTold
<1>1. NewsInv /\ [NewsNext]_newsVars => NewsInv'
  <2> SUFFICES ASSUME NewsInv, [NewsNext]_newsVars PROVE NewsInv'
    OBVIOUS
  <2>1. CASE NewsNext
    BY <2>1, Queues, Tells, Flushes, LooksAtRow, Inserts, Touches, Marks, Fails DEF NewsNext
  <2>2. CASE UNCHANGED newsVars
    <3>1. Grows /\ NewsTypeOK' /\ FeedTells'
      BY <2>2, TellsStill DEF newsVars, NewsInv, Grows, NewsTyped, NewsTypeOK, RowOf
    <3>2. NewsTyped'
      BY <2>2, <3>1, OthersGoOn DEF newsVars, NewsInv, NewsTyped
    <3>3. SomebodyAtWork'
      BY <2>2 DEF newsVars, NewsInv, SomebodyAtWork, Unsent
    <3> QED
      BY <3>1, <3>2, <3>3 DEF NewsInv
  <2> QED
    BY <2>1, <2>2
<1> QED
  BY <1>1, NewsStarts, InvHolds, PTL DEF NewsSpec

-----------------------------------------------------------------------------
(* Handlers: what holds however the handlers of the callers interleave.    *)

\* The callers are between their calls, which are of the set C, or in one of them.
InControl(C) ==
    /\ scene \in Scenes
    /\ calls \in [Procs -> Seq(C)]
    /\ pc \in [Procs -> 0..16]
    /\ loc = [p \in Procs |-> loc[p]]
    /\ \A p \in Procs : calls[p] = <<>> => pc[p] = 0 /\ loc[p] = Nothing

LEMMA ControlStarts ==
    ASSUME NEW C, HandlersInit, \A p \in DOMAIN scene.calls : scene.calls[p] \in Seq(C)
    PROVE  InControl(C)
BY DEF HandlersInit, InControl

\* A caller goes on within its call.
LEMMA GoesOn ==
    ASSUME NEW C, InControl(C), NEW p \in Procs, calls[p] # <<>>, NEW n \in 0..16,
           pc' = [pc EXCEPT ![p] = n], UNCHANGED <<calls, scene>>,
           loc' = [q \in Procs |-> loc'[q]], \A q \in Procs \ {p} : loc'[q] = loc[q]
    PROVE  /\ InControl(C)' /\ calls' = calls
           /\ pc'[p] = n /\ \A q \in Procs \ {p} : pc'[q] = pc[q]
BY DEF InControl

LEMMA ReadsOn ==
    ASSUME NEW C, InControl(C), NEW p \in Procs, calls[p] # <<>>, NEW n \in 0..16, NEW saw, ReadTo(p, n, saw)
    PROVE  /\ InControl(C)' /\ calls' = calls /\ db' = db
           /\ pc'[p] = n /\ \A q \in Procs \ {p} : pc'[q] = pc[q]
<1>1. loc' = [q \in Procs |-> loc'[q]] /\ \A q \in Procs \ {p} : loc'[q] = loc[q]
  BY DEF ReadTo, InControl
<1> QED
  BY <1>1, GoesOn DEF ReadTo

LEMMA WritesOn ==
    ASSUME NEW C, InControl(C), NEW p \in Procs, calls[p] # <<>>, NEW n \in 0..16, NEW tables, WriteTo(p, n, tables)
    PROVE  /\ InControl(C)' /\ calls' = calls /\ db' = tables
           /\ pc'[p] = n /\ \A q \in Procs \ {p} : pc'[q] = pc[q]
<1>1. loc' = [q \in Procs |-> loc'[q]] /\ \A q \in Procs \ {p} : loc'[q] = loc[q]
  BY DEF WriteTo, InControl
<1> QED
  BY <1>1, GoesOn DEF WriteTo

\* A caller is answered and goes on to its next call.
LEMMA IsAnswered ==
    ASSUME NEW C, InControl(C), NEW p \in Procs, calls[p] # <<>>, NEW tables, Commit(p, tables)
    PROVE  /\ InControl(C)' /\ db' = tables
           /\ pc'[p] = 0
           /\ \A q \in Procs \ {p} : pc'[q] = pc[q] /\ calls'[q] = calls[q]
<1> USE DEF Commit, InControl
<1>1. /\ calls' \in [Procs -> Seq(C)] /\ \A q \in Procs \ {p} : calls'[q] = calls[q]
  <2>1. Tail(calls[p]) \in Seq(C)
    OBVIOUS
  <2> QED
    BY <2>1
<1>2. /\ pc' \in [Procs -> 0..16] /\ pc'[p] = 0 /\ \A q \in Procs \ {p} : pc'[q] = pc[q]
      /\ loc' = [q \in Procs |-> loc'[q]] /\ loc'[p] = Nothing /\ \A q \in Procs \ {p} : loc'[q] = loc[q]
  <2>1. /\ pc' = [pc EXCEPT ![p] = 0] /\ pc \in [Procs -> 0..16]
        /\ loc' = [loc EXCEPT ![p] = Nothing] /\ loc = [q \in Procs |-> loc[q]]
    OBVIOUS
  <2> HIDE DEF Commit, InControl
  <2>2. /\ pc' \in [Procs -> 0..16] /\ pc'[p] = 0
        /\ \A q \in Procs \ {p} : pc'[q] = pc[q]
    BY <2>1
  <2>3. /\ loc' = [q \in Procs |-> loc'[q]] /\ loc'[p] = Nothing
        /\ \A q \in Procs \ {p} : loc'[q] = loc[q]
    BY <2>1
  <2> QED
    BY <2>2, <2>3
<1> QED
  BY <1>1, <1>2

LEMMA CallTyped ==
    ASSUME NEW C, InControl(C), NEW p \in Procs, calls[p] # <<>>
    PROVE  Call(p) \in C
BY DEF InControl, Call

-----------------------------------------------------------------------------
(* Credentials                                                             *)

\* An audit log is that of an account, and so is a check that went well.
LoginFirst ==
    /\ \A o \in Owners : Trail(o) # <<>> => db.logins[o] > 0
    /\ \A p \in Procs : calls[p] # <<>> /\ Call(p).op \in {"set", "save"} /\ pc[p] >= 1 => db.logins[Call(p).owner] > 0
InTrail(o, w) == \E n \in DOMAIN Trail(o) : Trail(o)[n].password = w
Setter(p, o) == calls[p] # <<>> /\ Call(p).op = "set" /\ Call(p).owner = o /\ pc[p] >= 2
\* The password in use stands in the log, or the set that wrote it is still on its way there.
Follows(o) ==
    (Trail(o) # <<>> \/ \E p \in Procs : Setter(p, o)) /\ ~db.lost[o] /\ db.logins[o] < 2 =>
        InTrail(o, db.hash[o]) \/ \E p \in Procs : Setter(p, o) /\ Call(p).password = db.hash[o]
TrailFollows == \A o \in Owners : Follows(o)
CredentialsInv == InControl(CredentialCalls) /\ db \in CredentialTables /\ LoginFirst /\ TrailFollows

LEMMA CredentialsInvHolds == CredentialsInv => CredentialsTypeOK /\ PasswordIsInTrail
<1> SUFFICES ASSUME CredentialsInv PROVE CredentialsTypeOK /\ PasswordIsInTrail
  OBVIOUS
<1>1. CredentialsTypeOK
  BY DEF CredentialsInv, CredentialsTypeOK, HandlersTypeOK, InControl
<1>2. PasswordIsInTrail
  BY DEF CredentialsInv, TrailFollows, Follows, PasswordIsInTrail, Setting, Setter, InTrail
<1> QED
  BY <1>1, <1>2

LEMMA CredentialsStart == HandlersInit /\ Of("credentials") => CredentialsInv
<1> SUFFICES ASSUME HandlersInit, Of("credentials") PROVE CredentialsInv
  OBVIOUS
<1>1. scene \in Scenes /\ scene.part = "credentials" /\ db = scene.db
  BY DEF HandlersInit, Of
<1>2. InControl(CredentialCalls)
  BY <1>1, ControlStarts, CredentialsSceneAssumption
<1>3. pc = [p \in Procs |-> 0]
  BY DEF HandlersInit
<1>4. LoginFirst
  BY <1>1, <1>3, CredentialsSceneAssumption DEF LoginFirst, Trail
<1>5. TrailFollows
  BY <1>1, <1>3, CredentialsSceneAssumption DEF TrailFollows, Follows, Trail, InTrail, Setter
<1> QED
  BY <1>1, <1>2, <1>4, <1>5, CredentialsSceneAssumption DEF CredentialsInv

\* A step that writes no table, short of the checks.

\* A call and its effects on the tables are typed.
LEMMA CredentialCall ==
    ASSUME CredentialsInv, NEW p \in Procs, calls[p] # <<>>
    PROVE  /\ Call(p) \in CredentialCalls /\ Call(p).owner \in Owners /\ Call(p).password \in Passwords
           /\ \A action \in {"reset", "save"} :
                 Entry(p, action) \in [action : {"reset", "save"}, password : Passwords, key : SaveKeys \cup {Nothing}]
<1>1. Call(p) \in CredentialCalls
  BY CallTyped DEF CredentialsInv
<1> QED
  BY <1>1 DEF CredentialCalls, Entry

LEMMA SettersHaveLogins ==
    ASSUME CredentialsInv, NEW p \in Procs, NEW o \in Owners, Setter(p, o)
    PROVE  db.logins[o] > 0
<1>1. pc[p] \in 0..16
  BY DEF CredentialsInv, InControl
<1>2. calls[p] # <<>> /\ Call(p).op \in {"set", "save"} /\ Call(p).owner = o /\ pc[p] >= 1
  BY <1>1 DEF Setter
<1> QED
  BY <1>2 DEF CredentialsInv, LoginFirst

\* A caller that starts, reads or is refused leaves the passwords alone.
LEMMA LeavesPasswords ==
    ASSUME CredentialsInv, NEW p \in Procs, calls[p] # <<>>, InControl(CredentialCalls)', db' \in CredentialTables,
           db'.logins = db.logins, db'.hash = db.hash, db'.trail = db.trail, db'.lost = db.lost,
           \A q \in Procs \ {p} : pc'[q] = pc[q] /\ calls'[q] = calls[q],
           \/ /\ calls'[p] = calls[p] /\ (Call(p).op = "set" => (pc'[p] >= 2 <=> pc[p] >= 2))
              /\ Call(p).op \in {"set", "save"} /\ pc'[p] >= 1 => db.logins[Call(p).owner] > 0
           \/ pc'[p] = 0 /\ ~(Call(p).op = "set" /\ pc[p] >= 2)
    PROVE  CredentialsInv'
<1>1. LoginFirst'
  <2> SUFFICES ASSUME NEW q \in Procs, calls'[q] # <<>>, Head(calls'[q]).op \in {"set", "save"}, pc'[q] >= 1
               PROVE  db.logins[Head(calls'[q]).owner] > 0
    BY DEF CredentialsInv, LoginFirst, Trail, Call
  <2> QED
    BY DEF CredentialsInv, LoginFirst, Call
<1>2. \A q \in Procs, o \in Owners : Setter(q, o) => Setter(q, o)' /\ calls'[q] = calls[q]
  BY DEF Setter, Call
<1>3. \A q \in Procs, o \in Owners : Setter(q, o)' => Setter(q, o) /\ calls'[q] = calls[q]
  BY DEF Setter, Call
<1>4. TrailFollows'
  <2> SUFFICES ASSUME NEW o \in Owners, db.trail[o] # <<>> \/ \E q \in Procs : Setter(q, o)', ~db.lost[o], db.logins[o] < 2
               PROVE  InTrail(o, db.hash[o]) \/ \E q \in Procs : Setter(q, o)' /\ Head(calls'[q]).password = db.hash[o]
    BY DEF TrailFollows, Follows, Trail, InTrail, Call
  <2>1. InTrail(o, db.hash[o]) \/ \E q \in Procs : Setter(q, o) /\ Call(q).password = db.hash[o]
    BY <1>3 DEF CredentialsInv, TrailFollows, Follows, Trail
  <2> QED
    BY <1>2, <2>1 DEF Call
<1> QED
  BY <1>1, <1>4 DEF CredentialsInv

\* The calls of the others are where they were.
LEMMA Reads ==
    ASSUME CredentialsInv, NEW p \in Procs, calls[p] # <<>>, NEW n \in 0..3, ReadTo(p, n, {}),
           n >= 1 /\ Call(p).op \in {"set", "save"} => db.logins[Call(p).owner] > 0,
           Call(p).op = "set" => n < 2 /\ pc[p] < 2
    PROVE  CredentialsInv'
<1>1. InControl(CredentialCalls)' /\ pc'[p] = n /\ \A q \in Procs \ {p} : pc'[q] = pc[q]
  <2>1. n \in 0..16
    OBVIOUS
  <2> QED
    BY <2>1, ReadsOn DEF CredentialsInv
<1>2. pc[p] \in 0..16
  BY DEF CredentialsInv, InControl
<1> QED
  BY <1>1, <1>2, LeavesPasswords DEF ReadTo, CredentialsInv

LEMMA CredentialAnswers ==
    ASSUME CredentialsInv, NEW p \in Procs, calls[p] # <<>>, ~(Call(p).op = "set" /\ pc[p] >= 2),
           NEW tables \in CredentialTables, Commit(p, tables),
           tables.logins = db.logins, tables.hash = db.hash, tables.trail = db.trail, tables.lost = db.lost
    PROVE  CredentialsInv'
<1>1. /\ InControl(CredentialCalls)' /\ db' = tables /\ pc'[p] = 0
      /\ \A q \in Procs \ {p} : pc'[q] = pc[q] /\ calls'[q] = calls[q]
  BY IsAnswered DEF CredentialsInv
<1> QED
  BY <1>1, LeavesPasswords

LEMMA Refuses ==
    ASSUME CredentialsInv, NEW p \in Procs, calls[p] # <<>>, ~(Call(p).op = "set" /\ pc[p] >= 2), Refuse(p)
    PROVE  CredentialsInv'
BY CredentialAnswers DEF Refuse, CredentialsInv

\* A save is answered without a password: refused, or with the stored result.
LEMMA SaveAnswered ==
    ASSUME CredentialsInv, NEW p \in Procs, calls[p] # <<>>, Call(p).op = "save",
           NEW how \in {"saved", "replayed", "refused"}, SaveAnswers(p, db, how)
    PROVE  CredentialsInv'
<1> DEFINE tables == [db EXCEPT !.answers[p] = Append(@, how)]
<1>1. Commit(p, tables)
  BY DEF SaveAnswers
<1>2. tables \in CredentialTables
  <2>1. db.answers \in [Procs -> Seq({"saved", "replayed", "refused"})]
    BY DEF CredentialsInv, CredentialTables
  <2>2. [db.answers EXCEPT ![p] = Append(@, how)] \in [Procs -> Seq({"saved", "replayed", "refused"})]
    BY <2>1
  <2>3. tables = [db EXCEPT !.answers = [db.answers EXCEPT ![p] = Append(@, how)]]
    BY DEF CredentialsInv, CredentialTables
  <2> QED
    BY <2>2, <2>3 DEF CredentialsInv, CredentialTables
<1>3. tables.logins = db.logins /\ tables.hash = db.hash /\ tables.trail = db.trail /\ tables.lost = db.lost
  BY DEF CredentialsInv, CredentialTables
<1> QED
  BY <1>1, <1>2, <1>3, CredentialAnswers

-----------------------------------------------------------------------------
\* The account is connected: one more login, with the password.
LEMMA Generates == ASSUME CredentialsInv, NEW p \in Procs, Generate(p) PROVE CredentialsInv'
<1> DEFINE o == Call(p).owner
<1>1. CASE At(p, "generate", 0)
  <2>1. calls[p] # <<>> /\ Call(p).op = "generate" /\ pc[p] = 0 /\ (Refuse(p) \/ ReadTo(p, 1, {}))
    BY <1>1 DEF At, Generate
  <2> QED
    BY <2>1, Refuses, Reads
<1>2. CASE ~At(p, "generate", 0)
  <2> DEFINE tables == [db EXCEPT !.logins[o] = @ + 1, !.hash[o] = Call(p).password]
  <2>1. calls[p] # <<>> /\ Call(p).op = "generate" /\ Commit(p, tables)
    BY <1>2 DEF At, Generate
  <2>2. o \in Owners /\ Call(p).password \in Passwords
    BY <2>1, CredentialCall
  <2>3. /\ tables \in CredentialTables
        /\ tables.logins[o] = db.logins[o] + 1 /\ db.logins[o] \in Nat
        /\ \A x \in Owners \ {o} : tables.logins[x] = db.logins[x] /\ tables.hash[x] = db.hash[x]
        /\ tables.trail = db.trail /\ tables.lost = db.lost
    <3> DEFINE logins == [db.logins EXCEPT ![o] = db.logins[o] + 1]
               hash == [db.hash EXCEPT ![o] = Call(p).password]
    <3>1. db.logins \in [Owners -> Nat] /\ db.hash \in [Owners -> Passwords \cup {Nothing}]
      BY DEF CredentialsInv, CredentialTables
    <3>2. /\ logins \in [Owners -> Nat] /\ hash \in [Owners -> Passwords \cup {Nothing}]
          /\ logins[o] = db.logins[o] + 1 /\ db.logins[o] \in Nat
          /\ \A x \in Owners \ {o} : logins[x] = db.logins[x] /\ hash[x] = db.hash[x]
      BY <2>2, <3>1
    <3>3. tables = [db EXCEPT !.logins = logins, !.hash = hash]
      BY DEF CredentialsInv, CredentialTables
    <3> HIDE DEF tables, logins, hash
    <3>4. tables \in CredentialTables /\ tables.logins = logins /\ tables.hash = hash
          /\ tables.trail = db.trail /\ tables.lost = db.lost
      BY <3>2, <3>3 DEF CredentialsInv, CredentialTables
    <3> QED
      BY <3>2, <3>4
  <2>4. /\ InControl(CredentialCalls)' /\ db' = tables /\ pc'[p] = 0
        /\ \A q \in Procs \ {p} : pc'[q] = pc[q] /\ calls'[q] = calls[q]
    BY <2>1, IsAnswered DEF CredentialsInv
  <2> HIDE DEF tables
  <2>5. \A q \in Procs, x \in Owners : Setter(q, x)' <=> Setter(q, x)
    BY <2>1, <2>4 DEF Setter, Call
  <2>6. LoginFirst'
    <3>1. ASSUME NEW x \in Owners PROVE tables.logins[x] >= db.logins[x] /\ db.logins[x] \in Nat /\ tables.logins[x] \in Nat
      <4>1. db.logins[x] \in Nat
        BY DEF CredentialsInv, CredentialTables
      <4> QED
        BY <2>3, <4>1
    <3>2. ASSUME NEW q \in Procs, calls'[q] # <<>>, Head(calls'[q]).op \in {"set", "save"}, pc'[q] >= 1
          PROVE  db'.logins[Head(calls'[q]).owner] > 0
      <4>1. q # p /\ calls'[q] = calls[q] /\ pc'[q] = pc[q]
        BY <2>4, <3>2
      <4>2. Call(q).owner \in Owners /\ db.logins[Call(q).owner] > 0
        BY <3>2, <4>1, CredentialCall DEF CredentialsInv, LoginFirst, Call
      <4> QED
        BY <2>4, <3>1, <4>1, <4>2 DEF Call
    <3>3. \A x \in Owners : db'.trail[x] # <<>> => db'.logins[x] > 0
      BY <2>3, <2>4, <3>1 DEF CredentialsInv, LoginFirst, Trail
    <3> QED
      BY <3>2, <3>3 DEF LoginFirst, Trail, Call
  <2>7. TrailFollows'
    <3> SUFFICES ASSUME NEW x \in Owners, db'.trail[x] # <<>> \/ \E q \in Procs : Setter(q, x)', ~db'.lost[x], db'.logins[x] < 2
                 PROVE  (\E n \in DOMAIN db'.trail[x] : db'.trail[x][n].password = db'.hash[x])
                        \/ \E q \in Procs : Setter(q, x)' /\ Head(calls'[q]).password = db'.hash[x]
      BY DEF TrailFollows, Follows, Trail, InTrail, Call
    <3>1. db.trail[x] # <<>> \/ \E q \in Procs : Setter(q, x)
      BY <2>3, <2>4, <2>5
    <3>2. db.logins[x] > 0
      BY <3>1, SettersHaveLogins DEF CredentialsInv, LoginFirst, Trail
    <3>3. x # o
      BY <2>3, <2>4, <3>2
    <3>4. InTrail(x, db.hash[x]) \/ \E q \in Procs : Setter(q, x) /\ Call(q).password = db.hash[x]
      BY <2>3, <2>4, <3>1, <3>3 DEF CredentialsInv, TrailFollows, Follows, Trail
    <3>5. \A q \in Procs : Setter(q, x) => q # p
      BY <2>1 DEF Setter
    <3> QED
      BY <2>3, <2>4, <2>5, <3>3, <3>4, <3>5 DEF InTrail, Trail, Call
  <2> QED
    BY <2>3, <2>4, <2>6, <2>7 DEF CredentialsInv
<1> QED
  BY <1>1, <1>2

LEMMA ChecksSet ==
    ASSUME CredentialsInv, NEW p \in Procs, NEW entries, SetCheck(p, entries) PROVE CredentialsInv'
<1>1. /\ calls[p] # <<>> /\ Call(p).op = "set" /\ pc[p] = 0 /\ Call(p).owner \in Owners
      /\ Refuse(p) \/ (ReadTo(p, 1, {}) /\ db.logins[Call(p).owner] # 0)
  BY CredentialCall DEF SetCheck, At
<1>2. db.logins[Call(p).owner] \in Nat
  BY <1>1 DEF CredentialsInv, CredentialTables
<1> QED
  BY <1>1, <1>2, Refuses, Reads

LEMMA ChecksSave ==
    ASSUME CredentialsInv, NEW p \in Procs, SaveCheck(p) \/ SaveReplay(p) \/ SaveHistory(p) PROVE CredentialsInv'
<1>1. /\ calls[p] # <<>> /\ Call(p).op = "save" /\ Call(p).owner \in Owners
  BY CredentialCall DEF SaveCheck, SaveReplay, SaveHistory, At
<1>2. db.logins[Call(p).owner] \in Nat
  BY <1>1 DEF CredentialsInv, CredentialTables
<1>3. CASE SaveCheck(p)
  BY <1>1, <1>2, <1>3, SaveAnswered, Reads DEF SaveCheck
<1>4. CASE SaveReplay(p) \/ SaveHistory(p)
  <2>1. db.logins[Call(p).owner] > 0
    BY <1>1, <1>4 DEF SaveReplay, SaveHistory, At, CredentialsInv, LoginFirst
  <2> QED
    BY <1>1, <1>4, <2>1, SaveAnswered, Reads DEF SaveReplay, SaveHistory
<1> QED
  BY <1>3, <1>4

\* What a write does to one owner's account is told by its log, its hash and its loss; the
\* other callers and the other accounts are where they were.
LEMMA OneAccountWritten ==
    ASSUME CredentialsInv, NEW p \in Procs, calls[p] # <<>>, Call(p).op \in {"set", "save"}, pc[p] >= 1,
           InControl(CredentialCalls)', db' \in CredentialTables, NEW o \in Owners, o = Call(p).owner,
           db'.logins = db.logins,
           \A x \in Owners \ {o} : db'.hash[x] = db.hash[x] /\ db'.trail[x] = db.trail[x] /\ db'.lost[x] = db.lost[x],
           \A q \in Procs \ {p} : pc'[q] = pc[q] /\ calls'[q] = calls[q],
           calls'[p] = calls[p] \/ pc'[p] = 0,
           Follows(o)'
    PROVE  CredentialsInv'
<1>1. db.logins[o] > 0
  BY DEF CredentialsInv, LoginFirst
<1>2. LoginFirst'
  <2>1. ASSUME NEW q \in Procs, calls'[q] # <<>>, Head(calls'[q]).op \in {"set", "save"}, pc'[q] >= 1
        PROVE  db'.logins[Head(calls'[q]).owner] > 0
    <3>1. CASE q = p
      BY <1>1, <2>1, <3>1 DEF Call
    <3>2. CASE q # p
      BY <2>1, <3>2 DEF CredentialsInv, LoginFirst, Call
    <3> QED
      BY <3>1, <3>2
  <2>2. ASSUME NEW x \in Owners, db'.trail[x] # <<>> PROVE db'.logins[x] > 0
    BY <1>1, <2>2 DEF CredentialsInv, LoginFirst, Trail
  <2> QED
    BY <2>1, <2>2 DEF LoginFirst, Trail, Call
<1>3. TrailFollows'
  <2> SUFFICES ASSUME NEW x \in Owners, db'.trail[x] # <<>> \/ \E q \in Procs : Setter(q, x)', ~db'.lost[x], db'.logins[x] < 2
               PROVE  (\E n \in DOMAIN db'.trail[x] : db'.trail[x][n].password = db'.hash[x])
                      \/ \E q \in Procs : Setter(q, x)' /\ Head(calls'[q]).password = db'.hash[x]
    BY DEF TrailFollows, Follows, Trail, InTrail, Call
  <2>1. CASE x = o
    BY <2>1 DEF Follows, Trail, InTrail, Call
  <2>2. CASE x # o
    <3>1. \A q \in Procs : Setter(q, x) => q # p
      BY <2>2 DEF Setter
    <3>2. \A q \in Procs : Setter(q, x)' => q # p
      BY <2>2 DEF Setter, Call
    <3>3. \A q \in Procs : Setter(q, x)' <=> Setter(q, x)
      BY <3>1, <3>2 DEF Setter, Call
    <3>4. InTrail(x, db.hash[x]) \/ \E q \in Procs : Setter(q, x) /\ Call(q).password = db.hash[x]
      BY <2>2, <3>3 DEF CredentialsInv, TrailFollows, Follows, Trail
    <3> QED
      BY <2>2, <3>1, <3>3, <3>4 DEF InTrail, Trail, Call
  <2> QED
    BY <2>1, <2>2
<1> QED
  BY <1>2, <1>3 DEF CredentialsInv

\* The log of an owner with one more entry, and the password in it.
AuditEntry == [action : {"reset", "save"}, password : Passwords, key : SaveKeys \cup {Nothing}]
LEMMA EntryIsLast ==
    ASSUME NEW entries \in Seq(AuditEntry), NEW e \in AuditEntry
    PROVE  /\ Append(entries, e) \in Seq(AuditEntry)
           /\ \E n \in DOMAIN Append(entries, e) : Append(entries, e)[n].password = e.password
           /\ \A n \in DOMAIN entries : n \in DOMAIN Append(entries, e) /\ Append(entries, e)[n] = entries[n]
<1>1. Append(entries, e) \in Seq(AuditEntry) /\ Len(entries) \in Nat
  OBVIOUS
<1>2. Len(entries) + 1 \in DOMAIN Append(entries, e) /\ Append(entries, e)[Len(entries) + 1] = e
  OBVIOUS
<1>3. \A n \in DOMAIN entries : n \in DOMAIN Append(entries, e) /\ Append(entries, e)[n] = entries[n]
  OBVIOUS
<1> QED
  BY <1>1, <1>2, <1>3
LEMMA TrailsTyped ==
    ASSUME CredentialsInv, NEW o \in Owners
    PROVE  db.trail \in [Owners -> Seq(AuditEntry)] /\ db.trail[o] \in Seq(AuditEntry)
BY DEF CredentialsInv, CredentialTables, AuditEntry

\* The password is written: the set stands for it until its entry is.
LEMMA WritesHash ==
    ASSUME CredentialsInv, NEW p \in Procs, At(p, "set", 1), WriteTo(p, 2, [db EXCEPT !.hash[Call(p).owner] = Call(p).password])
    PROVE  CredentialsInv'
<1> PICK o : o = Call(p).owner
  OBVIOUS
<1> DEFINE hash == [db.hash EXCEPT ![o] = Call(p).password]
<1>1. calls[p] # <<>> /\ Call(p).op = "set" /\ pc[p] = 1 /\ o \in Owners /\ Call(p).password \in Passwords
  BY CredentialCall DEF At
<1>2. db.hash \in [Owners -> Passwords \cup {Nothing}]
  BY DEF CredentialsInv, CredentialTables
<1>3. /\ hash \in [Owners -> Passwords \cup {Nothing}] /\ hash[o] = Call(p).password
      /\ \A x \in Owners \ {o} : hash[x] = db.hash[x]
  BY <1>1, <1>2
<1>4. db' = [db EXCEPT !.hash = hash]
  BY DEF WriteTo, CredentialsInv, CredentialTables
<1> HIDE DEF hash
<1>5. db' \in CredentialTables /\ db'.hash = hash /\ db'.logins = db.logins /\ db'.trail = db.trail /\ db'.lost = db.lost
  BY <1>3, <1>4 DEF CredentialsInv, CredentialTables
<1>6. InControl(CredentialCalls)' /\ pc'[p] = 2 /\ (\A q \in Procs \ {p} : pc'[q] = pc[q]) /\ calls' = calls
  <2>1. 2 \in 0..16
    OBVIOUS
  <2> QED
    BY <1>1, <2>1, WritesOn DEF CredentialsInv
<1>7. Follows(o)'
  BY <1>1, <1>3, <1>5, <1>6 DEF Follows, Setter, Call
<1> QED
  BY <1>1, <1>3, <1>5, <1>6, <1>7, OneAccountWritten

\* The timestamp says that the password is known.
LEMMA WritesKnowing ==
    ASSUME CredentialsInv, NEW p \in Procs, At(p, "set", 2),
           WriteTo(p, 3, [db EXCEPT !.knowing[Call(p).owner] = @ \/ Kind[Call(p).owner] # "staff"])
    PROVE  CredentialsInv'
<1> DEFINE o == Call(p).owner
           knowing == [db.knowing EXCEPT ![o] = @ \/ Kind[o] # "staff"]
<1>1. calls[p] # <<>> /\ Call(p).op = "set" /\ pc[p] = 2 /\ o \in Owners
  BY CredentialCall DEF At
<1>2. db.knowing \in [Owners -> BOOLEAN]
  BY DEF CredentialsInv, CredentialTables
<1>3. knowing \in [Owners -> BOOLEAN]
  BY <1>1, <1>2
<1>4. db' = [db EXCEPT !.knowing = knowing]
  BY DEF WriteTo, CredentialsInv, CredentialTables
<1> HIDE DEF knowing
<1>5. db' \in CredentialTables /\ db'.hash = db.hash /\ db'.logins = db.logins /\ db'.trail = db.trail /\ db'.lost = db.lost
  BY <1>3, <1>4 DEF CredentialsInv, CredentialTables
<1>6. InControl(CredentialCalls)' /\ pc'[p] = 3 /\ (\A q \in Procs \ {p} : pc'[q] = pc[q]) /\ calls' = calls
  <2>1. 3 \in 0..16
    OBVIOUS
  <2> QED
    BY <1>1, <2>1, WritesOn DEF CredentialsInv
<1>7. db.logins[o] > 0
  BY <1>1, SettersHaveLogins DEF Setter
<1> QED
  BY <1>1, <1>5, <1>6, <1>7, LeavesPasswords

\* The entry is written, or lost.
LEMMA WritesEntry ==
    ASSUME CredentialsInv, NEW p \in Procs, At(p, "set", 3),
           \/ Commit(p, [db EXCEPT !.trail[Call(p).owner] = Append(@, Entry(p, "reset"))])
           \/ Commit(p, [db EXCEPT !.lost[Call(p).owner] = TRUE])
    PROVE  CredentialsInv'
<1> PICK o : o = Call(p).owner
  OBVIOUS
<1> PICK trail : trail = [db.trail EXCEPT ![o] = Append(db.trail[o], Entry(p, "reset"))]
  OBVIOUS
<1> DEFINE lost == [db.lost EXCEPT ![o] = TRUE]
<1>1. calls[p] # <<>> /\ Call(p).op = "set" /\ pc[p] = 3 /\ o \in Owners
  BY CredentialCall DEF At
<1>2. CASE Commit(p, [db EXCEPT !.lost[o] = TRUE])
  <2>1. db.lost \in [Owners -> BOOLEAN]
    BY DEF CredentialsInv, CredentialTables
  <2>2. lost \in [Owners -> BOOLEAN] /\ lost[o] /\ \A x \in Owners \ {o} : lost[x] = db.lost[x]
    BY <1>1, <2>1
  <2>3. [db EXCEPT !.lost[o] = TRUE] = [db EXCEPT !.lost = lost]
    BY DEF CredentialsInv, CredentialTables
  <2>4. /\ InControl(CredentialCalls)' /\ db' = [db EXCEPT !.lost = lost] /\ pc'[p] = 0
        /\ \A q \in Procs \ {p} : pc'[q] = pc[q] /\ calls'[q] = calls[q]
    BY <1>1, <1>2, <2>3, IsAnswered DEF CredentialsInv
  <2> HIDE DEF lost
  <2>5. db' \in CredentialTables /\ db'.hash = db.hash /\ db'.logins = db.logins /\ db'.trail = db.trail /\ db'.lost = lost
    BY <2>2, <2>4 DEF CredentialsInv, CredentialTables
  <2>6. Follows(o)'
    BY <2>2, <2>5 DEF Follows
  <2> QED
    BY <1>1, <2>2, <2>4, <2>5, <2>6, OneAccountWritten
<1>3. CASE Commit(p, [db EXCEPT !.trail[o] = Append(@, Entry(p, "reset"))])
  <2>1. /\ trail \in [Owners -> Seq(AuditEntry)]
        /\ \A x \in Owners \ {o} : trail[x] = db.trail[x]
        /\ \E n \in DOMAIN trail[o] : trail[o][n].password = Call(p).password
        /\ \A n \in DOMAIN db.trail[o] : n \in DOMAIN trail[o] /\ trail[o][n] = db.trail[o][n]
    <3>1. Entry(p, "reset") \in AuditEntry /\ Entry(p, "reset").password = Call(p).password
      BY <1>1, CredentialCall DEF Entry, AuditEntry
    <3>2. db.trail \in [Owners -> Seq(AuditEntry)] /\ db.trail[o] \in Seq(AuditEntry)
      BY <1>1, TrailsTyped
    <3> DEFINE log == Append(db.trail[o], Entry(p, "reset"))
    <3>3. /\ log \in Seq(AuditEntry)
          /\ \E n \in DOMAIN log : log[n].password = Entry(p, "reset").password
          /\ \A n \in DOMAIN db.trail[o] : n \in DOMAIN log /\ log[n] = db.trail[o][n]
      BY <3>1, <3>2, EntryIsLast
    <3> HIDE DEF log
    <3>4. trail = [db.trail EXCEPT ![o] = log]
      BY DEF log
    <3>5. trail \in [Owners -> Seq(AuditEntry)] /\ trail[o] = log /\ \A x \in Owners \ {o} : trail[x] = db.trail[x]
      BY <1>1, <3>2, <3>3, <3>4
    <3> QED
      BY <3>1, <3>3, <3>5
  <2>2. [db EXCEPT !.trail[o] = Append(@, Entry(p, "reset"))] = [db EXCEPT !.trail = trail]
    BY DEF CredentialsInv, CredentialTables
  <2>3. /\ InControl(CredentialCalls)' /\ db' = [db EXCEPT !.trail = trail] /\ pc'[p] = 0
        /\ \A q \in Procs \ {p} : pc'[q] = pc[q] /\ calls'[q] = calls[q]
    BY <1>1, <1>3, <2>2, IsAnswered DEF CredentialsInv
  <2>4. db' \in CredentialTables /\ db'.hash = db.hash /\ db'.logins = db.logins /\ db'.trail = trail /\ db'.lost = db.lost
    BY <2>1, <2>3 DEF CredentialsInv, CredentialTables, AuditEntry
  <2>5. ~db.lost[o] /\ db.logins[o] < 2 =>
           (\E n \in DOMAIN trail[o] : trail[o][n].password = db.hash[o])
           \/ \E q \in Procs : Setter(q, o)' /\ Head(calls'[q]).password = db.hash[o]
    <3> SUFFICES ASSUME ~db.lost[o], db.logins[o] < 2
                 PROVE  (\E n \in DOMAIN trail[o] : trail[o][n].password = db.hash[o])
                        \/ \E q \in Procs : Setter(q, o)' /\ Head(calls'[q]).password = db.hash[o]
      OBVIOUS
    <3>1. Setter(p, o)
      BY <1>1 DEF Setter
    <3>2. InTrail(o, db.hash[o]) \/ \E q \in Procs : Setter(q, o) /\ Call(q).password = db.hash[o]
      BY <1>1, <3>1 DEF CredentialsInv, TrailFollows, Follows
    <3>3. CASE InTrail(o, db.hash[o])
      BY <2>1, <3>3 DEF InTrail, Trail
    <3>4. ASSUME NEW q \in Procs, Setter(q, o), Call(q).password = db.hash[o], q # p
          PROVE  Setter(q, o)' /\ Head(calls'[q]).password = db.hash[o]
      BY <2>3, <3>4 DEF Setter, Call
    <3> QED
      BY <2>1, <3>2, <3>3, <3>4
  <2>6. Follows(o)'
    BY <2>4, <2>5 DEF Follows, Trail, InTrail, Call
  <2>7. \A x \in Owners \ {o} : db'.hash[x] = db.hash[x] /\ db'.trail[x] = db.trail[x] /\ db'.lost[x] = db.lost[x]
    BY <2>1, <2>4
  <2> QED
    BY <1>1, <2>3, <2>4, <2>6, <2>7, OneAccountWritten
<1> QED
  BY <1>2, <1>3

LEMMA WritesSet == ASSUME CredentialsInv, NEW p \in Procs, SetWrites(p) PROVE CredentialsInv'
BY WritesHash, WritesKnowing, WritesEntry DEF SetWrites

\* A save writes the password with its entry.
LEMMA Saves == ASSUME CredentialsInv, NEW p \in Procs, SaveTx(p) PROVE CredentialsInv'
<1> PICK o : o = Call(p).owner
  OBVIOUS
<1> PICK trail : trail = [db.trail EXCEPT ![o] = Append(db.trail[o], Entry(p, "save"))]
  OBVIOUS
<1> DEFINE hash == [db.hash EXCEPT ![o] = Call(p).password]
           knowing == [db.knowing EXCEPT ![o] = @ \/ Kind[o] # "staff"]
           answers == [db.answers EXCEPT ![p] = Append(@, "saved")]
           tables == [db EXCEPT !.hash = hash, !.knowing = knowing, !.trail = trail, !.answers = answers]
<1>1. calls[p] # <<>> /\ Call(p).op = "save" /\ pc[p] = 3 /\ o \in Owners /\ Call(p).password \in Passwords
  BY CredentialCall DEF SaveTx, At
<1>2. /\ hash \in [Owners -> Passwords \cup {Nothing}] /\ hash[o] = Call(p).password
      /\ \A x \in Owners \ {o} : hash[x] = db.hash[x]
      /\ knowing \in [Owners -> BOOLEAN]
      /\ answers \in [Procs -> Seq({"saved", "replayed", "refused"})]
  <2>1. /\ db.hash \in [Owners -> Passwords \cup {Nothing}] /\ db.knowing \in [Owners -> BOOLEAN]
        /\ db.answers \in [Procs -> Seq({"saved", "replayed", "refused"})]
    BY DEF CredentialsInv, CredentialTables
  <2>2. /\ hash \in [Owners -> Passwords \cup {Nothing}] /\ hash[o] = Call(p).password
        /\ \A x \in Owners \ {o} : hash[x] = db.hash[x]
    BY <1>1, <2>1
  <2>3. knowing \in [Owners -> BOOLEAN]
    BY <1>1, <2>1
  <2>4. answers \in [Procs -> Seq({"saved", "replayed", "refused"})]
    BY <2>1
  <2> QED
    BY <2>2, <2>3, <2>4
<1>3. /\ trail \in [Owners -> Seq(AuditEntry)]
      /\ \A x \in Owners \ {o} : trail[x] = db.trail[x]
      /\ \E n \in DOMAIN trail[o] : trail[o][n].password = Call(p).password
  <2>1. Entry(p, "save") \in AuditEntry /\ Entry(p, "save").password = Call(p).password
    BY <1>1, CredentialCall DEF Entry, AuditEntry
  <2>2. db.trail \in [Owners -> Seq(AuditEntry)] /\ db.trail[o] \in Seq(AuditEntry)
    BY <1>1, TrailsTyped
  <2> DEFINE log == Append(db.trail[o], Entry(p, "save"))
  <2>3. /\ log \in Seq(AuditEntry)
        /\ \E n \in DOMAIN log : log[n].password = Entry(p, "save").password
        /\ \A n \in DOMAIN db.trail[o] : n \in DOMAIN log /\ log[n] = db.trail[o][n]
    BY <2>1, <2>2, EntryIsLast
  <2> HIDE DEF log
  <2>4. trail = [db.trail EXCEPT ![o] = log]
    BY DEF log
  <2>5. trail \in [Owners -> Seq(AuditEntry)] /\ trail[o] = log /\ \A x \in Owners \ {o} : trail[x] = db.trail[x]
    BY <1>1, <2>2, <2>3, <2>4
  <2> QED
    BY <2>1, <2>3, <2>5
<1>4. Commit(p, tables)
  BY DEF SaveTx, SaveAnswers, CredentialsInv, CredentialTables
<1>5. /\ InControl(CredentialCalls)' /\ db' = tables /\ pc'[p] = 0
      /\ \A q \in Procs \ {p} : pc'[q] = pc[q] /\ calls'[q] = calls[q]
  BY <1>1, <1>4, IsAnswered DEF CredentialsInv
<1> HIDE DEF hash, knowing, answers
<1>6. /\ tables \in CredentialTables /\ tables.hash = hash /\ tables.logins = db.logins
      /\ tables.trail = trail /\ tables.lost = db.lost
  BY <1>2, <1>3 DEF CredentialsInv, CredentialTables, AuditEntry
<1> HIDE DEF tables
<1>7. Follows(o)'
  BY <1>2, <1>3, <1>5, <1>6 DEF Follows, Trail, InTrail
<1>8. \A x \in Owners \ {o} : db'.hash[x] = db.hash[x] /\ db'.trail[x] = db.trail[x] /\ db'.lost[x] = db.lost[x]
  BY <1>2, <1>3, <1>5, <1>6
<1> QED
  BY <1>1, <1>5, <1>6, <1>7, <1>8, OneAccountWritten

\* Once a password was set or saved, the one in use is in the audit log that refuses the
\* last passwords (generate, set and save of students, teachers and staff).
THEOREM PasswordsAreLogged == CredentialsSpec => []CredentialsSound
<1> DEFINE Inv == Of("credentials") => CredentialsInv
<1>1. CredentialsInit => Inv
  BY CredentialsStart DEF CredentialsInit
<1>2. Inv /\ [CredentialsNext]_handlerVars => Inv'
  <2> SUFFICES ASSUME Inv, [CredentialsNext]_handlerVars, Of("credentials")'
               PROVE  CredentialsInv'
    OBVIOUS
  <2>1. scene' = scene
    BY DEF CredentialsNext, Rest, handlerVars, Generate, SetStudent, SetTeacher, SetStaff, SetCheck, SetWrites,
           SaveStudent, SaveTeacher, SaveStaff, SaveCheck, SaveReplay, SaveHistory, SaveTx, SaveAnswers,
           Refuse, Commit, ReadTo, WriteTo
  <2>2. CredentialsInv
    BY <2>1 DEF Of
  <2>3. CASE UNCHANGED handlerVars
    BY <2>2, <2>3 DEF handlerVars, CredentialsInv, InControl, LoginFirst, TrailFollows, Follows, Setter, InTrail, Trail, Call
  <2>4. ASSUME NEW p \in Procs,
               Generate(p) \/ SetStudent(p) \/ SetTeacher(p) \/ SetStaff(p) \/ SetWrites(p)
                 \/ SaveStudent(p) \/ SaveTeacher(p) \/ SaveStaff(p)
        PROVE  CredentialsInv'
    BY <2>2, <2>4, Generates, ChecksSet, WritesSet, ChecksSave, Saves
       DEF SetStudent, SetTeacher, SetStaff, SaveStudent, SaveTeacher, SaveStaff
  <2> QED
    BY <2>3, <2>4 DEF CredentialsNext, Rest
<1>3. Inv => CredentialsSound
  BY CredentialsInvHolds DEF CredentialsSound
<1> QED
  BY <1>1, <1>2, <1>3, PTL DEF CredentialsSpec

-----------------------------------------------------------------------------
(* Admissions                                                              *)

LEMMA MaxIsThere ==
    ASSUME NEW S \in SUBSET Nat, S # {}, NEW bound \in Nat, \A x \in S : x <= bound
    PROVE  Max(S) \in S
<1> DEFINE T == {y \in Nat : \E x \in S : y = bound - x}
           Less == {ss \in Nat \X Nat : ss[1] < ss[2]}
<1>1. T \subseteq Nat /\ T # {}
  <2>1. PICK x \in S : TRUE
    OBVIOUS
  <2>2. bound - x \in Nat
    OBVIOUS
  <2> QED
    BY <2>2
<1>2. IsWellFoundedOn(Less, Nat)
  BY NatLessThanWellFounded DEF OpToRel
<1>3. PICK m \in T : \A n \in T : ~(<<n, m>> \in Less)
  BY <1>1, <1>2, WFMin
<1>4. \A n \in T : m <= n
  <2> SUFFICES ASSUME NEW n \in T PROVE m <= n
    OBVIOUS
  <2>1. <<n, m>> \in Nat \X Nat /\ <<n, m>>[1] = n /\ <<n, m>>[2] = m
    BY <1>1
  <2>2. ~(n < m)
    BY <1>3, <2>1
  <2> QED
    BY <1>1, <2>2
<1>5. PICK x \in S : m = bound - x
  OBVIOUS
<1>6. \A y \in S : x >= y
  <2> SUFFICES ASSUME NEW y \in S PROVE x >= y
    OBVIOUS
  <2>1. bound - y \in T
    OBVIOUS
  <2> QED
    BY <1>4, <1>5, <2>1
<1> QED
  BY <1>6 DEF Max

Numbers == 1..MaxNumber
\* The step a handler is at, and what it has read.
Read(p) ==
    calls[p] # <<>> =>
        /\ Call(p).op = "admit" =>
              /\ pc[p] \in 0..7
              /\ pc[p] \in {3, 4} => loc[p].number \in Numbers
              /\ pc[p] \in {5, 6} => loc[p].number \in Numbers /\ loc[p].roll \in Nat \ {0}
              /\ pc[p] = 7 =>
                    /\ loc[p].student \in DOMAIN db.student
                    /\ Call(p).key # Nothing => db.student[loc[p].student].key = Call(p).key
        /\ Call(p).op = "depart" /\ pc[p] = 1 => loc[p] \in DOMAIN db.stays[Call(p).student]
Bounded(students) == \E n \in Nat : \A s \in DOMAIN students : students[s].roll <= n
AdmissionsInv ==
    /\ InControl(AdmissionCalls) /\ StudentsSound(db) /\ Bounded(db.student)
    /\ \A p \in Procs : Read(p)

\* Tables that no handler can miss something in: students keep their numbers and keys,
\* and stays are not forgotten.
Extends(d, e) ==
    /\ \A s \in DOMAIN d.student : s \in DOMAIN e.student /\ e.student[s].key = d.student[s].key
    /\ \A s \in 1..MaxStudents : \A n \in DOMAIN d.stays[s] : n \in DOMAIN e.stays[s]

LEMMA AdmissionsInvHolds == AdmissionsInv => AdmissionsTypeOK /\ OneStudentPerKey /\ LogTellsStatus
<1> SUFFICES ASSUME AdmissionsInv PROVE AdmissionsTypeOK /\ OneStudentPerKey /\ LogTellsStatus
  OBVIOUS
<1>1. StudentsSound(db)
  BY DEF AdmissionsInv
<1>2. AdmissionsTypeOK
  BY <1>1 DEF AdmissionsInv, InControl, AdmissionsTypeOK, HandlersTypeOK, StudentsSound
<1>3. OneStudentPerKey
  BY <1>1 DEF OneStudentPerKey, StudentsSound
<1>4. LogTellsStatus
  BY <1>1 DEF LogTellsStatus, StudentsSound, Here
<1> QED
  BY <1>2, <1>3, <1>4

LEMMA AdmissionsStart == HandlersInit /\ Of("admissions") => AdmissionsInv
<1> SUFFICES ASSUME HandlersInit, Of("admissions") PROVE AdmissionsInv
  OBVIOUS
<1>1. scene \in Scenes /\ scene.part = "admissions" /\ db = scene.db
  BY DEF HandlersInit, Of
<1>2. InControl(AdmissionCalls)
  BY <1>1, ControlStarts, AdmissionsSceneAssumption
<1>3. \A p \in Procs : Read(p)
  <2>1. \A p \in Procs : pc[p] = 0
    BY DEF HandlersInit
  <2> QED
    BY <2>1 DEF Read
<1>4. Bounded(db.student)
  BY <1>1, AdmissionsSceneAssumption, AdmissionBounds DEF Bounded
<1> QED
  BY <1>1, <1>2, <1>3, <1>4, AdmissionsSceneAssumption DEF AdmissionsInv

LEMMA AdmissionCall ==
    ASSUME AdmissionsInv, NEW p \in Procs, calls[p] # <<>>
    PROVE  /\ Call(p) \in AdmissionCalls
           /\ Call(p).op = "admit" => /\ Call(p).key \in AdmitKeys \cup {Nothing} /\ Call(p).name \in Names
                                     /\ Call(p).klass \in Classes /\ Call(p).guardian \in Names \cup {Nothing}
           /\ Call(p).op # "admit" => Call(p).student \in 1..MaxStudents
           /\ Call(p).op = "status" => Call(p).to \in {"ACTIVE", "WITHDRAWN"}
           /\ Call(p).op = "move" => Call(p).klass \in Classes
<1>1. Call(p) \in AdmissionCalls
  BY CallTyped DEF AdmissionsInv
<1> QED
  BY <1>1 DEF AdmissionCalls

\* One handler makes a step, to tables as sound as those before.
LEMMA HandlerSteps ==
    ASSUME AdmissionsInv, NEW p \in Procs, InControl(AdmissionCalls)',
           StudentsSound(db)', Bounded(db.student)', Extends(db, db'),
           \A q \in Procs \ {p} : calls'[q] = calls[q] /\ pc'[q] = pc[q] /\ loc'[q] = loc[q],
           Read(p)'
    PROVE  AdmissionsInv'
<1>1. ASSUME NEW q \in Procs \ {p} PROVE Read(q)'
  <2> SUFFICES ASSUME calls[q] # <<>> PROVE Read(q)'
    BY DEF Read
  <2>1. Read(q) /\ Call(q)' = Call(q)
    BY DEF AdmissionsInv, Call
  <2>2. Call(q).op = "depart" => Call(q).student \in 1..MaxStudents
    BY AdmissionCall
  <2> QED
    BY <2>1, <2>2 DEF Read, Extends
<1> QED
  BY <1>1 DEF AdmissionsInv

LEMMA ExtendsItself == \A d : Extends(d, d)
BY DEF Extends

\* It reads, ...
LEMMA AdmissionReads ==
    ASSUME AdmissionsInv, NEW p \in Procs, calls[p] # <<>>, NEW n \in 0..16, NEW saw, ReadTo(p, n, saw),
           calls'[p] = calls[p] /\ pc'[p] = n /\ loc'[p] = saw /\ db' = db => Read(p)'
    PROVE  AdmissionsInv'
<1>1. /\ InControl(AdmissionCalls)' /\ calls' = calls /\ db' = db
      /\ pc'[p] = n /\ \A q \in Procs \ {p} : pc'[q] = pc[q]
  BY ReadsOn DEF AdmissionsInv
<1>2. loc'[p] = saw /\ \A q \in Procs \ {p} : loc'[q] = loc[q]
  BY DEF ReadTo, AdmissionsInv, InControl
<1> QED
  BY <1>1, <1>2, HandlerSteps, ExtendsItself DEF AdmissionsInv

\* ... writes and goes on, ...
LEMMA AdmissionWrites ==
    ASSUME AdmissionsInv, NEW p \in Procs, calls[p] # <<>>, NEW n \in 0..16, NEW tables, WriteTo(p, n, tables),
           StudentsSound(tables), Bounded(tables.student), Extends(db, tables),
           calls'[p] = calls[p] /\ pc'[p] = n /\ loc' = loc /\ db' = tables => Read(p)'
    PROVE  AdmissionsInv'
<1>1. /\ InControl(AdmissionCalls)' /\ calls' = calls /\ db' = tables /\ loc' = loc
      /\ pc'[p] = n /\ \A q \in Procs \ {p} : pc'[q] = pc[q]
  BY WritesOn DEF AdmissionsInv, WriteTo
<1> QED
  BY <1>1, HandlerSteps

\* ... or answers with a last write, or without one.
LEMMA AdmissionAnswers ==
    ASSUME AdmissionsInv, NEW p \in Procs, calls[p] # <<>>, NEW tables, Commit(p, tables),
           StudentsSound(tables), Bounded(tables.student), Extends(db, tables)
    PROVE  AdmissionsInv'
<1>1. /\ InControl(AdmissionCalls)' /\ db' = tables /\ pc'[p] = 0
      /\ \A q \in Procs \ {p} : pc'[q] = pc[q] /\ calls'[q] = calls[q]
  BY IsAnswered DEF AdmissionsInv
<1>2. \A q \in Procs \ {p} : loc'[q] = loc[q]
  BY DEF Commit, AdmissionsInv, InControl
<1>3. Read(p)'
  BY <1>1 DEF Read
<1> QED
  BY <1>1, <1>2, <1>3, HandlerSteps
LEMMA AdmissionRefuses ==
    ASSUME AdmissionsInv, NEW p \in Procs, calls[p] # <<>>, Refuse(p)
    PROVE  AdmissionsInv'
BY AdmissionAnswers, ExtendsItself DEF Refuse, AdmissionsInv

-----------------------------------------------------------------------------
\* What tables have to keep to stay sound.
LEMMA SoundStill ==
    ASSUME NEW d, NEW e, StudentsSound(d), Bounded(d.student), e \in StudentTables,
           Len(e.student) = Len(d.student),
           \A s \in DOMAIN d.student : e.student[s].key = d.student[s].key /\ e.student[s].roll = d.student[s].roll,
           d.gone \subseteq e.gone,
           \A a \in e.answers : a \in d.answers \/ (a.key # Nothing /\ ~a.twin =>
               a.student \in DOMAIN d.student /\ d.student[a.student].key = a.key),
           \A s \in DOMAIN d.student :
               \/ e.log[s] = d.log[s] /\ e.student[s].status = d.student[s].status
               \/ e.log[s][Len(e.log[s])] = e.student[s].status,
           \A s \in 1..MaxStudents : s \notin DOMAIN d.student => e.log[s] = d.log[s],
           \A s \in 1..MaxStudents : \A n \in DOMAIN d.stays[s] : n \in DOMAIN e.stays[s]
    PROVE  StudentsSound(e) /\ Bounded(e.student) /\ Extends(d, e)
<1>1. DOMAIN e.student = DOMAIN d.student /\ d \in StudentTables
  <2>1. d.student \in Seq(StudentRow) /\ e.student \in Seq(StudentRow)
    BY DEF StudentTables, StudentsSound
  <2> QED
    BY <2>1 DEF StudentsSound
<1>2. Extends(d, e)
  BY <1>1 DEF Extends
<1>3. Bounded(e.student)
  BY <1>1 DEF Bounded
<1>4. \A s, t \in DOMAIN e.student \ e.gone :
          e.student[s].key = e.student[t].key /\ e.student[s].key # Nothing => s = t
  BY <1>1 DEF StudentsSound
<1>5. \A a \in e.answers : a.key # Nothing /\ ~a.twin =>
          a.student \in DOMAIN e.student /\ e.student[a.student].key = a.key
  BY <1>1 DEF StudentsSound
<1>6. \A s \in DOMAIN e.student \ e.gone :
          e.log[s] # <<>> => e.log[s][Len(e.log[s])] = e.student[s].status
  BY <1>1 DEF StudentsSound
<1>7. \A s \in 1..MaxStudents : s \notin DOMAIN e.student => e.log[s] = <<>>
  BY <1>1 DEF StudentsSound
<1>8. Len(e.student) <= MaxStudents
  BY DEF StudentsSound
<1> QED
  BY <1>2, <1>3, <1>4, <1>5, <1>6, <1>7, <1>8 DEF StudentsSound

\* What the tables say of a student that is here.
LEMMA HereTyped ==
    ASSUME AdmissionsInv
    PROVE  /\ db \in StudentTables /\ db.student \in Seq(StudentRow) /\ Len(db.student) \in Nat
           /\ DOMAIN db.student = 1..Len(db.student) /\ DOMAIN db.student \subseteq 1..MaxStudents
           /\ \A s \in DOMAIN db.student : db.student[s] \in StudentRow
<1>1. db \in StudentTables /\ Len(db.student) <= MaxStudents
  BY DEF AdmissionsInv, StudentsSound
<1>2. db.student \in Seq(StudentRow)
  BY <1>1 DEF StudentTables
<1>3. /\ Len(db.student) \in Nat /\ DOMAIN db.student = 1..Len(db.student)
      /\ \A s \in DOMAIN db.student : db.student[s] \in StudentRow
  BY <1>2
<1>4. DOMAIN db.student \subseteq 1..MaxStudents
  BY <1>1, <1>3, AdmissionBounds
<1> QED
  BY <1>1, <1>2, <1>3, <1>4

\* An answer names a student, and of its key unless it is the twin of another.
LEMMA AnswerGiven ==
    ASSUME AdmissionsInv, NEW p \in Procs, calls[p] # <<>>, Call(p).op = "admit",
           NEW s \in DOMAIN db.student, NEW twin \in BOOLEAN,
           Call(p).key # Nothing /\ ~twin => db.student[s].key = Call(p).key,
           Answers(p, db, s, twin)
    PROVE  AdmissionsInv'
<1> PICK a : a = [key |-> Call(p).key, student |-> s, twin |-> twin]
  OBVIOUS
<1>1. a \in [key : AdmitKeys \cup {Nothing}, student : 1..MaxStudents, twin : BOOLEAN]
  BY AdmissionCall, HereTyped
<1> PICK tables : tables = [db EXCEPT !.answers = @ \cup {a}]
  OBVIOUS
<1>2. /\ tables \in StudentTables /\ tables.student = db.student /\ tables.log = db.log /\ tables.gone = db.gone
      /\ tables.stays = db.stays /\ tables.answers = db.answers \cup {a}
  BY <1>1, HereTyped DEF StudentTables
<1>3. a.key # Nothing /\ ~a.twin => a.student \in DOMAIN db.student /\ db.student[a.student].key = a.key
  OBVIOUS
<1>4. StudentsSound(tables) /\ Bounded(tables.student) /\ Extends(db, tables)
  BY <1>2, <1>3, SoundStill DEF AdmissionsInv
<1>5. Commit(p, tables)
  BY DEF Answers
<1> QED
  BY <1>4, <1>5, AdmissionAnswers

LEMMA AdmitsReplay == ASSUME AdmissionsInv, NEW p \in Procs, AdmitReplay(p) PROVE AdmissionsInv'
<1>1. calls[p] # <<>> /\ Call(p).op = "admit" /\ pc[p] = 0
  BY DEF AdmitReplay, At
<1>2. ASSUME NEW s \in WithKey(Call(p).key), Answers(p, db, s, FALSE) PROVE AdmissionsInv'
  BY <1>1, <1>2, AnswerGiven DEF WithKey, Here
<1>3. CASE ReadTo(p, 1, {})
  BY <1>1, <1>3, AdmissionReads DEF Read, Call
<1> QED
  BY <1>2, <1>3 DEF AdmitReplay

LEMMA AdmitsTwin == ASSUME AdmissionsInv, NEW p \in Procs, AdmitTwin(p) PROVE AdmissionsInv'
<1>1. calls[p] # <<>> /\ Call(p).op = "admit" /\ pc[p] = 1
  BY DEF AdmitTwin, At
<1>2. ASSUME NEW s \in Twins(p), Answers(p, db, s, TRUE) PROVE AdmissionsInv'
  BY <1>1, <1>2, AnswerGiven DEF Twins, Here
<1>3. CASE ReadTo(p, 2, {})
  BY <1>1, <1>3, AdmissionReads DEF Read, Call
<1> QED
  BY <1>2, <1>3 DEF AdmitTwin

LEMMA AdmitsNumber == ASSUME AdmissionsInv, NEW p \in Procs, AdmitNumber(p) PROVE AdmissionsInv'
<1>1. calls[p] # <<>> /\ Call(p).op = "admit" /\ pc[p] = 2 /\ db.next <= MaxNumber
  BY DEF AdmitNumber, At
<1>2. db \in StudentTables /\ db.next \in 1..MaxNumber
  BY <1>1, HereTyped, AdmissionBounds DEF StudentTables
<1> PICK tables : tables = [db EXCEPT !.next = @ + 1]
  OBVIOUS
<1>3. /\ tables \in StudentTables /\ tables.student = db.student /\ tables.log = db.log /\ tables.gone = db.gone
      /\ tables.stays = db.stays /\ tables.answers = db.answers
  <2>1. db.next + 1 \in 1..(MaxNumber + 1)
    BY <1>2, AdmissionBounds
  <2>2. tables = [db EXCEPT !.next = db.next + 1]
    OBVIOUS
  <2> QED
    BY <1>2, <2>1, <2>2 DEF StudentTables
<1>4. StudentsSound(tables) /\ Bounded(tables.student) /\ Extends(db, tables)
  BY <1>3, SoundStill DEF AdmissionsInv
<1>5. /\ db' = tables /\ pc' = [pc EXCEPT ![p] = 3] /\ loc' = [loc EXCEPT ![p] = [number |-> db.next]] /\ UNCHANGED <<calls, scene>>
  BY DEF AdmitNumber
<1>6. /\ loc' = [q \in Procs |-> loc'[q]] /\ loc'[p] = [number |-> db.next] /\ \A q \in Procs \ {p} : loc'[q] = loc[q]
  BY <1>5 DEF AdmissionsInv, InControl
<1>7. InControl(AdmissionCalls)' /\ pc'[p] = 3 /\ \A q \in Procs \ {p} : pc'[q] = pc[q]
  <2>1. 3 \in 0..16
    OBVIOUS
  <2> QED
    BY <1>1, <1>5, <1>6, <2>1, GoesOn DEF AdmissionsInv
<1>8. Read(p)'
  BY <1>1, <1>2, <1>5, <1>6, <1>7 DEF Read, Numbers, Call
<1> QED
  BY <1>4, <1>5, <1>6, <1>7, <1>8, HandlerSteps

LEMMA AdmitsWalk == ASSUME AdmissionsInv, NEW p \in Procs, AdmitWalk(p) PROVE AdmissionsInv'
<1>1. calls[p] # <<>> /\ Call(p).op = "admit" /\ pc[p] = 3 /\ loc[p].number \in Numbers
  BY DEF AdmitWalk, At, AdmissionsInv, Read
<1>2. CASE ReadTo(p, 4, loc[p])
  <2>1. 4 \in 0..16
    OBVIOUS
  <2> QED
    BY <1>1, <1>2, <2>1, AdmissionReads DEF Read, Call
<1>3. CASE loc[p].number < MaxNumber /\ ReadTo(p, 3, [number |-> loc[p].number + 1])
  <2>1. 3 \in 0..16 /\ loc[p].number + 1 \in Numbers
    BY <1>1, <1>3, AdmissionBounds DEF Numbers
  <2> QED
    BY <1>1, <1>3, <2>1, AdmissionReads DEF Read, Call
<1>4. CASE Refuse(p)
  BY <1>1, <1>4, AdmissionRefuses
<1> QED
  BY <1>2, <1>3, <1>4 DEF AdmitWalk

LEMMA AdmitsRoll == ASSUME AdmissionsInv, NEW p \in Procs, AdmitRoll(p) PROVE AdmissionsInv'
<1>1. calls[p] # <<>> /\ Call(p).op = "admit" /\ pc[p] = 4 /\ loc[p].number \in Numbers
  BY DEF AdmitRoll, At, AdmissionsInv, Read
<1> DEFINE taken == Rolls(Call(p).klass) \cup {0}
<1>2. PICK n \in Nat : \A s \in DOMAIN db.student : db.student[s].roll <= n
  BY DEF AdmissionsInv, Bounded
<1>3. taken \in SUBSET Nat /\ taken # {} /\ \A x \in taken : x <= n
  BY <1>2, HereTyped DEF Rolls, Here, StudentRow
<1>4. Max(taken) \in Nat
  BY <1>3, MaxIsThere
<1> DEFINE saw == [number |-> loc[p].number, roll |-> Max(taken) + 1]
<1>5. ReadTo(p, 5, saw)
  BY DEF AdmitRoll
<1>6. saw.number \in Numbers /\ saw.roll \in Nat \ {0} /\ 5 \in 0..16
  BY <1>1, <1>4
<1> HIDE DEF saw, taken
<1> QED
  BY <1>1, <1>5, <1>6, AdmissionReads DEF Read, Call

LEMMA AdmitsPerson == ASSUME AdmissionsInv, NEW p \in Procs, AdmitPerson(p) PROVE AdmissionsInv'
<1>1. /\ calls[p] # <<>> /\ Call(p).op = "admit" /\ pc[p] = 5
      /\ loc[p].number \in Numbers /\ loc[p].roll \in Nat \ {0}
  BY DEF AdmitPerson, At, AdmissionsInv, Read
<1>2. CASE Refuse(p)
  BY <1>1, <1>2, AdmissionRefuses
<1>3. CASE WriteTo(p, 6, [db EXCEPT !.person = @ \cup {loc[p].number}])
  <2> PICK tables : tables = [db EXCEPT !.person = @ \cup {loc[p].number}]
    OBVIOUS
  <2>1. /\ tables \in StudentTables /\ tables.student = db.student /\ tables.log = db.log /\ tables.gone = db.gone
        /\ tables.stays = db.stays /\ tables.answers = db.answers
    BY <1>1, HereTyped DEF StudentTables, Numbers
  <2>2. StudentsSound(tables) /\ Bounded(tables.student) /\ Extends(db, tables)
    BY <2>1, SoundStill DEF AdmissionsInv
  <2>3. 6 \in 0..16
    OBVIOUS
  <2>4. ASSUME calls'[p] = calls[p], pc'[p] = 6, loc' = loc PROVE Read(p)'
    BY <1>1, <2>4 DEF Read, Call
  <2> QED
    BY <1>1, <1>3, <2>2, <2>3, <2>4, AdmissionWrites
<1> QED
  BY <1>2, <1>3 DEF AdmitPerson

\* The row of a student is replaced by one of the same key and roll.
LEMMA RowReplaced ==
    ASSUME AdmissionsInv, NEW s \in DOMAIN db.student, NEW row \in StudentRow
    PROVE  LET students == [db.student EXCEPT ![s] = row] IN
           /\ students \in Seq(StudentRow) /\ Len(students) = Len(db.student)
           /\ students[s] = row /\ \A t \in DOMAIN db.student \ {s} : students[t] = db.student[t]
BY HereTyped

\* The first student of a key, or its second insertion.
LEMMA AdmitsInsert == ASSUME AdmissionsInv, NEW p \in Procs, AdmitInsert(p) PROVE AdmissionsInv'
<1>1. /\ calls[p] # <<>> /\ Call(p).op = "admit" /\ pc[p] = 6 /\ Len(db.student) < MaxStudents
      /\ loc[p].number \in Numbers /\ loc[p].roll \in Nat \ {0}
  BY DEF AdmitInsert, At, AdmissionsInv, Read
<1>2. CASE Refuse(p)
  BY <1>1, <1>2, AdmissionRefuses
<1>3. ASSUME NEW s \in WithKey(Call(p).key), ReadTo(p, 7, [student |-> s]) PROVE AdmissionsInv'
  <2>1. s \in DOMAIN db.student /\ db.student[s].key = Call(p).key /\ 7 \in 0..16
    BY DEF WithKey, Here
  <2> QED
    BY <1>1, <1>3, <2>1, AdmissionReads DEF Read, Call
<1>4. CASE Insert(p) /\ WithKey(Call(p).key) = {}
  <2> PICK row : row = NewStudent(p)
    OBVIOUS
  <2> PICK key : key = Call(p).key
    OBVIOUS
  <2> PICK m : m = Len(db.student) + 1
    OBVIOUS
  <2> PICK tables : tables = [db EXCEPT !.student = Append(db.student, row)]
    OBVIOUS
  <2>1. row \in StudentRow /\ row.key = key /\ row.status = "ACTIVE" /\ row.roll = loc[p].roll
    BY <1>1, AdmissionCall DEF NewStudent, StudentRow, Numbers
  <2>2. /\ tables \in StudentTables /\ tables.student = Append(db.student, row) /\ tables.log = db.log
        /\ tables.gone = db.gone /\ tables.stays = db.stays /\ tables.answers = db.answers
    <3>1. Append(db.student, row) \in Seq(StudentRow) /\ db \in StudentTables
      BY <2>1, HereTyped
    <3> QED
      BY <3>1 DEF StudentTables
  <2>3. /\ m \in Nat /\ m <= MaxStudents /\ m \notin DOMAIN db.student /\ m \in 1..MaxStudents
        /\ Len(tables.student) = m /\ DOMAIN tables.student = DOMAIN db.student \cup {m}
        /\ tables.student[m] = row /\ \A s \in DOMAIN db.student : tables.student[s] = db.student[s]
    BY <1>1, <2>1, <2>2, HereTyped, AdmissionBounds
  <2>4. Extends(db, tables)
    BY <2>2, <2>3 DEF Extends
  <2>5. Bounded(tables.student)
    <3>1. PICK n \in Nat : \A s \in DOMAIN db.student : db.student[s].roll <= n
      BY DEF AdmissionsInv, Bounded
    <3>2. \A s \in DOMAIN tables.student : tables.student[s].roll <= n + row.roll
      BY <1>1, <2>1, <2>3, <3>1, HereTyped DEF StudentRow
    <3>3. n + row.roll \in Nat
      BY <1>1, <2>1
    <3> QED
      BY <3>2, <3>3 DEF Bounded
  <2>6. StudentsSound(tables)
    <3>1. \A s \in DOMAIN db.student \ db.gone : db.student[s].key = key => key = Nothing
      BY <1>4 DEF WithKey, Here
    <3>2. \A s, t \in DOMAIN tables.student \ tables.gone :
             tables.student[s].key = tables.student[t].key /\ tables.student[s].key # Nothing => s = t
      BY <2>1, <2>2, <2>3, <3>1 DEF AdmissionsInv, StudentsSound
    <3>3. \A a \in tables.answers : a.key # Nothing /\ ~a.twin =>
             a.student \in DOMAIN tables.student /\ tables.student[a.student].key = a.key
      BY <2>2, <2>3 DEF AdmissionsInv, StudentsSound
    <3>4. db.log[m] = <<>>
      BY <2>3 DEF AdmissionsInv, StudentsSound
    <3>5. \A s \in DOMAIN tables.student \ tables.gone :
             tables.log[s] # <<>> => tables.log[s][Len(tables.log[s])] = tables.student[s].status
      BY <2>2, <2>3, <3>4 DEF AdmissionsInv, StudentsSound
    <3>6. \A s \in 1..MaxStudents : s \notin DOMAIN tables.student => tables.log[s] = <<>>
      BY <2>2, <2>3 DEF AdmissionsInv, StudentsSound
    <3> QED
      BY <2>2, <2>3, <3>2, <3>3, <3>5, <3>6 DEF StudentsSound
  <2>7. /\ db' = tables /\ pc' = [pc EXCEPT ![p] = 7] /\ loc' = [loc EXCEPT ![p] = [student |-> m]] /\ UNCHANGED <<calls, scene>>
    BY <1>4 DEF Insert
  <2>8. /\ loc' = [q \in Procs |-> loc'[q]] /\ loc'[p].student = m /\ \A q \in Procs \ {p} : loc'[q] = loc[q]
    BY <2>7 DEF AdmissionsInv, InControl
  <2>9. InControl(AdmissionCalls)' /\ pc'[p] = 7 /\ \A q \in Procs \ {p} : pc'[q] = pc[q]
    <3>1. 7 \in 0..16 /\ InControl(AdmissionCalls)
      BY DEF AdmissionsInv
    <3>2. pc' = [pc EXCEPT ![p] = 7] /\ UNCHANGED <<calls, scene>>
      BY <2>7
    <3> QED
      BY <1>1, <2>8, <3>1, <3>2, GoesOn
  <2>10. Read(p)'
    BY <1>1, <2>1, <2>3, <2>7, <2>8, <2>9 DEF Read, Call
  <2> QED
    BY <2>4, <2>5, <2>6, <2>7, <2>8, <2>9, <2>10, HandlerSteps
<1> QED
  BY <1>2, <1>3, <1>4 DEF AdmitInsert

LEMMA AdmitsGuardian == ASSUME AdmissionsInv, NEW p \in Procs, AdmitGuardian(p) PROVE AdmissionsInv'
<1> PICK s : s = loc[p].student
  OBVIOUS
<1> PICK g : g = Call(p).guardian
  OBVIOUS
<1>1. /\ calls[p] # <<>> /\ Call(p).op = "admit" /\ pc[p] = 7 /\ s \in DOMAIN db.student
      /\ Call(p).key # Nothing => db.student[s].key = Call(p).key
  BY DEF AdmitGuardian, At, AdmissionsInv, Read
<1>2. CASE Answers(p, db, s, FALSE)
  BY <1>1, <1>2, AnswerGiven
<1>3. CASE /\ g # Nothing /\ s \in Here /\ db.student[s].links < 3
           /\ Answers(p, [db EXCEPT !.student[s].kin = @ \cup {g}, !.student[s].links = @ + 1], s, FALSE)
  <2>10. PICK a : a = [key |-> Call(p).key, student |-> s, twin |-> FALSE]
    OBVIOUS
  <2>11. PICK row : row = [db.student[s] EXCEPT !.kin = @ \cup {g}, !.links = @ + 1]
    OBVIOUS
  <2>12. PICK students : students = [db.student EXCEPT ![s] = row]
    OBVIOUS
  <2>13. PICK tables : tables = [db EXCEPT !.student = students, !.answers = @ \cup {a}]
    OBVIOUS
  <2>1. a \in [key : AdmitKeys \cup {Nothing}, student : 1..MaxStudents, twin : BOOLEAN]
    BY <1>1, <2>10, AdmissionCall, HereTyped
  <2>2. row \in StudentRow /\ row.key = db.student[s].key /\ row.roll = db.student[s].roll /\ row.status = db.student[s].status
    <3>1. db.student[s] \in StudentRow
      BY <1>1, HereTyped
    <3>2. db.student[s].links + 1 \in 0..3 /\ db.student[s].kin \cup {g} \in SUBSET Names
      BY <1>1, <1>3, <3>1, AdmissionCall DEF StudentRow
    <3> QED
      BY <2>11, <3>1, <3>2 DEF StudentRow
  <2>3. /\ students \in Seq(StudentRow) /\ Len(students) = Len(db.student)
        /\ students[s] = row /\ \A t \in DOMAIN db.student \ {s} : students[t] = db.student[t]
    BY <1>1, <2>2, <2>12, RowReplaced
  <2>4. Commit(p, tables)
    <3>1. db \in StudentTables /\ db.student \in Seq(StudentRow) /\ db.student[s] \in StudentRow
      BY <1>1, HereTyped
    <3>2. [db EXCEPT !.student[s].kin = @ \cup {g}, !.student[s].links = @ + 1] = [db EXCEPT !.student = students]
      BY <1>1, <2>11, <2>12, <3>1 DEF StudentTables, StudentRow
    <3>3. Answers(p, [db EXCEPT !.student = students], s, FALSE)
      BY <1>3, <3>2
    <3>4. [[db EXCEPT !.student = students] EXCEPT !.answers = @ \cup {a}] = tables
      BY <2>13
    <3> QED
      BY <2>10, <3>3, <3>4 DEF Answers
  <2>5. /\ tables \in StudentTables /\ tables.student = students /\ tables.log = db.log /\ tables.gone = db.gone
        /\ tables.stays = db.stays /\ tables.answers = db.answers \cup {a}
    BY <2>1, <2>3, <2>13, HereTyped DEF StudentTables
  <2>6. \A t \in DOMAIN db.student : /\ students[t].key = db.student[t].key /\ students[t].roll = db.student[t].roll
                                     /\ students[t].status = db.student[t].status
    BY <2>2, <2>3
  <2>7. \A x \in tables.answers : x \in db.answers \/ (x.key # Nothing /\ ~x.twin =>
             x.student \in DOMAIN db.student /\ db.student[x.student].key = x.key)
    BY <1>1, <2>5, <2>10
  <2>8. StudentsSound(tables) /\ Bounded(tables.student) /\ Extends(db, tables)
    <3>1. StudentsSound(db) /\ Bounded(db.student) /\ tables \in StudentTables /\ Len(tables.student) = Len(db.student)
      BY <2>3, <2>5 DEF AdmissionsInv
    <3>2. \A t \in DOMAIN db.student :
             /\ tables.student[t].key = db.student[t].key /\ tables.student[t].roll = db.student[t].roll
             /\ tables.log[t] = db.log[t] /\ tables.student[t].status = db.student[t].status
      BY <2>5, <2>6
    <3>3. /\ db.gone \subseteq tables.gone
          /\ \A t \in 1..MaxStudents : tables.log[t] = db.log[t]
          /\ \A t \in 1..MaxStudents : \A n \in DOMAIN db.stays[t] : n \in DOMAIN tables.stays[t]
      BY <2>5
    <3> QED
      BY <2>7, <3>1, <3>2, <3>3, SoundStill
  <2> QED
    BY <1>1, <2>4, <2>8, AdmissionAnswers
<1>4. CASE Refuse(p)
  BY <1>1, <1>4, AdmissionRefuses
<1> QED
  BY <1>2, <1>3, <1>4 DEF AdmitGuardian

\* The status and its log change together.
LEMMA SetsStatus == ASSUME AdmissionsInv, NEW p \in Procs, SetStatus(p) PROVE AdmissionsInv'
<1> PICK s : s = Call(p).student
  OBVIOUS
<1> PICK to : to = Call(p).to
  OBVIOUS
<1>1. calls[p] # <<>> /\ Call(p).op = "status" /\ s \in 1..MaxStudents /\ to \in {"ACTIVE", "WITHDRAWN"}
  BY AdmissionCall DEF SetStatus, At
<1>2. CASE Refuse(p)
  BY <1>1, <1>2, AdmissionRefuses
<1>3. CASE ReadTo(p, 1, {})
  BY <1>1, <1>3, AdmissionReads DEF Read, Call
<1>4. CASE s \in Here /\ Commit(p, Logged(s, to))
  <2>10. PICK row : row = [db.student[s] EXCEPT !.status = to]
    OBVIOUS
  <2>11. PICK students : students = [db.student EXCEPT ![s] = row]
    OBVIOUS
  <2>12. PICK trail : trail = Append(db.log[s], to)
    OBVIOUS
  <2>13. PICK logs : logs = [db.log EXCEPT ![s] = trail]
    OBVIOUS
  <2>14. PICK tables : tables = [db EXCEPT !.student = students, !.log = logs]
    OBVIOUS
  <2>1. /\ db \in StudentTables /\ db.student \in Seq(StudentRow) /\ s \in DOMAIN db.student /\ db.student[s] \in StudentRow
        /\ db.log \in [1..MaxStudents -> Seq({"ACTIVE", "WITHDRAWN"})] /\ db.log[s] \in Seq({"ACTIVE", "WITHDRAWN"})
    BY <1>1, <1>4, HereTyped DEF Here, StudentTables
  <2>2. row \in StudentRow /\ row.key = db.student[s].key /\ row.roll = db.student[s].roll /\ row.status = to
    BY <1>1, <2>1, <2>10 DEF StudentRow
  <2>3. /\ students \in Seq(StudentRow) /\ Len(students) = Len(db.student)
        /\ students[s] = row /\ \A t \in DOMAIN db.student \ {s} : students[t] = db.student[t]
    BY <2>1, <2>2, <2>11, RowReplaced
  <2>4. /\ trail \in Seq({"ACTIVE", "WITHDRAWN"}) /\ trail[Len(trail)] = to
    BY <1>1, <2>1, <2>12
  <2>5. /\ logs \in [1..MaxStudents -> Seq({"ACTIVE", "WITHDRAWN"})] /\ logs[s] = trail
        /\ \A t \in 1..MaxStudents \ {s} : logs[t] = db.log[t]
    BY <1>1, <2>1, <2>4, <2>13
  <2>6. Logged(s, to) = tables
    BY <2>1, <2>10, <2>11, <2>12, <2>13, <2>14 DEF Logged, StudentTables
  <2>7. /\ tables \in StudentTables /\ tables.student = students /\ tables.log = logs /\ tables.gone = db.gone
        /\ tables.stays = db.stays /\ tables.answers = db.answers
    BY <2>1, <2>3, <2>5, <2>14 DEF StudentTables
  <2>8. StudentsSound(tables) /\ Bounded(tables.student) /\ Extends(db, tables)
    <3>1. StudentsSound(db) /\ Bounded(db.student) /\ tables \in StudentTables /\ Len(tables.student) = Len(db.student)
      BY <2>3, <2>7 DEF AdmissionsInv
    <3>2. \A t \in DOMAIN db.student :
             tables.student[t].key = db.student[t].key /\ tables.student[t].roll = db.student[t].roll
      BY <2>2, <2>3, <2>7
    <3>3. \A t \in DOMAIN db.student :
             \/ tables.log[t] = db.log[t] /\ tables.student[t].status = db.student[t].status
             \/ tables.log[t][Len(tables.log[t])] = tables.student[t].status
      <4>1. \A t \in DOMAIN db.student \ {s} : t \in 1..MaxStudents \ {s}
        BY HereTyped
      <4> QED
        BY <2>2, <2>3, <2>4, <2>5, <2>7, <4>1
    <3>4. /\ db.gone \subseteq tables.gone /\ tables.answers \subseteq db.answers
          /\ \A t \in 1..MaxStudents : t \notin DOMAIN db.student => tables.log[t] = db.log[t]
          /\ \A t \in 1..MaxStudents : \A n \in DOMAIN db.stays[t] : n \in DOMAIN tables.stays[t]
      BY <2>1, <2>5, <2>7
    <3> QED
      BY <3>1, <3>2, <3>3, <3>4, SoundStill
  <2> QED
    BY <1>1, <1>4, <2>6, <2>8, AdmissionAnswers
<1> QED
  BY <1>2, <1>3, <1>4 DEF SetStatus

LEMMA Attends == ASSUME AdmissionsInv, NEW p \in Procs, Attend(p) PROVE AdmissionsInv'
<1> PICK s : s = Call(p).student
  OBVIOUS
<1>1. calls[p] # <<>> /\ Call(p).op = "attend" /\ s \in 1..MaxStudents
  BY AdmissionCall DEF Attend, At
<1>2. CASE Refuse(p)
  BY <1>1, <1>2, AdmissionRefuses
<1>3. CASE Commit(p, [db EXCEPT !.attended = @ \cup {s}])
  <2> PICK tables : tables = [db EXCEPT !.attended = @ \cup {s}]
    OBVIOUS
  <2>1. /\ tables \in StudentTables /\ tables.student = db.student /\ tables.log = db.log /\ tables.gone = db.gone
        /\ tables.stays = db.stays /\ tables.answers = db.answers
    BY <1>1, HereTyped DEF StudentTables
  <2>2. StudentsSound(tables) /\ Bounded(tables.student) /\ Extends(db, tables)
    BY <2>1, SoundStill DEF AdmissionsInv
  <2> QED
    BY <1>1, <1>3, <2>2, AdmissionAnswers
<1> QED
  BY <1>2, <1>3 DEF Attend

LEMMA DeletesStudent == ASSUME AdmissionsInv, NEW p \in Procs, DeleteStudent(p) PROVE AdmissionsInv'
<1> PICK s : s = Call(p).student
  OBVIOUS
<1>1. calls[p] # <<>> /\ Call(p).op = "delete" /\ s \in 1..MaxStudents
  BY AdmissionCall DEF DeleteStudent, At
<1>2. CASE Refuse(p)
  BY <1>1, <1>2, AdmissionRefuses
<1>3. CASE ReadTo(p, 1, {})
  BY <1>1, <1>3, AdmissionReads DEF Read, Call
<1>4. CASE Commit(p, [db EXCEPT !.gone = @ \cup {s}, !.attended = @ \ {s}])
  <2> PICK tables : tables = [db EXCEPT !.gone = @ \cup {s}, !.attended = @ \ {s}]
    OBVIOUS
  <2>1. /\ tables \in StudentTables /\ tables.student = db.student /\ tables.log = db.log
        /\ tables.gone = db.gone \cup {s} /\ tables.stays = db.stays /\ tables.answers = db.answers
    BY <1>1, HereTyped DEF StudentTables
  <2>2. StudentsSound(tables) /\ Bounded(tables.student) /\ Extends(db, tables)
    BY <2>1, SoundStill DEF AdmissionsInv
  <2> QED
    BY <1>1, <1>4, <2>2, AdmissionAnswers
<1> QED
  BY <1>2, <1>3, <1>4 DEF DeleteStudent

\* A tenure is opened or ended: no tenure is forgotten.
LEMMA StayWritten ==
    ASSUME AdmissionsInv, NEW p \in Procs, calls[p] # <<>>, NEW s \in 1..MaxStudents,
           NEW stay \in Seq({"open", "left"}), DOMAIN db.stays[s] \subseteq DOMAIN stay,
           Commit(p, [db EXCEPT !.stays = [db.stays EXCEPT ![s] = stay]])
    PROVE  AdmissionsInv'
<1> PICK stays : stays = [db.stays EXCEPT ![s] = stay]
  OBVIOUS
<1> PICK tables : tables = [db EXCEPT !.stays = stays]
  OBVIOUS
<1>1. db \in StudentTables /\ db.stays \in [1..MaxStudents -> Seq({"open", "left"})]
  BY HereTyped DEF StudentTables
<1>2. /\ stays \in [1..MaxStudents -> Seq({"open", "left"})] /\ stays[s] = stay
      /\ \A t \in 1..MaxStudents \ {s} : stays[t] = db.stays[t]
  BY <1>1
<1>3. /\ tables \in StudentTables /\ tables.student = db.student /\ tables.log = db.log /\ tables.gone = db.gone
      /\ tables.stays = stays /\ tables.answers = db.answers
  BY <1>1, <1>2 DEF StudentTables
<1>4. \A t \in 1..MaxStudents : \A n \in DOMAIN db.stays[t] : n \in DOMAIN tables.stays[t]
  BY <1>2, <1>3
<1>5. StudentsSound(tables) /\ Bounded(tables.student) /\ Extends(db, tables)
  BY <1>3, <1>4, SoundStill DEF AdmissionsInv
<1> QED
  BY <1>5, AdmissionAnswers

LEMMA StudentJoins == ASSUME AdmissionsInv, NEW p \in Procs, StudentJoin(p) PROVE AdmissionsInv'
<1> PICK s : s = Call(p).student
  OBVIOUS
<1>1. calls[p] # <<>> /\ Call(p).op = "enter" /\ s \in 1..MaxStudents
  BY AdmissionCall DEF StudentJoin, At
<1>2. CASE Refuse(p)
  BY <1>1, <1>2, AdmissionRefuses
<1>3. CASE ReadTo(p, 1, Len(db.stays[s]))
  BY <1>1, <1>3, AdmissionReads DEF Read, Call
<1>4. CASE Commit(p, [db EXCEPT !.stays[s] = Append(@, "open")])
  <2> PICK stay : stay = Append(db.stays[s], "open")
    OBVIOUS
  <2>1. db \in StudentTables /\ db.stays \in [1..MaxStudents -> Seq({"open", "left"})]
    BY HereTyped DEF StudentTables
  <2>2. stay \in Seq({"open", "left"}) /\ DOMAIN db.stays[s] \subseteq DOMAIN stay
    <3> PICK old : old = db.stays[s]
      OBVIOUS
    <3>1. old \in Seq({"open", "left"}) /\ stay = Append(old, "open")
      BY <1>1, <2>1
    <3> QED
      BY <3>1
  <2>3. Commit(p, [db EXCEPT !.stays = [db.stays EXCEPT ![s] = stay]])
    BY <1>4, <2>1
  <2> QED
    BY <1>1, <2>2, <2>3, StayWritten
<1> QED
  BY <1>2, <1>3, <1>4 DEF StudentJoin

\* The row that is ended is the one that was found open: it is still there.
LEMMA StudentLeaves == ASSUME AdmissionsInv, NEW p \in Procs, StudentLeave(p) PROVE AdmissionsInv'
<1> PICK s : s = Call(p).student
  OBVIOUS
<1>1. calls[p] # <<>> /\ Call(p).op = "depart" /\ s \in 1..MaxStudents
  BY AdmissionCall DEF StudentLeave, At
<1>2. db \in StudentTables /\ db.stays[s] \in Seq({"open", "left"})
  BY <1>1, HereTyped DEF StudentTables
<1> DEFINE open == {n \in DOMAIN db.stays[s] : db.stays[s][n] = "open"}
<1>3. CASE Refuse(p)
  BY <1>1, <1>3, AdmissionRefuses
<1>4. CASE open # {} /\ ReadTo(p, 1, Max(open))
  <2>1. open \in SUBSET Nat /\ Len(db.stays[s]) \in Nat /\ \A n \in open : n <= Len(db.stays[s])
    BY <1>2
  <2>2. Max(open) \in open
    BY <1>4, <2>1, MaxIsThere
  <2> PICK last : last = Max(open)
    OBVIOUS
  <2>3. last \in DOMAIN db.stays[s] /\ ReadTo(p, 1, last) /\ 1 \in 0..16
    BY <1>4, <2>2
  <2>4. ASSUME calls'[p] = calls[p], pc'[p] = 1, loc'[p] = last, db' = db PROVE Read(p)'
    BY <1>1, <2>3, <2>4 DEF Read, Call
  <2> HIDE DEF open
  <2> QED
    BY <1>1, <2>3, <2>4, AdmissionReads
<1>5. CASE pc[p] = 1 /\ Commit(p, [db EXCEPT !.stays[s][loc[p]] = "left"])
  <2> PICK stay : stay = [db.stays[s] EXCEPT ![loc[p]] = "left"]
    OBVIOUS
  <2>1. loc[p] \in DOMAIN db.stays[s]
    BY <1>1, <1>5 DEF AdmissionsInv, Read
  <2>2. stay \in Seq({"open", "left"}) /\ DOMAIN db.stays[s] \subseteq DOMAIN stay
    <3> PICK old : old = db.stays[s]
      OBVIOUS
    <3>1. old \in Seq({"open", "left"}) /\ loc[p] \in DOMAIN old /\ stay = [old EXCEPT ![loc[p]] = "left"]
      BY <1>2, <2>1
    <3> QED
      BY <3>1
  <2>3. Commit(p, [db EXCEPT !.stays = [db.stays EXCEPT ![s] = stay]])
    BY <1>2, <1>5 DEF StudentTables
  <2> QED
    BY <1>1, <2>2, <2>3, StayWritten
<1> QED
  BY <1>3, <1>4, <1>5 DEF StudentLeave, At

LEMMA MovesClass == ASSUME AdmissionsInv, NEW p \in Procs, ClassMovement(p) PROVE AdmissionsInv'
<1> PICK s : s = Call(p).student
  OBVIOUS
<1>1. calls[p] # <<>> /\ Call(p).op = "move" /\ s \in 1..MaxStudents /\ Call(p).klass \in Classes
  BY AdmissionCall DEF ClassMovement, At
<1>2. CASE Refuse(p)
  BY <1>1, <1>2, AdmissionRefuses
<1>3. CASE ReadTo(p, 1, db.moves[s])
  BY <1>1, <1>3, AdmissionReads DEF Read, Call
<1>4. CASE WriteTo(p, 2, [db EXCEPT !.moves[s] = @ + 1])
  <2> PICK moves : moves = [db.moves EXCEPT ![s] = @ + 1]
    OBVIOUS
  <2> PICK tables : tables = [db EXCEPT !.moves = moves]
    OBVIOUS
  <2>1. db \in StudentTables /\ db.moves \in [1..MaxStudents -> Nat]
    BY HereTyped DEF StudentTables
  <2>2. moves \in [1..MaxStudents -> Nat]
    <3> PICK old : old = db.moves[s]
      OBVIOUS
    <3>1. old \in Nat /\ moves = [db.moves EXCEPT ![s] = old + 1]
      BY <1>1, <2>1
    <3>2. old + 1 \in Nat
      BY <3>1
    <3> QED
      BY <2>1, <3>1, <3>2
  <2>3. /\ tables \in StudentTables /\ tables.student = db.student /\ tables.log = db.log /\ tables.gone = db.gone
        /\ tables.stays = db.stays /\ tables.answers = db.answers
    BY <2>1, <2>2 DEF StudentTables
  <2>4. StudentsSound(tables) /\ Bounded(tables.student) /\ Extends(db, tables)
    BY <2>3, SoundStill DEF AdmissionsInv
  <2>5. WriteTo(p, 2, tables)
    BY <1>4, <2>1 DEF StudentTables
  <2>6. ASSUME calls'[p] = calls[p] PROVE Read(p)'
    BY <1>1, <2>6 DEF Read, Call
  <2>7. 2 \in 0..16
    OBVIOUS
  <2> QED
    BY <1>1, <2>4, <2>5, <2>6, <2>7, AdmissionWrites
<1>5. CASE s \in Here /\ Commit(p, [db EXCEPT !.student[s].klass = Call(p).klass])
  <2> PICK row : row = [db.student[s] EXCEPT !.klass = Call(p).klass]
    OBVIOUS
  <2> PICK students : students = [db.student EXCEPT ![s] = row]
    OBVIOUS
  <2> PICK tables : tables = [db EXCEPT !.student = students]
    OBVIOUS
  <2>1. /\ db \in StudentTables /\ db.student \in Seq(StudentRow) /\ s \in DOMAIN db.student /\ db.student[s] \in StudentRow
    BY <1>5, HereTyped DEF Here
  <2>2. row \in StudentRow /\ row.key = db.student[s].key /\ row.roll = db.student[s].roll /\ row.status = db.student[s].status
    BY <1>1, <2>1 DEF StudentRow
  <2>3. /\ students \in Seq(StudentRow) /\ Len(students) = Len(db.student)
        /\ students[s] = row /\ \A t \in DOMAIN db.student \ {s} : students[t] = db.student[t]
    BY <2>1, <2>2, RowReplaced
  <2>4. Commit(p, tables)
    BY <1>5, <2>1 DEF StudentTables
  <2>5. /\ tables \in StudentTables /\ tables.student = students /\ tables.log = db.log /\ tables.gone = db.gone
        /\ tables.stays = db.stays /\ tables.answers = db.answers
    BY <2>1, <2>3 DEF StudentTables
  <2>6. StudentsSound(tables) /\ Bounded(tables.student) /\ Extends(db, tables)
    <3>1. StudentsSound(db) /\ Bounded(db.student) /\ tables \in StudentTables /\ Len(tables.student) = Len(db.student)
      BY <2>3, <2>5 DEF AdmissionsInv
    <3>2. \A t \in DOMAIN db.student :
             /\ tables.student[t].key = db.student[t].key /\ tables.student[t].roll = db.student[t].roll
             /\ tables.log[t] = db.log[t] /\ tables.student[t].status = db.student[t].status
      BY <2>2, <2>3, <2>5
    <3>3. /\ db.gone \subseteq tables.gone /\ tables.answers \subseteq db.answers
          /\ \A t \in 1..MaxStudents : tables.log[t] = db.log[t]
          /\ \A t \in 1..MaxStudents : \A n \in DOMAIN db.stays[t] : n \in DOMAIN tables.stays[t]
      BY <2>5
    <3> QED
      BY <3>1, <3>2, <3>3, SoundStill
  <2> QED
    BY <1>1, <2>4, <2>6, AdmissionAnswers
<1> QED
  BY <1>2, <1>3, <1>4, <1>5 DEF ClassMovement

\* The office's admissions: a key admits one student, and the status log tells the truth.
THEOREM AdmissionsAreKept == AdmissionsSpec => []AdmissionsSound
<1> DEFINE Inv == Of("admissions") => AdmissionsInv
<1>1. AdmissionsInit => Inv
  BY AdmissionsStart DEF AdmissionsInit
<1>2. Inv /\ [AdmissionsNext]_handlerVars => Inv'
  <2> SUFFICES ASSUME Inv, [AdmissionsNext]_handlerVars PROVE Inv'
    OBVIOUS
  <2>1. scene' = scene
    BY DEF AdmissionsNext, Admit, SetStatus, Attend, DeleteStudent, StudentJoin, StudentLeave, ClassMovement, Rest,
       AdmitReplay, AdmitTwin, AdmitNumber, AdmitWalk, AdmitRoll, AdmitPerson, AdmitInsert, Insert, AdmitGuardian,
       Answers, ReadTo, WriteTo, Refuse, Commit, handlerVars
  <2> SUFFICES ASSUME Of("admissions") PROVE AdmissionsInv'
    BY <2>1 DEF Of
  <2>2. AdmissionsInv
    OBVIOUS
  <2>3. ASSUME NEW p \in Procs, Admit(p) PROVE AdmissionsInv'
    BY <2>2, <2>3, AdmitsReplay, AdmitsTwin, AdmitsNumber, AdmitsWalk, AdmitsRoll, AdmitsPerson, AdmitsInsert,
       AdmitsGuardian DEF Admit
  <2>4. CASE UNCHANGED handlerVars
    BY <2>2, <2>4 DEF AdmissionsInv, InControl, Read, Call, handlerVars
  <2> QED
    BY <2>2, <2>3, <2>4, SetsStatus, Attends, DeletesStudent, StudentJoins, StudentLeaves, MovesClass
       DEF AdmissionsNext, Rest
<1>3. Inv => AdmissionsSound
  BY AdmissionsInvHolds DEF AdmissionsSound
<1> QED
  BY <1>1, <1>2, <1>3, PTL DEF AdmissionsSpec

-----------------------------------------------------------------------------
(* BranchStaff, for any employees, addresses and invitations.              *)

\* A tenure of sequence n + 1 may be written: the n before it are there, and closed.
Fits(d, u, n) ==
    /\ n \in Nat /\ (d.user[u] # Nothing \/ u \in d.gone)
    /\ u \in d.gone \/ (n <= Len(d.tenures[u]) /\ (n = Len(d.tenures[u]) => ~LastOpen(d.tenures[u])))
\* What one handler may find when it goes on after others have written.
StaffGrows(d, e) ==
    /\ \A i \in Invitations : d.invite[i] # Nothing => e.invite[i] # Nothing
    /\ \A u \in Employees, n \in Nat : Fits(d, u, n) => Fits(e, u, n)

\* Who is not there has nothing, and never comes back.
Belongs(d) ==
    /\ \A u \in Employees : d.user[u] = Nothing => d.seat[u] = Nothing /\ d.tenures[u] = <<>>
    /\ \A u \in d.gone : d.user[u] = Nothing
EmailsApart(d) ==
    \A u, v \in Employees : d.user[u] # Nothing /\ d.user[v] # Nothing /\ d.user[u].email = d.user[v].email =>
        u = v \/ d.user[u].email = Nothing
InOrder(s) == \A n \in 1..(Len(s) - 1) : s[n] = "left"
\* u is what the invitation to an address made of it.
Whole(d, u, email) ==
    /\ d.user[u] # Nothing /\ d.user[u].role = "management" /\ d.user[u].profile /\ d.seat[u] # Nothing
    /\ u \in d.moved \/ d.user[u].email = email
MadeWhole(d) ==
    /\ \A i \in Invitations : d.invite[i] # Nothing =>
          /\ d.invite[i].used => d.invite[i].made # {}
          /\ \A u \in d.invite[i].made : u \in d.gone \/ Whole(d, u, d.invite[i].email)
    /\ \A i, j \in Invitations : d.invite[i] # Nothing /\ d.invite[j] # Nothing =>
          \A u \in d.invite[i].made : u \in d.invite[j].made => i = j
StaffKept(d) ==
    /\ d \in StaffTables /\ Belongs(d) /\ EmailsApart(d) /\ MadeWhole(d)
    /\ \A u \in Employees : InOrder(d.tenures[u])

\* What a handler has read still holds when it writes.
Relies(p) ==
    /\ At(p, "join", 1) => Fits(db, Call(p).user, loc[p])
    /\ At(p, "register", 1) => db.invite[Call(p).invitation] # Nothing
StaffInv == InControl(StaffCalls) /\ StaffKept(db) /\ \A p \in Procs : Relies(p)

LEMMA StaffInvHolds == StaffInv => StaffTypeOK /\ TenuresInOrder /\ InvitationMakesOne
<1> SUFFICES ASSUME StaffInv PROVE StaffTypeOK /\ TenuresInOrder /\ InvitationMakesOne
  OBVIOUS
<1>1. StaffTypeOK
  BY DEF StaffInv, StaffTypeOK, HandlersTypeOK, InControl, StaffKept
<1>2. TenuresInOrder
  BY DEF StaffInv, StaffKept, TenuresInOrder, InOrder
<1>3. MadeWhole(db) /\ EmailsApart(db) /\ db \in StaffTables
  BY DEF StaffInv, StaffKept
<1>4. ASSUME NEW i \in Invitations, db.invite[i] # Nothing
      PROVE  /\ db.invite[i].email # Nothing
             /\ db.invite[i].used => db.invite[i].made # {}
             /\ \A u \in db.invite[i].made : u \in Employees /\ (u \in db.gone \/ Whole(db, u, db.invite[i].email))
  BY <1>3, <1>4, StaffSceneAssumption DEF MadeWhole, StaffTables
<1>5. ASSUME NEW i \in Invitations, NEW j \in Invitations, db.invite[i] # Nothing, db.invite[j] # Nothing,
             db.invite[i].email = db.invite[j].email,
             NEW u \in db.invite[i].made \ (db.gone \cup db.moved), NEW v \in db.invite[j].made \ (db.gone \cup db.moved)
      PROVE  u = v /\ i = j
  <2>1. /\ u \in Employees /\ db.user[u] # Nothing /\ db.user[u].email = db.invite[i].email
        /\ v \in Employees /\ db.user[v] # Nothing /\ db.user[v].email = db.invite[i].email
    BY <1>4, <1>5 DEF Whole
  <2>2. db.user[u].email # Nothing /\ db.user[u].email = db.user[v].email
    BY <1>4, <1>5, <2>1
  <2>3. u = v
    BY <1>3, <2>1, <2>2 DEF EmailsApart
  <2> QED
    BY <1>3, <1>5, <2>3 DEF MadeWhole
<1>6. ASSUME NEW i \in Invitations, db.invite[i] # Nothing
      PROVE  /\ db.invite[i].used => db.invite[i].made # {}
             /\ \A u \in db.invite[i].made \ db.gone :
                   db.user[u] # Nothing /\ db.user[u].profile /\ db.seat[u] # Nothing
  BY <1>4, <1>6 DEF Whole
<1>7. InvitationMakesOne
  BY <1>5, <1>6 DEF InvitationMakesOne, Exists
<1> QED
  BY <1>1, <1>2, <1>7

LEMMA StaffStarts == HandlersInit /\ Of("staff") => StaffInv
<1> SUFFICES ASSUME HandlersInit, Of("staff") PROVE StaffInv
  OBVIOUS
<1>1. scene \in Scenes /\ scene.part = "staff" /\ db = scene.db
  BY DEF HandlersInit, Of
<1>2. InControl(StaffCalls)
  BY <1>1, ControlStarts, StaffSceneAssumption
<1>3. \A p \in Procs : Relies(p)
  BY DEF HandlersInit, Relies, At
<1>4. db \in StaffTables /\ Belongs(db)
  BY <1>1, StaffSceneAssumption DEF Belongs
<1>5. EmailsApart(db)
  BY <1>1, StaffSceneAssumption DEF EmailsApart
<1>6. MadeWhole(db)
  BY <1>1, StaffSceneAssumption DEF MadeWhole
<1>7. \A u \in Employees : InOrder(db.tenures[u])
  BY <1>1, StaffSceneAssumption DEF InOrder
<1> QED
  BY <1>2, <1>3, <1>4, <1>5, <1>6, <1>7 DEF StaffInv, StaffKept

-----------------------------------------------------------------------------
\* How a handler of the staff goes on: the others still rely on what they read.

LEMMA StaffCall ==
    ASSUME StaffInv, NEW p \in Procs, calls[p] # <<>>
    PROVE  /\ Call(p) \in StaffCalls
           /\ Call(p).op # "invite" => Call(p).user \in Employees
           /\ Call(p).op \in {"invite", "register"} => Call(p).invitation \in Invitations
           /\ Call(p).op \in {"hire", "edit"} => Call(p).email \in Emails \cup {Nothing}
           /\ Call(p).op = "invite" => Call(p).email \in Emails
           /\ Call(p).op \in {"add", "promote", "role"} => Call(p).role \in Roles
           /\ Call(p).op \in {"turn", "turnTeacher"} => Call(p).on \in BOOLEAN
           /\ Call(p).op = "resign" => Call(p).heir \in Employees
<1>1. Call(p) \in StaffCalls
  BY CallTyped DEF StaffInv
<1> QED
  BY <1>1 DEF StaffCalls, StaffOps

LEMMA GrowsItself == \A d : StaffGrows(d, d)
BY DEF StaffGrows

LEMMA StaffStep ==
    ASSUME StaffInv, NEW p \in Procs, InControl(StaffCalls)', StaffKept(db)', StaffGrows(db, db'),
           \A q \in Procs \ {p} : calls'[q] = calls[q] /\ pc'[q] = pc[q] /\ loc'[q] = loc[q],
           Relies(p)'
    PROVE  StaffInv'
<1>1. ASSUME NEW q \in Procs \ {p} PROVE Relies(q)'
  <2> SUFFICES ASSUME calls[q] # <<>> PROVE Relies(q)'
    BY DEF Relies, At
  <2>1. Relies(q) /\ Call(q)' = Call(q) /\ pc'[q] = pc[q] /\ loc'[q] = loc[q] /\ calls'[q] # <<>>
    BY DEF StaffInv, Call
  <2>2. At(q, "join", 1) => loc[q] \in Nat /\ Call(q).user \in Employees
    BY <2>1, StaffCall DEF Relies, Fits, At
  <2>3. At(q, "register", 1) => Call(q).invitation \in Invitations
    BY StaffCall DEF At
  <2>4. At(q, "join", 1) => Fits(db', Call(q).user, loc[q])
    BY <2>1, <2>2 DEF Relies, StaffGrows
  <2>5. At(q, "register", 1) => db'.invite[Call(q).invitation] # Nothing
    BY <2>1, <2>3 DEF Relies, StaffGrows
  <2> QED
    BY <2>1, <2>4, <2>5 DEF Relies, At, Fits
<1> QED
  BY <1>1 DEF StaffInv

LEMMA StaffReads ==
    ASSUME StaffInv, NEW p \in Procs, calls[p] # <<>>, NEW n \in 0..16, NEW saw, ReadTo(p, n, saw),
           Call(p).op = "join" => Fits(db, Call(p).user, saw),
           Call(p).op = "register" => db.invite[Call(p).invitation] # Nothing
    PROVE  StaffInv'
<1>1. /\ InControl(StaffCalls)' /\ calls' = calls /\ db' = db
      /\ pc'[p] = n /\ \A q \in Procs \ {p} : pc'[q] = pc[q]
  BY ReadsOn DEF StaffInv
<1>2. loc'[p] = saw /\ \A q \in Procs \ {p} : loc'[q] = loc[q]
  BY DEF ReadTo, StaffInv, InControl
<1>3. Relies(p)'
  BY <1>1, <1>2 DEF Relies, At, Call, Fits
<1> QED
  BY <1>1, <1>2, <1>3, StaffStep, GrowsItself DEF StaffInv

LEMMA StaffWrites ==
    ASSUME StaffInv, NEW p \in Procs, calls[p] # <<>>, NEW n \in 0..16, NEW tables, WriteTo(p, n, tables),
           StaffKept(tables), StaffGrows(db, tables), Call(p).op \notin {"join", "register"}
    PROVE  StaffInv'
<1>1. /\ InControl(StaffCalls)' /\ calls' = calls /\ db' = tables /\ loc' = loc
      /\ pc'[p] = n /\ \A q \in Procs \ {p} : pc'[q] = pc[q]
  BY WritesOn DEF StaffInv, WriteTo
<1>2. Relies(p)'
  BY <1>1 DEF Relies, At, Call
<1> QED
  BY <1>1, <1>2, StaffStep

LEMMA StaffAnswers ==
    ASSUME StaffInv, NEW p \in Procs, calls[p] # <<>>, NEW tables, Commit(p, tables),
           StaffKept(tables), StaffGrows(db, tables)
    PROVE  StaffInv'
<1>1. /\ InControl(StaffCalls)' /\ db' = tables /\ pc'[p] = 0
      /\ \A q \in Procs \ {p} : pc'[q] = pc[q] /\ calls'[q] = calls[q]
  BY IsAnswered DEF StaffInv
<1>2. \A q \in Procs \ {p} : loc'[q] = loc[q]
  BY DEF Commit, StaffInv, InControl
<1>3. Relies(p)'
  BY <1>1 DEF Relies, At
<1> QED
  BY <1>1, <1>2, <1>3, StaffStep

LEMMA StaffRefuses ==
    ASSUME StaffInv, NEW p \in Procs, calls[p] # <<>>, Refuse(p)
    PROVE  StaffInv'
BY StaffAnswers, GrowsItself DEF Refuse, StaffInv

-----------------------------------------------------------------------------
\* What may be written to tables that are kept.

\* Who had a seat keeps one, and nobody sits who is not there.
LEMMA SeatsWritten ==
    ASSUME NEW d, StaffKept(d), NEW seat \in [Employees -> {Nothing} \cup Seats],
           \A u \in Employees : /\ d.seat[u] # Nothing => seat[u] # Nothing
                                /\ d.user[u] = Nothing => seat[u] = Nothing
    PROVE  StaffKept([d EXCEPT !.seat = seat]) /\ StaffGrows(d, [d EXCEPT !.seat = seat])
<1> DEFINE e == [d EXCEPT !.seat = seat]
<1>1. /\ e \in StaffTables /\ e.seat = seat /\ e.user = d.user /\ e.tenures = d.tenures /\ e.invite = d.invite
      /\ e.gone = d.gone /\ e.moved = d.moved
  BY DEF StaffKept, StaffTables
<1> HIDE DEF e
<1>2. Belongs(e) /\ EmailsApart(e)
  BY <1>1 DEF StaffKept, Belongs, EmailsApart
<1>3. MadeWhole(e)
  <2>1. \A i \in Invitations : d.invite[i] # Nothing => \A u \in d.invite[i].made : u \in Employees
    BY DEF StaffKept, StaffTables
  <2> QED
    BY <1>1, <2>1 DEF StaffKept, MadeWhole, Whole
<1>4. StaffGrows(d, e)
  BY <1>1 DEF StaffGrows, Fits
<1> QED
  BY <1>1, <1>2, <1>3, <1>4 DEF StaffKept, e

\* An account is changed; a new address is nobody else's, and is remembered.
LEMMA AccountWritten ==
    ASSUME NEW d, StaffKept(d), NEW u \in Employees, d.user[u] # Nothing, NEW a \in Accounts,
           a.role = d.user[u].role, a.role = "management" /\ d.user[u].profile => a.profile,
           NEW moved \in SUBSET Employees, d.moved \subseteq moved,
           a.email # d.user[u].email =>
               /\ u \in moved
               /\ a.email # Nothing => \A v \in Employees \ {u} : d.user[v] # Nothing => d.user[v].email # a.email
    PROVE  LET e == [d EXCEPT !.user = [d.user EXCEPT ![u] = a], !.moved = moved]
           IN  StaffKept(e) /\ StaffGrows(d, e)
<1> DEFINE user == [d.user EXCEPT ![u] = a]
           e == [d EXCEPT !.user = user, !.moved = moved]
<1>1. /\ user \in [Employees -> {Nothing} \cup Accounts] /\ user[u] = a /\ a # Nothing
      /\ \A v \in Employees \ {u} : user[v] = d.user[v]
  BY StaffSceneAssumption DEF StaffKept, StaffTables
<1> HIDE DEF user
<1>2. /\ e \in StaffTables /\ e.seat = d.seat /\ e.user = user /\ e.tenures = d.tenures /\ e.invite = d.invite
      /\ e.gone = d.gone /\ e.moved = moved
  BY <1>1 DEF StaffKept, StaffTables
<1> HIDE DEF e
<1>3. Belongs(e)
  <2>1. d.gone \subseteq Employees
    BY DEF StaffKept, StaffTables
  <2> QED
    BY <1>1, <1>2, <2>1 DEF StaffKept, Belongs
<1>4. EmailsApart(e)
  BY <1>1, <1>2 DEF StaffKept, EmailsApart
<1>5. MadeWhole(e)
  <2>1. ASSUME NEW v \in Employees, NEW email, Whole(d, v, email) PROVE Whole(e, v, email)
    BY <1>1, <1>2, <2>1 DEF Whole
  <2>2. \A i \in Invitations : d.invite[i] # Nothing => \A v \in d.invite[i].made : v \in Employees
    BY DEF StaffKept, StaffTables
  <2> QED
    BY <1>2, <2>1, <2>2 DEF StaffKept, MadeWhole
<1>6. StaffGrows(d, e)
  BY <1>1, <1>2 DEF StaffGrows, Fits
<1>7. StaffKept(e)
  BY <1>2, <1>3, <1>4, <1>5 DEF StaffKept
<1> QED
  BY <1>6, <1>7 DEF e, user

\* Lessons and leads are nobody's condition.
LEMMA LessonsWritten ==
    ASSUME NEW d, StaffKept(d), NEW lessons \in SUBSET Employees, NEW leads \in SUBSET Employees
    PROVE  LET e == [d EXCEPT !.lessons = lessons, !.leads = leads] IN StaffKept(e) /\ StaffGrows(d, e)
<1> DEFINE e == [d EXCEPT !.lessons = lessons, !.leads = leads]
<1>1. /\ e \in StaffTables /\ e.seat = d.seat /\ e.user = d.user /\ e.tenures = d.tenures /\ e.invite = d.invite
      /\ e.gone = d.gone /\ e.moved = d.moved
  BY DEF StaffKept, StaffTables
<1> HIDE DEF e
<1>2. Belongs(e) /\ EmailsApart(e) /\ MadeWhole(e) /\ StaffGrows(d, e)
  BY <1>1 DEF StaffKept, Belongs, EmailsApart, MadeWhole, Whole, StaffGrows, Fits
<1> QED
  BY <1>1, <1>2 DEF StaffKept, e

\* A member's tenures grow in order, or the open one is closed.
LEMMA TenuresWritten ==
    ASSUME NEW d, StaffKept(d), NEW u \in Employees, d.user[u] # Nothing,
           NEW s \in Seq({"open", "left"}), InOrder(s), Len(d.tenures[u]) <= Len(s),
           Len(d.tenures[u]) = Len(s) /\ LastOpen(s) => LastOpen(d.tenures[u])
    PROVE  LET e == [d EXCEPT !.tenures = [d.tenures EXCEPT ![u] = s]] IN StaffKept(e) /\ StaffGrows(d, e)
<1> DEFINE tenures == [d.tenures EXCEPT ![u] = s]
           e == [d EXCEPT !.tenures = tenures]
<1>1. /\ tenures \in [Employees -> Seq({"open", "left"})] /\ tenures[u] = s
      /\ \A v \in Employees \ {u} : tenures[v] = d.tenures[v]
  BY DEF StaffKept, StaffTables
<1> HIDE DEF tenures
<1>2. /\ e \in StaffTables /\ e.seat = d.seat /\ e.user = d.user /\ e.tenures = tenures /\ e.invite = d.invite
      /\ e.gone = d.gone /\ e.moved = d.moved
  BY <1>1 DEF StaffKept, StaffTables
<1> HIDE DEF e
<1>3. Belongs(e) /\ EmailsApart(e) /\ MadeWhole(e)
  BY <1>1, <1>2 DEF StaffKept, Belongs, EmailsApart, MadeWhole, Whole
<1>4. StaffGrows(d, e)
  <2>1. ASSUME NEW n \in Nat, Fits(d, u, n) PROVE Fits(e, u, n)
    <3>1. Len(d.tenures[u]) \in Nat /\ Len(s) \in Nat
      BY DEF StaffKept, StaffTables
    <3>2. u \notin d.gone
      BY DEF StaffKept, Belongs
    <3> QED
      BY <1>1, <1>2, <2>1, <3>1, <3>2 DEF Fits
  <2>2. ASSUME NEW v \in Employees \ {u}, NEW n \in Nat, Fits(d, v, n) PROVE Fits(e, v, n)
    BY <1>1, <1>2, <2>2 DEF Fits
  <2> QED
    BY <1>2, <2>1, <2>2 DEF StaffGrows
<1>5. StaffKept(e)
  BY <1>1, <1>2, <1>3 DEF StaffKept
<1> QED
  BY <1>4, <1>5 DEF e, tenures

\* An account is made with its seat and its tenure, by an invitation or without one.
LEMMA AccountInserted ==
    ASSUME NEW d, StaffKept(d), NEW u \in Employees, d.user[u] = Nothing, u \notin d.gone, NEW a \in Accounts,
           a.email # Nothing => \A v \in Employees : d.user[v] # Nothing => d.user[v].email # a.email,
           NEW s \in {Nothing} \cup Seats, NEW t \in Seq({"open", "left"}), InOrder(t),
           NEW invite \in [Invitations -> {Nothing} \cup [email : Emails, used : BOOLEAN, made : SUBSET Employees]],
           \/ invite = d.invite
           \/ \E i \in Invitations :
                 /\ d.invite[i] # Nothing /\ a.role = "management" /\ a.profile /\ s # Nothing
                 /\ a.email = d.invite[i].email
                 /\ invite = [d.invite EXCEPT ![i] = [email |-> d.invite[i].email, used |-> TRUE,
                                                      made |-> d.invite[i].made \cup {u}]]
    PROVE  LET e == [d EXCEPT !.user = [d.user EXCEPT ![u] = a], !.seat = [d.seat EXCEPT ![u] = s],
                              !.tenures = [d.tenures EXCEPT ![u] = t], !.invite = invite]
           IN  StaffKept(e) /\ StaffGrows(d, e)
<1> DEFINE user == [d.user EXCEPT ![u] = a]
           seat == [d.seat EXCEPT ![u] = s]
           tenures == [d.tenures EXCEPT ![u] = t]
           e == [d EXCEPT !.user = user, !.seat = seat, !.tenures = tenures, !.invite = invite]
<1>1. /\ user \in [Employees -> {Nothing} \cup Accounts] /\ user[u] = a /\ a # Nothing
      /\ seat \in [Employees -> {Nothing} \cup Seats] /\ seat[u] = s
      /\ tenures \in [Employees -> Seq({"open", "left"})] /\ tenures[u] = t
      /\ \A v \in Employees \ {u} : user[v] = d.user[v] /\ seat[v] = d.seat[v] /\ tenures[v] = d.tenures[v]
  BY StaffSceneAssumption DEF StaffKept, StaffTables
<1> HIDE DEF user, seat, tenures
<1>2. /\ e \in StaffTables /\ e.seat = seat /\ e.user = user /\ e.tenures = tenures /\ e.invite = invite
      /\ e.gone = d.gone /\ e.moved = d.moved
  BY <1>1 DEF StaffKept, StaffTables
<1> HIDE DEF e
<1>3. Belongs(e)
  <2>1. d.gone \subseteq Employees /\ Belongs(d)
    BY DEF StaffKept, StaffTables
  <2>2. ASSUME NEW v \in Employees, user[v] = Nothing PROVE seat[v] = Nothing /\ tenures[v] = <<>>
    BY <1>1, <2>1, <2>2 DEF Belongs
  <2>3. ASSUME NEW v \in d.gone PROVE user[v] = Nothing
    BY <1>1, <2>1 DEF Belongs
  <2> QED
    BY <1>2, <2>2, <2>3 DEF Belongs
<1>4. EmailsApart(e)
  BY <1>1, <1>2 DEF StaffKept, EmailsApart
<1>5. ASSUME NEW v \in Employees \ {u}, NEW email, Whole(d, v, email) PROVE Whole(e, v, email)
  BY <1>1, <1>2, <1>5 DEF Whole
<1>6. ASSUME NEW i \in Invitations, d.invite[i] # Nothing
      PROVE  /\ d.invite[i].used => d.invite[i].made # {}
             /\ \A v \in d.invite[i].made : v \in Employees \ {u} /\ (v \in d.gone \/ Whole(d, v, d.invite[i].email))
             /\ u \notin d.invite[i].made
  BY <1>6 DEF StaffKept, StaffTables, MadeWhole, Whole
<1>7. MadeWhole(e)
  <2>1. CASE invite = d.invite
    <3>1. ASSUME NEW i \in Invitations, e.invite[i] # Nothing
          PROVE  /\ e.invite[i].used => e.invite[i].made # {}
                 /\ \A v \in e.invite[i].made : v \in e.gone \/ Whole(e, v, e.invite[i].email)
      BY <1>2, <1>5, <1>6, <2>1, <3>1
    <3> QED
      BY <1>2, <2>1, <3>1 DEF StaffKept, MadeWhole
  <2>2. ASSUME NEW i \in Invitations, d.invite[i] # Nothing, a.role = "management", a.profile, s # Nothing,
               a.email = d.invite[i].email,
               invite = [d.invite EXCEPT ![i] = [email |-> d.invite[i].email, used |-> TRUE,
                                                 made |-> d.invite[i].made \cup {u}]]
        PROVE  MadeWhole(e)
    <3> DEFINE row == [email |-> d.invite[i].email, used |-> TRUE, made |-> d.invite[i].made \cup {u}]
    <3>1. invite[i] = row /\ \A j \in Invitations \ {i} : invite[j] = d.invite[j]
      BY <2>2 DEF StaffKept, StaffTables
    <3>2. /\ invite[i].email = d.invite[i].email /\ invite[i].made = d.invite[i].made \cup {u}
      BY <3>1
    <3> HIDE DEF row
    <3>3. Whole(e, u, d.invite[i].email)
      BY <1>1, <1>2, <2>2 DEF Whole
    <3>4. ASSUME NEW j \in Invitations, e.invite[j] # Nothing
          PROVE  /\ e.invite[j].used => e.invite[j].made # {}
                 /\ \A v \in e.invite[j].made : v \in e.gone \/ Whole(e, v, e.invite[j].email)
      <4>1. CASE j = i
        BY <1>2, <1>5, <1>6, <2>2, <3>2, <3>3, <4>1
      <4>2. CASE j # i
        BY <1>2, <1>5, <1>6, <3>1, <3>4, <4>2
      <4> QED
        BY <4>1, <4>2
    <3>5. ASSUME NEW j \in Invitations, NEW k \in Invitations, e.invite[j] # Nothing, e.invite[k] # Nothing,
                 NEW v \in e.invite[j].made, v \in e.invite[k].made
          PROVE  j = k
      <4>1. ASSUME NEW x \in Invitations, NEW w \in e.invite[x].made, e.invite[x] # Nothing
            PROVE  d.invite[x] # Nothing /\ (w \in d.invite[x].made \/ (w = u /\ x = i))
        BY <1>2, <2>2, <3>1, <3>2, <4>1
      <4>2. CASE v = u
        BY <1>6, <3>5, <4>1, <4>2
      <4>3. CASE v # u
        BY <3>5, <4>1, <4>3 DEF StaffKept, MadeWhole
      <4> QED
        BY <4>2, <4>3
    <3> QED
      BY <3>4, <3>5 DEF MadeWhole
  <2> QED
    BY <2>1, <2>2
<1>8. StaffGrows(d, e)
  <2>1. ASSUME NEW v \in Employees, NEW n \in Nat, Fits(d, v, n) PROVE Fits(e, v, n)
    BY <1>1, <1>2, <2>1 DEF Fits
  <2>2. \A i \in Invitations : d.invite[i] # Nothing => invite[i] # Nothing
    <3>1. CASE invite = d.invite
      BY <3>1
    <3>2. ASSUME NEW i \in Invitations, NEW row \in [email : Emails, used : BOOLEAN, made : SUBSET Employees],
                 invite = [d.invite EXCEPT ![i] = row]
          PROVE  \A j \in Invitations : d.invite[j] # Nothing => invite[j] # Nothing
      BY <3>2, StaffSceneAssumption DEF StaffKept, StaffTables
    <3>3. ASSUME NEW i \in Invitations, d.invite[i] # Nothing
          PROVE  [email |-> d.invite[i].email, used |-> TRUE, made |-> d.invite[i].made \cup {u}]
                   \in [email : Emails, used : BOOLEAN, made : SUBSET Employees]
      BY <3>3 DEF StaffKept, StaffTables
    <3> QED
      BY <3>1, <3>2, <3>3
  <2> QED
    BY <1>2, <2>1, <2>2 DEF StaffGrows
<1>9. StaffKept(e)
  BY <1>1, <1>2, <1>3, <1>4, <1>7 DEF StaffKept
<1> QED
  BY <1>8, <1>9 DEF e, user, seat, tenures

\* A deleted account takes everything along.
LEMMA AccountDeleted ==
    ASSUME StaffKept(db), NEW u \in Employees
    PROVE  StaffKept(Deleted(u)) /\ StaffGrows(db, Deleted(u))
<1> DEFINE user == [db.user EXCEPT ![u] = Nothing]
           seat == [db.seat EXCEPT ![u] = Nothing]
           tenures == [db.tenures EXCEPT ![u] = <<>>]
<1> PICK e : e = Deleted(u)
  OBVIOUS
<1>1. /\ user \in [Employees -> {Nothing} \cup Accounts] /\ user[u] = Nothing
      /\ seat \in [Employees -> {Nothing} \cup Seats] /\ seat[u] = Nothing
      /\ tenures \in [Employees -> Seq({"open", "left"})] /\ tenures[u] = <<>>
      /\ \A v \in Employees \ {u} : user[v] = db.user[v] /\ seat[v] = db.seat[v] /\ tenures[v] = db.tenures[v]
  BY DEF StaffKept, StaffTables
<1>2. e = [db EXCEPT !.user = user, !.seat = seat, !.tenures = tenures, !.lessons = db.lessons \ {u},
                     !.leads = db.leads \ {u}, !.gone = db.gone \cup {u}]
  BY DEF Deleted, StaffKept, StaffTables
<1> PICK lessons, leads, gone : lessons = db.lessons \ {u} /\ leads = db.leads \ {u} /\ gone = db.gone \cup {u}
  OBVIOUS
<1>3. lessons \in SUBSET Employees /\ leads \in SUBSET Employees /\ gone \in SUBSET Employees
  BY DEF StaffKept, StaffTables
<1>4. e = [db EXCEPT !.user = user, !.seat = seat, !.tenures = tenures, !.lessons = lessons, !.leads = leads, !.gone = gone]
  BY <1>2
<1> HIDE DEF user, seat, tenures
<1>5. /\ e \in StaffTables /\ e.seat = seat /\ e.user = user /\ e.tenures = tenures /\ e.invite = db.invite
      /\ e.gone = db.gone \cup {u} /\ e.moved = db.moved
  BY <1>1, <1>3, <1>4 DEF StaffKept, StaffTables
<1>6. Belongs(e)
  <2>1. db.gone \subseteq Employees
    BY DEF StaffKept, StaffTables
  <2> QED
    BY <1>1, <1>5, <2>1 DEF StaffKept, Belongs
<1>7. EmailsApart(e)
  <2>1. \A v \in Employees : user[v] # Nothing => user[v] = db.user[v] /\ db.user[v] # Nothing
    BY <1>1
  <2> QED
    BY <1>5, <2>1 DEF StaffKept, EmailsApart
<1>8. MadeWhole(e)
  <2>1. ASSUME NEW v \in Employees \ {u}, NEW email, Whole(db, v, email) PROVE Whole(e, v, email)
    BY <1>1, <1>5, <2>1 DEF Whole
  <2>2. \A i \in Invitations : db.invite[i] # Nothing => \A v \in db.invite[i].made : v \in Employees
    BY DEF StaffKept, StaffTables
  <2> QED
    BY <1>5, <2>1, <2>2 DEF StaffKept, MadeWhole
<1>9. StaffGrows(db, e)
  <2>1. ASSUME NEW v \in Employees, NEW n \in Nat, Fits(db, v, n) PROVE Fits(e, v, n)
    BY <1>1, <1>5, <2>1 DEF Fits
  <2> QED
    BY <1>5, <2>1 DEF StaffGrows
<1>10. InOrder(<<>>)
  BY DEF InOrder
<1> QED
  BY <1>1, <1>5, <1>6, <1>7, <1>8, <1>9, <1>10 DEF StaffKept

\* A new invitation has made nobody.
LEMMA InvitationWritten ==
    ASSUME NEW d, StaffKept(d), NEW i \in Invitations, d.invite[i] = Nothing, NEW email \in Emails
    PROVE  LET e == [d EXCEPT !.invite = [d.invite EXCEPT ![i] = [email |-> email, used |-> FALSE, made |-> {}]]]
           IN  StaffKept(e) /\ StaffGrows(d, e)
<1> DEFINE row == [email |-> email, used |-> FALSE, made |-> {}]
           invite == [d.invite EXCEPT ![i] = row]
           e == [d EXCEPT !.invite = invite]
<1>1. /\ invite \in [Invitations -> {Nothing} \cup [email : Emails, used : BOOLEAN, made : SUBSET Employees]]
      /\ invite[i] # Nothing /\ ~invite[i].used /\ invite[i].made = {}
      /\ \A j \in Invitations \ {i} : invite[j] = d.invite[j]
  <2>1. /\ row \in [email : Emails, used : BOOLEAN, made : SUBSET Employees] /\ ~row.used /\ row.made = {}
    OBVIOUS
  <2>2. row # Nothing
    BY <2>1, StaffSceneAssumption
  <2> HIDE DEF row
  <2> QED
    BY <2>1, <2>2 DEF StaffKept, StaffTables
<1> HIDE DEF invite
<1>2. /\ e \in StaffTables /\ e.seat = d.seat /\ e.user = d.user /\ e.tenures = d.tenures /\ e.invite = invite
      /\ e.gone = d.gone /\ e.moved = d.moved
  BY <1>1 DEF StaffKept, StaffTables
<1> HIDE DEF e
<1>3. Belongs(e) /\ EmailsApart(e) /\ StaffGrows(d, e)
  BY <1>1, <1>2 DEF StaffKept, Belongs, EmailsApart, StaffGrows, Fits
<1>4. MadeWhole(e)
  BY <1>1, <1>2 DEF StaffKept, MadeWhole, Whole
<1>5. StaffKept(e)
  BY <1>2, <1>3, <1>4 DEF StaffKept
<1> QED
  BY <1>3, <1>5 DEF e, invite, row

-----------------------------------------------------------------------------
\* The handlers, one after the other.

LEMMA AccountsTyped ==
    /\ \A role \in {"teacher", "management"}, email \in Emails \cup {Nothing} :
          Account(role, email) \in Accounts /\ [Account(role, email) EXCEPT !.profile = FALSE] \in Accounts
    /\ \A role \in Roles : Seat(role) \in Seats /\ Seat(role) # Nothing
<1>1. \A role \in Roles : Seat(role) \in Seats
  BY DEF Seat, Seats, Roles
<1>2. \A role \in {"teacher", "management"}, email \in Emails \cup {Nothing} :
          Account(role, email) \in Accounts /\ [Account(role, email) EXCEPT !.profile = FALSE] \in Accounts
  BY DEF Account, Accounts
<1> QED
  BY <1>1, <1>2, StaffSceneAssumption

\* One seat is given, or changed, to somebody who is there.
LEMMA OneSeat ==
    ASSUME NEW d, StaffKept(d), NEW u, u \in Employees => d.user[u] # Nothing, NEW s \in Seats
    PROVE  StaffKept([d EXCEPT !.seat[u] = s]) /\ StaffGrows(d, [d EXCEPT !.seat[u] = s])
<1> DEFINE seat == [d.seat EXCEPT ![u] = s]
<1>1. d.seat \in [Employees -> {Nothing} \cup Seats] /\ s # Nothing
  BY StaffSceneAssumption DEF StaffKept, StaffTables
<1>2. /\ seat \in [Employees -> {Nothing} \cup Seats]
      /\ \A v \in Employees : /\ d.seat[v] # Nothing => seat[v] # Nothing
                              /\ d.user[v] = Nothing => seat[v] = d.seat[v]
  BY <1>1
<1>3. \A v \in Employees : d.user[v] = Nothing => d.seat[v] = Nothing
  BY DEF StaffKept, Belongs
<1>4. [d EXCEPT !.seat[u] = s] = [d EXCEPT !.seat = seat]
  BY DEF StaffKept, StaffTables
<1> HIDE DEF seat
<1> QED
  BY <1>2, <1>3, <1>4, SeatsWritten

\* Who sits has an account.
LEMMA SitsIsThere ==
    ASSUME StaffInv, NEW u \in Employees, db.seat[u] # Nothing
    PROVE  db.user[u] # Nothing /\ db.user[u] \in Accounts /\ db.seat[u] \in Seats
BY DEF StaffInv, StaffKept, Belongs, StaffTables
LEMMA IsThere ==
    ASSUME StaffInv, NEW u \in Employees, Exists(u)
    PROVE  db.user[u] # Nothing /\ db.user[u] \in Accounts
BY DEF StaffInv, StaffKept, StaffTables, Exists

LEMMA AddsMember == ASSUME StaffInv, NEW p \in Procs, AddMember(p) PROVE StaffInv'
<1>1. calls[p] # <<>> /\ Call(p).op = "add"
  BY DEF AddMember, At
<1>2. Call(p).user \in Employees /\ Call(p).role \in Roles
  BY <1>1, StaffCall
<1>3. ASSUME Exists(Call(p).user), Commit(p, [db EXCEPT !.seat[Call(p).user] = Seat(Call(p).role)]) PROVE StaffInv'
  BY <1>1, <1>2, <1>3, OneSeat, AccountsTyped, StaffAnswers DEF StaffInv, Exists
<1> QED
  BY <1>1, <1>3, StaffReads, StaffRefuses DEF AddMember

\* The promotion goes on as another call of the same user.
LEMMA GoesOnAs ==
    ASSUME StaffInv, NEW p \in Procs, calls[p] # <<>>, Call(p).op = "promote", NEW op \in {"add", "role"}, GoOnAs(p, op)
    PROVE  StaffInv'
<1>1. Call(p) \in [op : {"add", "promote", "role"}, user : Employees, role : Roles]
  BY StaffCall DEF StaffCalls, StaffOps
<1> DEFINE c == [Call(p) EXCEPT !.op = op]
<1>2. c \in StaffCalls /\ c.op = op
  BY <1>1 DEF StaffCalls
<1>3. calls \in [Procs -> Seq(StaffCalls)] /\ calls[p] \in Seq(StaffCalls) /\ Call(p) = calls[p][1]
  BY DEF StaffInv, InControl, Call
<1>4. [calls[p] EXCEPT ![1].op = op] = [calls[p] EXCEPT ![1] = c]
  BY <1>3
<1> HIDE DEF c
<1>5. [calls[p] EXCEPT ![1] = c] \in Seq(StaffCalls) /\ [calls[p] EXCEPT ![1] = c] # <<>>
      /\ Head([calls[p] EXCEPT ![1] = c]) = c
  BY <1>2, <1>3
<1>6. calls' = [calls EXCEPT ![p] = [calls[p] EXCEPT ![1] = c]] /\ pc' = [pc EXCEPT ![p] = 0]
      /\ db' = db /\ loc' = loc /\ scene' = scene
  BY <1>4 DEF GoOnAs
<1>7. calls' \in [Procs -> Seq(StaffCalls)] /\ calls'[p] = [calls[p] EXCEPT ![1] = c]
      /\ \A q \in Procs \ {p} : calls'[q] = calls[q]
  BY <1>3, <1>5, <1>6
<1>8. pc' \in [Procs -> 0..16] /\ pc'[p] = 0 /\ \A q \in Procs \ {p} : pc'[q] = pc[q]
  BY <1>6 DEF StaffInv, InControl
<1>9. InControl(StaffCalls)'
  BY <1>5, <1>6, <1>7, <1>8 DEF StaffInv, InControl
<1>10. Relies(p)'
  BY <1>8 DEF Relies, At
<1> QED
  BY <1>6, <1>7, <1>8, <1>9, <1>10, StaffStep, GrowsItself DEF StaffInv

LEMMA PromotesToAdmin == ASSUME StaffInv, NEW p \in Procs, PromoteToAdmin(p) PROVE StaffInv'
<1>1. calls[p] # <<>> /\ Call(p).op = "promote"
  BY DEF PromoteToAdmin, At
<1> QED
  BY <1>1, GoesOnAs, StaffReads, StaffRefuses DEF PromoteToAdmin

LEMMA UpdatesRole == ASSUME StaffInv, NEW p \in Procs, UpdateRole(p) PROVE StaffInv'
<1> DEFINE u == Call(p).user
<1>1. calls[p] # <<>> /\ Call(p).op = "role"
  BY DEF UpdateRole, At
<1>2. u \in Employees /\ Call(p).role \in Roles
  BY <1>1, StaffCall
<1>3. ASSUME db.seat[u] # Nothing, Commit(p, [db EXCEPT !.seat[u].role = Call(p).role]) PROVE StaffInv'
  <2> DEFINE s == [db.seat[u] EXCEPT !.role = Call(p).role]
  <2>1. db.user[u] # Nothing /\ s \in Seats
    BY <1>2, <1>3, SitsIsThere DEF Seats, Roles
  <2>2. [db EXCEPT !.seat[u].role = Call(p).role] = [db EXCEPT !.seat[u] = s]
    BY <1>2 DEF StaffInv, StaffKept, StaffTables
  <2> HIDE DEF s
  <2> QED
    BY <1>1, <1>2, <1>3, <2>1, <2>2, OneSeat, StaffAnswers DEF StaffInv
<1> QED
  BY <1>1, <1>3, StaffReads, StaffRefuses DEF UpdateRole

\* The membership is made active or inactive.
LEMMA SeatActive ==
    ASSUME StaffInv, NEW p \in Procs, calls[p] # <<>>, NEW u \in Employees, db.seat[u] # Nothing, NEW on \in BOOLEAN,
           Commit(p, [db EXCEPT !.seat[u].active = on])
    PROVE  StaffInv'
<1> DEFINE s == [db.seat[u] EXCEPT !.active = on]
<1>1. db.user[u] # Nothing /\ s \in Seats
  BY SitsIsThere DEF Seats
<1>2. [db EXCEPT !.seat[u].active = on] = [db EXCEPT !.seat[u] = s]
  BY DEF StaffInv, StaffKept, StaffTables
<1> HIDE DEF s
<1> QED
  BY <1>1, <1>2, OneSeat, StaffAnswers DEF StaffInv

LEMMA RemovesMember == ASSUME StaffInv, NEW p \in Procs, RemoveMember(p) PROVE StaffInv'
<1>1. calls[p] # <<>> /\ Call(p).op = "remove"
  BY DEF RemoveMember, At
<1>2. Call(p).user \in Employees
  BY <1>1, StaffCall
<1>3. ASSUME db.seat[Call(p).user] # Nothing, Commit(p, [db EXCEPT !.seat[Call(p).user].active = FALSE]) PROVE StaffInv'
  <2>1. FALSE \in BOOLEAN
    OBVIOUS
  <2> QED
    BY <1>1, <1>2, <1>3, <2>1, SeatActive
<1> QED
  BY <1>1, <1>3, StaffReads, StaffRefuses DEF RemoveMember

\* Two seats change in one transaction.
LEMMA Resigns == ASSUME StaffInv, NEW p \in Procs, Resign(p) PROVE StaffInv'
<1> DEFINE u == Call(p).user
           heir == Call(p).heir
<1>1. calls[p] # <<>> /\ Call(p).op = "resign"
  BY DEF Resign, At
<1>2. u \in Employees /\ heir \in Employees
  BY <1>1, StaffCall
<1>3. ASSUME db.seat[u] # Nothing, db.seat[heir] # Nothing,
             Commit(p, [db EXCEPT !.seat[heir].role = "branch_admin", !.seat[u].role = "teacher"])
      PROVE  StaffInv'
  <2> DEFINE first == [db.seat EXCEPT ![heir] = [db.seat[heir] EXCEPT !.role = "branch_admin"]]
             seat == [first EXCEPT ![u] = [first[u] EXCEPT !.role = "teacher"]]
  <2>1. db.seat \in [Employees -> {Nothing} \cup Seats] /\ db.seat[heir] \in Seats /\ db.seat[u] \in Seats
    BY <1>2, <1>3, SitsIsThere DEF StaffInv, StaffKept, StaffTables
  <2>2. \A s \in Seats, role \in Roles : [s EXCEPT !.role = role] \in Seats /\ [s EXCEPT !.role = role] # Nothing
    <3> SUFFICES ASSUME NEW s \in Seats, NEW role \in Roles
                 PROVE  [s EXCEPT !.role = role] \in Seats /\ [s EXCEPT !.role = role] # Nothing
      OBVIOUS
    <3>1. [s EXCEPT !.role = role] \in Seats
      BY DEF Seats, Roles
    <3> QED
      BY <3>1, StaffSceneAssumption
  <2>3. "branch_admin" \in Roles /\ "teacher" \in Roles
    BY DEF Roles
  <2>4. /\ first \in [Employees -> {Nothing} \cup Seats] /\ first[u] \in Seats
        /\ \A v \in Employees : db.seat[v] # Nothing <=> first[v] # Nothing
    BY <1>2, <1>3, <2>1, <2>2, <2>3
  <2>5. [db EXCEPT !.seat[heir].role = "branch_admin", !.seat[u].role = "teacher"] = [db EXCEPT !.seat = seat]
    BY <1>2, <2>1 DEF StaffInv, StaffKept, StaffTables
  <2> HIDE DEF first
  <2>6. /\ seat \in [Employees -> {Nothing} \cup Seats]
        /\ \A v \in Employees : db.seat[v] # Nothing <=> seat[v] # Nothing
    BY <1>2, <1>3, <2>2, <2>3, <2>4
  <2> HIDE DEF seat
  <2>7. \A v \in Employees : db.user[v] = Nothing => db.seat[v] = Nothing
    BY DEF StaffInv, StaffKept, Belongs
  <2> QED
    BY <1>1, <1>3, <2>5, <2>6, <2>7, SeatsWritten, StaffAnswers DEF StaffInv
<1> QED
  BY <1>1, <1>3, StaffReads, StaffRefuses DEF Resign

-----------------------------------------------------------------------------
LEMMA Invites == ASSUME StaffInv, NEW p \in Procs, Invite(p) PROVE StaffInv'
<1> DEFINE i == Call(p).invitation
           row == [email |-> Call(p).email, used |-> FALSE, made |-> {}]
<1>1. calls[p] # <<>> /\ Call(p).op = "invite"
  BY DEF Invite, At
<1>2. i \in Invitations /\ Call(p).email \in Emails
  BY <1>1, StaffCall
<1>3. ASSUME db.invite[i] = Nothing, Commit(p, [db EXCEPT !.invite[i] = row]) PROVE StaffInv'
  <2>1. [db EXCEPT !.invite[i] = row] = [db EXCEPT !.invite = [db.invite EXCEPT ![i] = row]]
    BY DEF StaffInv, StaffKept, StaffTables
  <2>2. StaffKept([db EXCEPT !.invite[i] = row]) /\ StaffGrows(db, [db EXCEPT !.invite[i] = row])
    BY <1>2, <1>3, <2>1, InvitationWritten DEF StaffInv
  <2> QED
    BY <1>1, <1>3, <2>2, StaffAnswers
<1> QED
  BY <1>1, <1>3, StaffReads, StaffRefuses DEF Invite

\* Account, used invitation, membership and profile are written together.
LEMMA Registers == ASSUME StaffInv, NEW p \in Procs, CompleteRegistration(p) PROVE StaffInv'
<1> PICK u, i : u = Call(p).user /\ i = Call(p).invitation
  OBVIOUS
<1>1. calls[p] # <<>> /\ Call(p).op = "register" /\ u \in Employees /\ i \in Invitations
  BY StaffCall DEF CompleteRegistration, At
<1>2. CASE At(p, "register", 0)
  BY <1>1, <1>2, StaffReads, StaffRefuses DEF CompleteRegistration, At
<1>3. CASE At(p, "register", 1) /\ ~MayInsert(u, db.invite[i].email)
  BY <1>1, <1>3, StaffRefuses DEF CompleteRegistration, RegisterTx, At
<1>4. CASE At(p, "register", 1) /\ MayInsert(u, db.invite[i].email)
  <2> DEFINE a == Account("management", db.invite[i].email)
             row == [email |-> db.invite[i].email, used |-> TRUE, made |-> db.invite[i].made \cup {u}]
             invite == [db.invite EXCEPT ![i] = row]
             tables == [db EXCEPT !.user[u] = a, !.invite[i] = Redeemed(i, u),
                                  !.seat[u] = Seat("branch_admin")]
  <2>1. Commit(p, tables)
    BY <1>1, <1>4 DEF CompleteRegistration, RegisterTx, At
  <2>2. /\ db.invite[i] \in [email : Emails, used : BOOLEAN, made : SUBSET Employees] /\ db.invite[i] # Nothing
        /\ db.invite \in [Invitations -> {Nothing} \cup [email : Emails, used : BOOLEAN, made : SUBSET Employees]]
    BY <1>1, <1>4 DEF StaffInv, StaffKept, StaffTables, Relies
  <2>3. a \in Accounts /\ a.role = "management" /\ a.profile /\ a.email = db.invite[i].email /\ a.email # Nothing
    <3>1. a \in Accounts
      BY <2>2, AccountsTyped
    <3> QED
      BY <2>2, <3>1, StaffSceneAssumption DEF Account
  <2>4. Seat("branch_admin") \in Seats /\ Seat("branch_admin") # Nothing
    BY AccountsTyped DEF Roles
  <2>5. /\ db.user[u] = Nothing /\ u \notin db.gone /\ db.tenures[u] = <<>>
        /\ \A v \in Employees : db.user[v] # Nothing => db.user[v].email # a.email
    BY <1>1, <1>4, <2>3 DEF MayInsert, Taken, Exists, StaffInv, StaffKept, Belongs
  <2>6. invite \in [Invitations -> {Nothing} \cup [email : Emails, used : BOOLEAN, made : SUBSET Employees]]
    <3>1. row \in [email : Emails, used : BOOLEAN, made : SUBSET Employees]
      BY <1>1, <2>2
    <3> HIDE DEF row
    <3> QED
      BY <2>2, <3>1
  <2> DEFINE made == [db EXCEPT !.user = [db.user EXCEPT ![u] = a], !.seat = [db.seat EXCEPT ![u] = Seat("branch_admin")],
                                !.tenures = [db.tenures EXCEPT ![u] = <<>>], !.invite = invite]
  <2>7. [db.tenures EXCEPT ![u] = <<>>] = db.tenures
    BY <1>1, <2>5 DEF StaffInv, StaffKept, StaffTables
  <2>8. tables = made
    <3>1. Redeemed(i, u) = row /\ db \in StaffTables
      BY DEF Redeemed, StaffInv, StaffKept
    <3> HIDE DEF a, row
    <3>2. tables = [db EXCEPT !.user = [db.user EXCEPT ![u] = a], !.invite = invite,
                              !.seat = [db.seat EXCEPT ![u] = Seat("branch_admin")]]
      BY <3>1 DEF StaffTables
    <3> HIDE DEF tables, invite
    <3> QED
      BY <2>7, <3>1, <3>2 DEF StaffTables
  <2>9. <<>> \in Seq({"open", "left"}) /\ InOrder(<<>>)
    BY DEF InOrder
  <2>10. \E j \in Invitations :
            /\ db.invite[j] # Nothing /\ a.role = "management" /\ a.profile /\ Seat("branch_admin") # Nothing
            /\ a.email = db.invite[j].email
            /\ invite = [db.invite EXCEPT ![j] = [email |-> db.invite[j].email, used |-> TRUE,
                                                  made |-> db.invite[j].made \cup {u}]]
    BY <1>1, <2>2, <2>3, <2>4
  <2> HIDE DEF a, row, invite
  <2>11. StaffKept(made) /\ StaffGrows(db, made)
    BY <1>1, <2>3, <2>4, <2>5, <2>6, <2>9, <2>10, AccountInserted DEF StaffInv
  <2> HIDE DEF tables, made
  <2> QED
    BY <1>1, <2>1, <2>8, <2>11, StaffAnswers
<1> QED
  BY <1>2, <1>3, <1>4 DEF CompleteRegistration

-----------------------------------------------------------------------------
\* An account made without an invitation: nobody else has its address.
LEMMA Hires ==
    ASSUME StaffInv, NEW p \in Procs, calls[p] # <<>>, NEW u \in Employees, NEW a \in Accounts, MayInsert(u, a.email),
           NEW s \in {Nothing} \cup Seats, NEW t \in Seq({"open", "left"}), InOrder(t)
    PROVE  LET e == [db EXCEPT !.user = [db.user EXCEPT ![u] = a], !.seat = [db.seat EXCEPT ![u] = s],
                               !.tenures = [db.tenures EXCEPT ![u] = t]]
           IN  StaffKept(e) /\ StaffGrows(db, e)
<1> DEFINE e == [db EXCEPT !.user = [db.user EXCEPT ![u] = a], !.seat = [db.seat EXCEPT ![u] = s],
                           !.tenures = [db.tenures EXCEPT ![u] = t]]
           made == [db EXCEPT !.user = [db.user EXCEPT ![u] = a], !.seat = [db.seat EXCEPT ![u] = s],
                              !.tenures = [db.tenures EXCEPT ![u] = t], !.invite = db.invite]
<1>1. /\ db.user[u] = Nothing /\ u \notin db.gone
      /\ a.email # Nothing => \A v \in Employees : db.user[v] # Nothing => db.user[v].email # a.email
  BY DEF MayInsert, Taken, Exists
<1>2. StaffKept(db) /\ db.invite \in [Invitations -> {Nothing} \cup [email : Emails, used : BOOLEAN, made : SUBSET Employees]]
  BY DEF StaffInv, StaffKept, StaffTables
<1>3. StaffKept(made) /\ StaffGrows(db, made)
  BY <1>1, <1>2, AccountInserted
<1>4. e = made
  BY <1>2 DEF StaffKept, StaffTables
<1> HIDE DEF e, made
<1>5. StaffKept(e) /\ StaffGrows(db, e)
  BY <1>3, <1>4
<1> QED
  BY <1>5 DEF e

LEMMA NoTenures ==
    ASSUME StaffInv, NEW u \in Employees, db.user[u] = Nothing
    PROVE  /\ [db.tenures EXCEPT ![u] = <<>>] = db.tenures /\ [db.seat EXCEPT ![u] = Nothing] = db.seat
           /\ <<>> \in Seq({"open", "left"}) /\ InOrder(<<>>)
<1>1. InOrder(<<>>) /\ <<>> \in Seq({"open", "left"})
  BY DEF InOrder
<1> QED
  BY <1>1 DEF StaffInv, StaffKept, StaffTables, Belongs

LEMMA CreatesStaff == ASSUME StaffInv, NEW p \in Procs, CreateStaff(p) PROVE StaffInv'
<1> PICK u, email : u = Call(p).user /\ email = Call(p).email
  OBVIOUS
<1>1. calls[p] # <<>> /\ Call(p).op = "hire" /\ u \in Employees /\ email \in Emails \cup {Nothing}
  BY StaffCall DEF CreateStaff, At
<1>2. ASSUME MayInsert(u, email),
             Commit(p, [db EXCEPT !.user[u] = Account("management", email), !.seat[u] = Seat("management")])
      PROVE  StaffInv'
  <2> DEFINE a == Account("management", email)
             e == [db EXCEPT !.user = [db.user EXCEPT ![u] = a], !.seat = [db.seat EXCEPT ![u] = Seat("management")],
                             !.tenures = [db.tenures EXCEPT ![u] = <<>>]]
  <2>1. a \in Accounts /\ a.email = email
    BY <1>1, AccountsTyped DEF Account
  <2>2. Seat("management") \in Seats
    BY AccountsTyped DEF Roles
  <2>3. db.user[u] = Nothing
    BY <1>2 DEF MayInsert, Exists
  <2> HIDE DEF a
  <2>4. StaffKept(e) /\ StaffGrows(db, e)
    BY <1>1, <1>2, <2>1, <2>2, <2>3, NoTenures, Hires
  <2>5. [db EXCEPT !.user[u] = a, !.seat[u] = Seat("management")] = e
    BY <1>1, <2>3, NoTenures DEF StaffInv, StaffKept, StaffTables
  <2> HIDE DEF e
  <2>6. Commit(p, e)
    BY <1>2, <2>5 DEF a
  <2> QED
    BY <1>1, <2>4, <2>6, StaffAnswers
<1> QED
  BY <1>1, <1>2, StaffReads, StaffRefuses DEF CreateStaff

LEMMA CreatesWorker == ASSUME StaffInv, NEW p \in Procs, CreateWorker(p) PROVE StaffInv'
<1> PICK u : u = Call(p).user
  OBVIOUS
<1>1. calls[p] # <<>> /\ Call(p).op = "work" /\ u \in Employees
  BY StaffCall DEF CreateWorker, At
<1>2. ASSUME MayInsert(u, Nothing),
             Commit(p, [db EXCEPT !.user[u] = Account("management", Nothing), !.seat[u] = Seat("worker"),
                                  !.tenures[u] = <<"open">>])
      PROVE  StaffInv'
  <2> DEFINE a == Account("management", Nothing)
             e == [db EXCEPT !.user = [db.user EXCEPT ![u] = a], !.seat = [db.seat EXCEPT ![u] = Seat("worker")],
                             !.tenures = [db.tenures EXCEPT ![u] = <<"open">>]]
  <2>1. a \in Accounts /\ a.email = Nothing
    BY AccountsTyped DEF Account
  <2>2. Seat("worker") \in Seats
    BY AccountsTyped DEF Roles
  <2>3. <<"open">> \in Seq({"open", "left"}) /\ InOrder(<<"open">>)
    BY DEF InOrder
  <2> HIDE DEF a
  <2>4. StaffKept(e) /\ StaffGrows(db, e)
    BY <1>1, <1>2, <2>1, <2>2, <2>3, Hires
  <2>5. [db EXCEPT !.user[u] = a, !.seat[u] = Seat("worker"), !.tenures[u] = <<"open">>] = e
    BY DEF StaffInv, StaffKept, StaffTables
  <2> HIDE DEF e
  <2>6. Commit(p, e)
    BY <1>2, <2>5 DEF a
  <2> QED
    BY <1>1, <2>4, <2>6, StaffAnswers
<1> QED
  BY <1>1, <1>2, StaffReads, StaffRefuses DEF CreateWorker

\* The account of somebody who is there is changed, but not its address.
LEMMA OneAccount ==
    ASSUME StaffInv, NEW u \in Employees, Exists(u), NEW a \in Accounts,
           a.role = db.user[u].role, a.role = "management" /\ db.user[u].profile => a.profile, a.email = db.user[u].email
    PROVE  StaffKept([db EXCEPT !.user[u] = a]) /\ StaffGrows(db, [db EXCEPT !.user[u] = a])
<1> DEFINE e == [db EXCEPT !.user = [db.user EXCEPT ![u] = a], !.moved = db.moved]
<1>1. db.moved \in SUBSET Employees /\ StaffKept(db) /\ db.user[u] # Nothing
  BY DEF StaffInv, StaffKept, StaffTables, Exists
<1>2. StaffKept(e) /\ StaffGrows(db, e)
  BY <1>1, AccountWritten
<1>3. [db EXCEPT !.user[u] = a] = e
  BY DEF StaffInv, StaffKept, StaffTables
<1> HIDE DEF e
<1> QED
  BY <1>2, <1>3

\* Account, profile and membership are three statements.
LEMMA CreatesTeacher == ASSUME StaffInv, NEW p \in Procs, CreateTeacher(p) PROVE StaffInv'
<1> PICK u : u = Call(p).user
  OBVIOUS
<1>1. calls[p] # <<>> /\ Call(p).op = "teacher" /\ u \in Employees
  BY StaffCall DEF CreateTeacher, At
<1>2. ASSUME MayInsert(u, Nothing),
             WriteTo(p, 1, [db EXCEPT !.user[u] = [Account("teacher", Nothing) EXCEPT !.profile = FALSE]])
      PROVE  StaffInv'
  <2> DEFINE a == [Account("teacher", Nothing) EXCEPT !.profile = FALSE]
             e == [db EXCEPT !.user = [db.user EXCEPT ![u] = a], !.seat = [db.seat EXCEPT ![u] = Nothing],
                             !.tenures = [db.tenures EXCEPT ![u] = <<>>]]
  <2>1. a \in Accounts /\ a.email = Nothing
    BY AccountsTyped DEF Account
  <2>2. db.user[u] = Nothing
    BY <1>2 DEF MayInsert, Exists
  <2> HIDE DEF a
  <2>3. StaffKept(e) /\ StaffGrows(db, e)
    BY <1>1, <1>2, <2>1, <2>2, NoTenures, Hires
  <2>4. [db EXCEPT !.user[u] = a] = e
    BY <1>1, <2>2, NoTenures DEF StaffInv, StaffKept, StaffTables
  <2> HIDE DEF e
  <2>5. WriteTo(p, 1, e) /\ 1 \in 0..16
    BY <1>2, <2>4 DEF a
  <2> QED
    BY <1>1, <2>3, <2>5, StaffWrites
<1>3. ASSUME Exists(u), WriteTo(p, 2, [db EXCEPT !.user[u].profile = TRUE]) PROVE StaffInv'
  <2> DEFINE a == [db.user[u] EXCEPT !.profile = TRUE]
  <2>1. a \in Accounts /\ a.role = db.user[u].role /\ a.profile /\ a.email = db.user[u].email
    BY <1>1, <1>3, IsThere DEF Accounts
  <2>2. [db EXCEPT !.user[u].profile = TRUE] = [db EXCEPT !.user[u] = a]
    BY <1>1 DEF StaffInv, StaffKept, StaffTables
  <2> HIDE DEF a
  <2>3. 2 \in 0..16
    OBVIOUS
  <2> QED
    BY <1>1, <1>3, <2>1, <2>2, <2>3, OneAccount, StaffWrites
<1>4. ASSUME Exists(u), Commit(p, [db EXCEPT !.seat[u] = Seat("teacher")]) PROVE StaffInv'
  <2>1. Seat("teacher") \in Seats
    BY AccountsTyped DEF Roles
  <2> QED
    BY <1>1, <1>4, <2>1, OneSeat, StaffAnswers DEF StaffInv, Exists
<1> QED
  BY <1>1, <1>2, <1>3, <1>4, StaffRefuses DEF CreateTeacher

\* Account and membership are switched in two statements.
LEMMA SetsActive ==
    ASSUME StaffInv, NEW p \in Procs, NEW op \in {"turn", "turnTeacher"}, NEW known, SetActive(p, op, known)
    PROVE  StaffInv'
<1> PICK u, on : u = Call(p).user /\ on = Call(p).on
  OBVIOUS
<1>1. calls[p] # <<>> /\ Call(p).op \in {"turn", "turnTeacher"} /\ u \in Employees /\ on \in BOOLEAN
  BY StaffCall DEF SetActive, At
<1>2. ASSUME Exists(u), WriteTo(p, 2, [db EXCEPT !.user[u].active = on]) PROVE StaffInv'
  <2> DEFINE a == [db.user[u] EXCEPT !.active = on]
  <2>1. /\ a \in Accounts /\ a.role = db.user[u].role /\ a.email = db.user[u].email
        /\ a.profile = db.user[u].profile
    BY <1>1, <1>2, IsThere DEF Accounts
  <2>2. [db EXCEPT !.user[u].active = on] = [db EXCEPT !.user[u] = a]
    BY <1>1 DEF StaffInv, StaffKept, StaffTables
  <2> HIDE DEF a
  <2>3. 2 \in 0..16
    OBVIOUS
  <2> QED
    BY <1>1, <1>2, <2>1, <2>2, <2>3, OneAccount, StaffWrites
<1>3. ASSUME ReadTo(p, 1, {}) PROVE StaffInv'
  BY <1>1, <1>3, StaffReads
<1> QED
  BY <1>1, <1>2, <1>3, SeatActive, StaffRefuses DEF SetActive

\* The e-mail is changed, to one that nobody else has, and that is remembered.
LEMMA UpdatesProfile == ASSUME StaffInv, NEW p \in Procs, UpdateStaffProfile(p) PROVE StaffInv'
<1> PICK u, email : u = Call(p).user /\ email = Call(p).email
  OBVIOUS
<1>1. calls[p] # <<>> /\ Call(p).op = "edit" /\ u \in Employees /\ email \in Emails \cup {Nothing}
  BY StaffCall DEF UpdateStaffProfile, At
<1> DEFINE moved == IF db.user[u].email = email THEN db.moved ELSE db.moved \cup {u}
           tables == [db EXCEPT !.user[u].email = email,
                                !.moved = IF db.user[u].email = email THEN @ ELSE @ \cup {u}]
<1>2. ASSUME Exists(u), Commit(p, tables),
             email # Nothing => \A v \in Employees \ {u} : ~(Exists(v) /\ db.user[v].email = email)
      PROVE  StaffInv'
  <2> DEFINE a == [db.user[u] EXCEPT !.email = email]
             e == [db EXCEPT !.user = [db.user EXCEPT ![u] = a], !.moved = moved]
  <2>1. /\ a \in Accounts /\ a.role = db.user[u].role /\ a.email = email
        /\ a.profile = db.user[u].profile
    BY <1>1, <1>2, IsThere DEF Accounts
  <2>2. moved \in SUBSET Employees /\ db.moved \subseteq moved /\ (email # db.user[u].email => u \in moved)
    BY <1>1 DEF StaffInv, StaffKept, StaffTables
  <2>3. tables = e
    BY <1>1 DEF StaffInv, StaffKept, StaffTables
  <2>4. email # Nothing => \A v \in Employees \ {u} : db.user[v] # Nothing => db.user[v].email # email
    BY <1>2 DEF Exists
  <2> HIDE DEF a, moved
  <2>5. StaffKept(e) /\ StaffGrows(db, e)
    BY <1>1, <1>2, <2>1, <2>2, <2>4, AccountWritten DEF StaffInv, Exists
  <2> HIDE DEF tables, e
  <2> QED
    BY <1>1, <1>2, <2>3, <2>5, StaffAnswers
<1>3. CASE At(p, "edit", 0)
  BY <1>1, <1>3, StaffReads, StaffRefuses DEF UpdateStaffProfile, At
<1>4. CASE At(p, "edit", 1)
  BY <1>1, <1>2, <1>4, StaffRefuses DEF UpdateStaffProfile, At
<1> QED
  BY <1>3, <1>4 DEF UpdateStaffProfile

LEMMA DeletesStaff == ASSUME StaffInv, NEW p \in Procs, DeleteStaff(p) PROVE StaffInv'
<1>1. calls[p] # <<>> /\ Call(p).op = "fire" /\ Call(p).user \in Employees
  BY StaffCall DEF DeleteStaff, At
<1> QED
  BY <1>1, AccountDeleted, StaffReads, StaffRefuses, StaffAnswers DEF DeleteStaff, StaffInv

\* The teacher's profile goes first; it is never that of an invited administrator.
LEMMA DeletesTeacher == ASSUME StaffInv, NEW p \in Procs, DeleteTeacher(p) PROVE StaffInv'
<1> PICK u : u = Call(p).user
  OBVIOUS
<1>1. calls[p] # <<>> /\ Call(p).op = "dismiss" /\ u \in Employees
  BY StaffCall DEF DeleteTeacher, At
<1>2. ASSUME Teaches(u), WriteTo(p, 2, [db EXCEPT !.user[u].profile = FALSE]) PROVE StaffInv'
  <2> DEFINE a == [db.user[u] EXCEPT !.profile = FALSE]
  <2>1. Exists(u) /\ a \in Accounts /\ a.role = db.user[u].role /\ a.role = "teacher" /\ a.email = db.user[u].email
    BY <1>1, <1>2, IsThere DEF Accounts, Teaches
  <2>2. [db EXCEPT !.user[u].profile = FALSE] = [db EXCEPT !.user[u] = a]
    BY <1>1 DEF StaffInv, StaffKept, StaffTables
  <2> HIDE DEF a
  <2>3. 2 \in 0..16
    OBVIOUS
  <2> QED
    BY <1>1, <1>2, <2>1, <2>2, <2>3, OneAccount, StaffWrites
<1>3. ASSUME Commit(p, Deleted(u)) PROVE StaffInv'
  BY <1>1, <1>3, AccountDeleted, StaffAnswers DEF StaffInv
<1>4. ASSUME ReadTo(p, 1, {}) PROVE StaffInv'
  BY <1>1, <1>4, StaffReads
<1> QED
  BY <1>1, <1>2, <1>3, <1>4, StaffRefuses DEF DeleteTeacher

-----------------------------------------------------------------------------
LEMMA AssignsLesson == ASSUME StaffInv, NEW p \in Procs, Assign(p) \/ SetLead(p) \/ Unassign(p) PROVE StaffInv'
<1> PICK u : u = Call(p).user
  OBVIOUS
<1>1. calls[p] # <<>> /\ Call(p).op \in {"assign", "lead", "unassign"} /\ u \in Employees
  BY StaffCall DEF Assign, SetLead, Unassign, At
<1>2. db.lessons \in SUBSET Employees /\ db.leads \in SUBSET Employees /\ db \in StaffTables /\ StaffKept(db)
  BY DEF StaffInv, StaffKept, StaffTables
<1>3. ASSUME NEW lessons \in SUBSET Employees, NEW leads \in SUBSET Employees, NEW tables,
             tables = [db EXCEPT !.lessons = lessons, !.leads = leads]
      PROVE  StaffKept(tables) /\ StaffGrows(db, tables)
  BY <1>2, <1>3, LessonsWritten
<1>4. CASE Assign(p)
  <2>1. ASSUME Commit(p, [db EXCEPT !.lessons = @ \cup {u}, !.leads = IF Call(p).lead THEN @ \cup {u} ELSE @])
        PROVE  StaffInv'
    <3> DEFINE lessons == db.lessons \cup {u}
               leads == IF Call(p).lead THEN db.leads \cup {u} ELSE db.leads
    <3>1. lessons \in SUBSET Employees /\ leads \in SUBSET Employees
      BY <1>1, <1>2
    <3> QED
      BY <1>1, <1>3, <2>1, <3>1, StaffAnswers
  <2>2. ASSUME ReadTo(p, 1, {}) PROVE StaffInv'
    BY <1>1, <2>2, StaffReads
  <2> QED
    BY <1>1, <1>4, <2>1, <2>2, StaffRefuses DEF Assign
<1>5. CASE SetLead(p)
  <2>1. ASSUME NEW leads \in SUBSET Employees
        PROVE  StaffKept([db EXCEPT !.leads = leads]) /\ StaffGrows(db, [db EXCEPT !.leads = leads])
    <3>1. [db EXCEPT !.leads = leads] = [db EXCEPT !.lessons = db.lessons, !.leads = leads]
      BY <1>2 DEF StaffTables
    <3> QED
      BY <1>2, <1>3, <3>1
  <2>2. db.leads \cap {u} \in SUBSET Employees /\ db.leads \cup {u} \in SUBSET Employees /\ 1 \in 0..16
    BY <1>1, <1>2
  <2>3. ASSUME WriteTo(p, 1, [db EXCEPT !.leads = @ \cap {u}]) PROVE StaffInv'
    BY <1>1, <2>1, <2>2, <2>3, StaffWrites
  <2>4. ASSUME Commit(p, [db EXCEPT !.leads = @ \cup {u}]) PROVE StaffInv'
    BY <1>1, <2>1, <2>2, <2>4, StaffAnswers
  <2> QED
    BY <1>1, <1>5, <2>3, <2>4, StaffRefuses DEF SetLead
<1>6. CASE Unassign(p)
  <2>1. db.lessons \ {u} \in SUBSET Employees /\ db.leads \ {u} \in SUBSET Employees
    BY <1>2
  <2> QED
    BY <1>1, <1>3, <1>6, <2>1, StaffAnswers DEF Unassign
<1> QED
  BY <1>4, <1>5, <1>6

\* Listing the teachers seats them one by one.
LEMMA SyncsTeachers == ASSUME StaffInv, NEW p \in Procs, SyncTeachers(p) PROVE StaffInv'
<1>1. calls[p] # <<>> /\ Call(p).op = "sync"
  BY DEF SyncTeachers, SeatOne, At
<1>2. ASSUME NEW u, u \in Employees => Exists(u), db' = [db EXCEPT !.seat[u] = Seat("teacher")],
             loc' = [loc EXCEPT ![p] = @ \ {u}], UNCHANGED <<pc, calls, scene>>
      PROVE  StaffInv'
  <2>1. Seat("teacher") \in Seats
    BY AccountsTyped DEF Roles
  <2>2. StaffKept(db') /\ StaffGrows(db, db')
    BY <1>2, <2>1, OneSeat DEF StaffInv, Exists
  <2>3. InControl(StaffCalls)' /\ \A q \in Procs \ {p} : loc'[q] = loc[q]
    BY <1>1, <1>2 DEF StaffInv, InControl
  <2>4. Relies(p)'
    BY <1>1, <1>2 DEF Relies, At, Call
  <2> QED
    BY <1>2, <2>2, <2>3, <2>4, StaffStep
<1>3. ASSUME NEW n, SeatOne(p, n) PROVE StaffInv'
  BY <1>1, <1>2, <1>3, StaffRefuses DEF SeatOne
<1>4. ASSUME NEW n \in 1..2, NEW saw, ReadTo(p, n, saw) PROVE StaffInv'
  <2>1. n \in 0..16
    OBVIOUS
  <2> QED
    BY <1>1, <1>4, <2>1, StaffReads
<1> QED
  BY <1>1, <1>3, <1>4, StaffRefuses DEF SyncTeachers

\* A tenure is appended after the closed ones, by the index on the sequence.
LEMMA OpensTenure ==
    ASSUME NEW s \in Seq({"open", "left"}), InOrder(s), ~LastOpen(s)
    PROVE  /\ Append(s, "open") \in Seq({"open", "left"}) /\ InOrder(Append(s, "open"))
           /\ Len(Append(s, "open")) = Len(s) + 1 /\ Len(s) \in Nat
<1>1. /\ Append(s, "open") \in Seq({"open", "left"}) /\ Len(Append(s, "open")) = Len(s) + 1 /\ Len(s) \in Nat
      /\ \A n \in 1..Len(s) : Append(s, "open")[n] = s[n] /\ s[n] \in {"open", "left"}
  OBVIOUS
<1>2. Len(s) > 0 => s[Len(s)] = "left"
  BY DEF LastOpen
<1>3. \A n \in 1..Len(s) : s[n] = "left"
  BY <1>1, <1>2 DEF InOrder
<1> QED
  BY <1>1, <1>3 DEF InOrder

LEMMA Joins == ASSUME StaffInv, NEW p \in Procs, Join(p) PROVE StaffInv'
<1> PICK u : u = Call(p).user
  OBVIOUS
<1>1. calls[p] # <<>> /\ Call(p).op = "join" /\ u \in Employees
  BY StaffCall DEF Join, At
<1>2. db.tenures \in [Employees -> Seq({"open", "left"})] /\ db.tenures[u] \in Seq({"open", "left"}) /\ InOrder(db.tenures[u])
  BY <1>1 DEF StaffInv, StaffKept, StaffTables
<1>3. CASE At(p, "join", 0)
  <2>1. ASSUME db.seat[u] # Nothing, ~LastOpen(db.tenures[u]) PROVE Fits(db, u, Len(db.tenures[u]))
    <3>1. db.user[u] # Nothing /\ Len(db.tenures[u]) \in Nat
      BY <1>1, <1>2, <2>1, SitsIsThere
    <3> QED
      BY <2>1, <3>1 DEF Fits
  <2> QED
    BY <1>1, <1>3, <2>1, StaffReads, StaffRefuses DEF Join, At
<1>4. CASE At(p, "join", 1) /\ db.seat[u] # Nothing /\ Len(db.tenures[u]) = loc[p]
  <2> DEFINE s == Append(db.tenures[u], "open")
  <2>1. Commit(p, [db EXCEPT !.tenures[u] = s])
    BY <1>1, <1>4 DEF Join, At
  <2>2. db.user[u] # Nothing /\ u \notin db.gone
    BY <1>1, <1>4, SitsIsThere DEF StaffInv, StaffKept, Belongs
  <2>3. ~LastOpen(db.tenures[u])
    BY <1>1, <1>4, <2>2 DEF StaffInv, Relies, Fits
  <2>4. s \in Seq({"open", "left"}) /\ InOrder(s) /\ Len(s) = Len(db.tenures[u]) + 1 /\ Len(db.tenures[u]) \in Nat
    BY <1>2, <2>3, OpensTenure
  <2>5. [db EXCEPT !.tenures[u] = s] = [db EXCEPT !.tenures = [db.tenures EXCEPT ![u] = s]]
    BY DEF StaffInv, StaffKept, StaffTables
  <2> HIDE DEF s
  <2>6. StaffKept([db EXCEPT !.tenures[u] = s]) /\ StaffGrows(db, [db EXCEPT !.tenures[u] = s])
    BY <1>1, <2>2, <2>4, <2>5, TenuresWritten DEF StaffInv
  <2> QED
    BY <1>1, <2>1, <2>6, StaffAnswers
<1> QED
  BY <1>1, <1>3, <1>4, StaffRefuses DEF Join

LEMMA Leaves == ASSUME StaffInv, NEW p \in Procs, Leave(p) PROVE StaffInv'
<1> PICK u, n : u = Call(p).user /\ n = loc[p]
  OBVIOUS
<1>1. calls[p] # <<>> /\ Call(p).op = "leave" /\ u \in Employees
  BY StaffCall DEF Leave, At
<1>2. db.tenures \in [Employees -> Seq({"open", "left"})] /\ db.tenures[u] \in Seq({"open", "left"}) /\ InOrder(db.tenures[u])
  BY <1>1 DEF StaffInv, StaffKept, StaffTables
<1>3. ASSUME n \in DOMAIN db.tenures[u], Commit(p, [db EXCEPT !.tenures[u][n] = "left"]) PROVE StaffInv'
  <2> DEFINE s == [db.tenures[u] EXCEPT ![n] = "left"]
  <2>1. s \in Seq({"open", "left"}) /\ Len(s) = Len(db.tenures[u]) /\ Len(s) \in Nat
        /\ \A k \in 1..Len(s) : s[k] = "left" \/ s[k] = db.tenures[u][k]
    BY <1>2, <1>3
  <2>2. [db EXCEPT !.tenures[u][n] = "left"] = [db EXCEPT !.tenures = [db.tenures EXCEPT ![u] = s]]
    BY DEF StaffInv, StaffKept, StaffTables
  <2>3. db.user[u] # Nothing
    BY <1>1, <1>3 DEF StaffInv, StaffKept, Belongs
  <2> HIDE DEF s
  <2>4. InOrder(s)
    BY <1>2, <2>1 DEF InOrder
  <2>5. LastOpen(s) => LastOpen(db.tenures[u])
    <3>1. Len(s) > 0 => Len(s) \in 1..Len(s)
      BY <2>1
    <3>2. s # <<>> => Len(s) > 0
      BY <2>1
    <3> QED
      BY <2>1, <3>1, <3>2 DEF LastOpen
  <2>6. StaffKept([db EXCEPT !.tenures[u][n] = "left"]) /\ StaffGrows(db, [db EXCEPT !.tenures[u][n] = "left"])
    BY <1>1, <2>1, <2>2, <2>3, <2>4, <2>5, TenuresWritten DEF StaffInv
  <2> QED
    BY <1>1, <1>3, <2>6, StaffAnswers
<1>4. ASSUME NEW saw, ReadTo(p, 1, saw) PROVE StaffInv'
  BY <1>1, <1>4, StaffReads
<1> QED
  BY <1>1, <1>3, <1>4, StaffRefuses DEF Leave

\* No handler touches the scene.
LEMMA SceneStays == ASSUME [StaffNext]_handlerVars PROVE scene' = scene
<1>1. /\ \A p \in Procs : \A k, saw, new :
             ReadTo(p, k, saw) \/ WriteTo(p, k, new) \/ Commit(p, new) \/ Refuse(p) => scene' = scene
      /\ \A p \in Procs : \A op : GoOnAs(p, op) => scene' = scene
  BY DEF ReadTo, WriteTo, Commit, Refuse, GoOnAs
<1>2. ASSUME NEW p \in Procs, AddMember(p) PROVE scene' = scene
  BY <1>1, <1>2 DEF AddMember
<1>3. ASSUME NEW p \in Procs, PromoteToAdmin(p) PROVE scene' = scene
  BY <1>1, <1>3 DEF PromoteToAdmin
<1>4. ASSUME NEW p \in Procs, UpdateRole(p) PROVE scene' = scene
  BY <1>1, <1>4 DEF UpdateRole
<1>5. ASSUME NEW p \in Procs, RemoveMember(p) PROVE scene' = scene
  BY <1>1, <1>5 DEF RemoveMember
<1>6. ASSUME NEW p \in Procs, Resign(p) PROVE scene' = scene
  BY <1>1, <1>6 DEF Resign
<1>7. ASSUME NEW p \in Procs, Invite(p) PROVE scene' = scene
  BY <1>1, <1>7 DEF Invite
<1>8. ASSUME NEW p \in Procs, CompleteRegistration(p) PROVE scene' = scene
  BY <1>1, <1>8 DEF CompleteRegistration, RegisterTx
<1>9. ASSUME NEW p \in Procs, CreateStaff(p) PROVE scene' = scene
  BY <1>1, <1>9 DEF CreateStaff
<1>10. ASSUME NEW p \in Procs, CreateWorker(p) PROVE scene' = scene
  BY <1>1, <1>10 DEF CreateWorker
<1>11. ASSUME NEW p \in Procs, CreateTeacher(p) PROVE scene' = scene
  BY <1>1, <1>11 DEF CreateTeacher
<1>12. ASSUME NEW p \in Procs, TurnStaff(p) PROVE scene' = scene
  BY <1>1, <1>12 DEF TurnStaff, SetActive
<1>13. ASSUME NEW p \in Procs, TurnTeacher(p) PROVE scene' = scene
  BY <1>1, <1>13 DEF TurnTeacher, SetActive
<1>14. ASSUME NEW p \in Procs, UpdateStaffProfile(p) PROVE scene' = scene
  BY <1>1, <1>14 DEF UpdateStaffProfile
<1>15. ASSUME NEW p \in Procs, DeleteStaff(p) PROVE scene' = scene
  BY <1>1, <1>15 DEF DeleteStaff
<1>16. ASSUME NEW p \in Procs, DeleteTeacher(p) PROVE scene' = scene
  BY <1>1, <1>16 DEF DeleteTeacher
<1>17. ASSUME NEW p \in Procs, Assign(p) PROVE scene' = scene
  BY <1>1, <1>17 DEF Assign
<1>18. ASSUME NEW p \in Procs, SetLead(p) PROVE scene' = scene
  BY <1>1, <1>18 DEF SetLead
<1>19. ASSUME NEW p \in Procs, Unassign(p) PROVE scene' = scene
  BY <1>1, <1>19 DEF Unassign
<1>20. ASSUME NEW p \in Procs, SyncTeachers(p) PROVE scene' = scene
  BY <1>1, <1>20 DEF SyncTeachers, SeatOne
<1>21. ASSUME NEW p \in Procs, Join(p) PROVE scene' = scene
  BY <1>1, <1>21 DEF Join
<1>22. ASSUME NEW p \in Procs, Leave(p) PROVE scene' = scene
  BY <1>1, <1>22 DEF Leave
<1>23. CASE Rest \/ UNCHANGED handlerVars
  BY <1>23 DEF Rest, handlerVars
<1> QED
  BY <1>2, <1>3, <1>4, <1>5, <1>6, <1>7, <1>8, <1>9, <1>10, <1>11, <1>12,
     <1>13, <1>14, <1>15, <1>16, <1>17, <1>18, <1>19, <1>20, <1>21, <1>22, <1>23 DEF StaffNext

-----------------------------------------------------------------------------
\* The branch's staff: tenures follow one another, and an invitation makes one whole account.
THEOREM StaffIsSound == StaffSpec => []StaffSound
<1> DEFINE Inv == Of("staff") => StaffInv
<1>1. StaffInit => Inv
  BY StaffStarts DEF StaffInit
<1>2. Inv /\ [StaffNext]_handlerVars => Inv'
  <2> SUFFICES ASSUME Inv, [StaffNext]_handlerVars PROVE Inv'
    OBVIOUS
  <2>1. scene' = scene
    BY SceneStays
  <2> SUFFICES ASSUME Of("staff") PROVE StaffInv'
    BY <2>1 DEF Of
  <2>2. StaffInv
    OBVIOUS
  <2>3. ASSUME NEW p \in Procs, TurnStaff(p) \/ TurnTeacher(p) PROVE StaffInv'
    BY <2>2, <2>3, SetsActive DEF TurnStaff, TurnTeacher
  <2>4. CASE UNCHANGED handlerVars
    BY <2>2, <2>4 DEF StaffInv, InControl, Relies, At, Fits, Call, handlerVars
  <2> QED
    BY <2>2, <2>3, <2>4, AddsMember, PromotesToAdmin, UpdatesRole, RemovesMember, Resigns, Invites, Registers,
       CreatesStaff, CreatesWorker, CreatesTeacher, UpdatesProfile, DeletesStaff, DeletesTeacher, AssignsLesson,
       SyncsTeachers, Joins, Leaves DEF StaffNext, Rest
<1>3. Inv => StaffSound
  BY StaffInvHolds DEF StaffSound
<1> QED
  BY <1>1, <1>2, <1>3, PTL DEF StaffSpec

-----------------------------------------------------------------------------
(* Payroll, for any payees, months, keys, callers and calls.               *)

\* A handler that computes months, and what it carries along.
OnWork(p) ==
    calls[p] # <<>> /\ (\/ Call(p).op \in {"pay", "bulk", "list"} /\ pc[p] > 0
                        \/ Call(p).op = "void" /\ pc[p] > 1)
Running(p) == calls[p] # <<>> /\ Call(p).op = "bulk" /\ pc[p] \in (3..13) \cup {15, 16}
\* The payments of a run were made for the items before the one it is at.
PaidUpTo(p) ==
    /\ loc[p].run \in DOMAIN db.runs
    /\ \A n \in DOMAIN db.paid : db.paid[n].run = loc[p].run =>
          \E j \in 1..loc[p].k : loc[p].users[j] = db.paid[n].payee /\ (j = loc[p].k => pc[p] > 8)
PayHolds(p) ==
    /\ OnWork(p) => loc[p] \in Works /\ loc[p].k \in DOMAIN loc[p].users
    /\ OnWork(p) /\ ~Running(p) => loc[p].run = 0
    /\ Running(p) => PaidUpTo(p)
    /\ At(p, "spend", 1) => Call(p).provider \in Providers
    /\ At(p, "void", 1) => Call(p).number \in DOMAIN db.paid
    /\ Paying(p) /\ pc[p] = 14 => Call(p).key # Nothing
    /\ Paying(p) /\ pc[p] \in {2, 15} => Call(p).op = "bulk"
    /\ Paying(p) /\ pc[p] > 0 /\ (Call(p).op = "bulk" \/ pc[p] < 9) => loc[p].how = "paid"

\* A key and an item of a run have one payment; keys are of payments of payees, for months.
PaidApart(d) ==
    /\ \A i \in DOMAIN d.paid :
          IF d.paid[i].payee = Nothing THEN d.paid[i].key = Nothing ELSE d.paid[i].month \in Months
    /\ \A i, j \in DOMAIN d.paid : d.paid[i].key # Nothing /\ d.paid[i].key = d.paid[j].key => i = j
    /\ \A i, j \in DOMAIN d.runs : d.runs[i].key # Nothing /\ d.runs[i].key = d.runs[j].key => i = j
    /\ \A i \in DOMAIN d.paid : d.paid[i].run \in 0..Len(d.runs)
    /\ \A i, j \in DOMAIN d.paid :
          d.paid[i].run # 0 /\ d.paid[i].run = d.paid[j].run /\ d.paid[i].payee = d.paid[j].payee => i = j
PayrollKept(d) == d \in PayrollTables /\ IsFiniteSet(d.marks) /\ PaidApart(d)

\* Alone: what is paid is in the stored month, or its month was left behind or is still to
\* be computed, by a handler that paid or voided; a replay finds a month that adds up.
OnlySpends(p) == \A n \in DOMAIN calls[p] : calls[p][n].op = "spend"
Adds(d, u, m) ==
    <<u, m>> \notin d.behind /\ d.balance[u][m] # Nothing =>
        d.balance[u][m].closing = d.balance[u][m].opening + d.balance[u][m].earned - PaidIn(d.paid, u, m)
Recomputes(p) == calls[p] # <<>> /\ ((Paying(p) /\ pc[p] \in (9..13) \cup {16}) \/ (Call(p).op = "void" /\ pc[p] \in 2..7))
Pending(p, u, m) == Recomputes(p) /\ loc[p].how = "paid" /\ Current(p) = u /\ loc[p].month = m
\* What was read of the payments is what they are when it is written.
PaidAsRead(p) ==
    /\ calls[p] # <<>> /\ ((Paying(p) /\ pc[p] \in {6, 13}) \/ (Call(p).op = "void" /\ pc[p] = 6))
          => loc[p].paid[Current(p)] = PaidFor(Current(p), loc[p].month)
    /\ At(p, "list", 4) =>
          \A j \in DOMAIN loc[p].users : loc[p].paid[loc[p].users[j]] = PaidFor(loc[p].users[j], loc[p].month)
AloneHolds ==
    /\ \A p, q \in Procs : p = q \/ OnlySpends(p) \/ OnlySpends(q)
    /\ \A u \in Payees, m \in Months : Adds(db, u, m) \/ \E p \in Procs : Pending(p, u, m)
    /\ \A p \in Procs : PaidAsRead(p)

PayrollInv ==
    /\ scene.part = "payroll" /\ InControl(PayCalls) /\ PayrollKept(db)
    /\ \A p \in Procs : PayHolds(p)
    /\ \A p, q \in Procs : Running(p) /\ Running(q) /\ loc[p].run = loc[q].run => p = q
    /\ scene.alone => AloneHolds

\* What a step may do to the payments: rows are appended, for no run or for this one.
GrowsBy(d, e, run) ==
    /\ DOMAIN d.paid \subseteq DOMAIN e.paid /\ DOMAIN d.runs \subseteq DOMAIN e.runs
    /\ \A n \in DOMAIN e.paid :
          \/ n \in DOMAIN d.paid /\ e.paid[n].run = d.paid[n].run /\ e.paid[n].payee = d.paid[n].payee
          \/ e.paid[n].run \in {0, run}
SumsSame(d, e) == \A u \in Payees, m \in Months : PaidIn(e.paid, u, m) = PaidIn(d.paid, u, m)
AddsStill(d, e) == \A u \in Payees, m \in Months : Adds(d, u, m) => Adds(e, u, m)

\* What is paid for a month is a sum of amounts, of the rows of that month alone.
LEMMA PaidTyped == ASSUME NEW rows \in Seq(PaidRows), NEW u, NEW m PROVE PaidIn(rows, u, m) \in Nat
<1> DEFINE f == [n \in DOMAIN rows |-> rows[n].amount]
           S == {n \in DOMAIN rows : rows[n].payee = u /\ rows[n].month = m /\ ~rows[n].void}
<1>1. IsFiniteSet(S)
  <2>1. DOMAIN rows = 1..Len(rows) /\ Len(rows) \in Nat
    OBVIOUS
  <2>2. IsFiniteSet(1..Len(rows))
    BY <2>1, FS_Interval
  <2> QED
    BY <2>1, <2>2, FS_Subset
<1>2. \A n \in S : f[n] \in Nat
  <2>1. \A n \in DOMAIN rows : rows[n] \in PaidRows
    OBVIOUS
  <2> QED
    BY <2>1 DEF PaidRows
<1> HIDE DEF f, S
<1>3. SumFunctionOnSet(f, S) \in Nat
  BY <1>1, <1>2, SumNat
<1> QED
  BY <1>3 DEF PaidIn, f, S

LEMMA PaidSame ==
    ASSUME NEW rows \in Seq(PaidRows), NEW new \in Seq(PaidRows), NEW u, NEW m, DOMAIN rows \subseteq DOMAIN new,
           \A n \in DOMAIN new :
               \/ n \in DOMAIN rows /\ new[n] = rows[n]
               \/ /\ ~(new[n].payee = u /\ new[n].month = m /\ ~new[n].void)
                  /\ n \in DOMAIN rows => ~(rows[n].payee = u /\ rows[n].month = m /\ ~rows[n].void)
    PROVE  PaidIn(new, u, m) = PaidIn(rows, u, m)
<1> DEFINE f == [n \in DOMAIN rows |-> rows[n].amount]
           g == [n \in DOMAIN new |-> new[n].amount]
           S == {n \in DOMAIN rows : rows[n].payee = u /\ rows[n].month = m /\ ~rows[n].void}
<1>1. IsFiniteSet(S)
  <2>1. DOMAIN rows = 1..Len(rows) /\ Len(rows) \in Nat
    OBVIOUS
  <2>2. IsFiniteSet(1..Len(rows))
    BY <2>1, FS_Interval
  <2> QED
    BY <2>1, <2>2, FS_Subset
<1>2. S = {n \in DOMAIN new : new[n].payee = u /\ new[n].month = m /\ ~new[n].void}
  OBVIOUS
<1>3. \A n \in S : f[n] \in Int /\ g[n] = f[n]
  <2>1. \A n \in S : n \in DOMAIN rows /\ n \in DOMAIN new /\ rows[n] \in PaidRows /\ new[n] = rows[n]
    OBVIOUS
  <2>2. \A row \in PaidRows : row.amount \in Nat
    BY DEF PaidRows
  <2>3. \A n \in S : f[n] = rows[n].amount /\ g[n] = new[n].amount
    BY <2>1
  <2> HIDE DEF f, g, S
  <2> QED
    BY <2>1, <2>2, <2>3
<1>4. PaidIn(new, u, m) = SumFunctionOnSet(g, S)
  BY <1>2 DEF PaidIn
<1> HIDE DEF f, g, S
<1>5. SumFunctionOnSet(g, S) = SumFunctionOnSet(f, S)
  BY <1>1, <1>3, SumSame
<1> QED
  BY <1>4, <1>5 DEF PaidIn, f, S

LEMMA EarnedTyped ==
    ASSUME PayrollKept(db), NEW u \in Payees, NEW m, NEW year PROVE Earned(u, m, year) \in Int
<1> DEFINE days == WorkingDays(u, m)
           f == [r \in db.marks |-> PayWeight(r.status)]
           S == {r \in db.marks : r.year = year /\ r.payee = u /\ r.month = m /\ r.day \in days}
           worth == SumFunctionOnSet(f, S)
           over == IF days = {} THEN 2 ELSE Cardinality(days)
<1>1. worth \in Nat
  <2>1. IsFiniteSet(S)
    BY FS_Subset DEF PayrollKept
  <2>2. \A r \in S : f[r] \in Nat
    BY DEF PayWeight
  <2> HIDE DEF f, S
  <2> QED
    BY <2>1, <2>2, SumNat
<1>2. over \in Nat \ {0}
  <2>1. days \subseteq {1} \cup {2} /\ IsFiniteSet({1} \cup {2})
    <3>1. IsFiniteSet({1})
      BY FS_Singleton
    <3>2. IsFiniteSet({1} \cup {2})
      BY <3>1, FS_AddElement
    <3> QED
      BY <3>2 DEF WorkingDays
  <2>2. IsFiniteSet(days)
    BY <2>1, FS_Subset
  <2>3. Cardinality(days) \in Nat /\ (days # {} => Cardinality(days) # 0)
    BY <2>2, FS_CardinalityType, FS_EmptySet
  <2> QED
    BY <2>3
<1>3. \A a \in Int, b \in Nat \ {0} : a \div (4 * b) \in Int
  OBVIOUS
<1> HIDE DEF worth, over
<1>4. Salary * worth \in Int
  BY <1>1, PayrollSceneAssumption
<1>5. (Salary * worth) \div (4 * over) \in Int
  BY <1>2, <1>3, <1>4
<1> QED
  BY <1>5 DEF Earned, worth, over

LEMMA OpeningTyped == ASSUME PayrollKept(db), NEW u \in Payees, NEW m PROVE Opening(u, m) \in Int
BY DEF PayrollKept, PayrollTables, MonthBalances, Opening

-----------------------------------------------------------------------------
\* What each write leaves of the tables.

LEMMA SamePayments ==
    ASSUME NEW d, NEW e, e.paid = d.paid, e.runs = d.runs
    PROVE  GrowsBy(d, e, 0) /\ SumsSame(d, e)
BY DEF GrowsBy, SumsSame

LEMMA BalanceWritten ==
    ASSUME NEW d, PayrollKept(d), NEW u \in Payees, NEW m \in Months, NEW row \in MonthBalances
    PROVE  LET e == [d EXCEPT !.behind = @ \ {<<u, m>>}, !.balance[u][m] = row]
           IN  /\ PayrollKept(e) /\ GrowsBy(d, e, 0) /\ SumsSame(d, e)
               /\ \A v \in Payees, n \in Months : Adds(d, v, n) => Adds(e, v, n) \/ (v = u /\ n = m)
               /\ row.closing = row.opening + row.earned - PaidIn(d.paid, u, m) => Adds(e, u, m)
<1> DEFINE balance == [d.balance EXCEPT ![u][m] = row]
           behind == d.behind \ {<<u, m>>}
           e == [d EXCEPT !.behind = @ \ {<<u, m>>}, !.balance[u][m] = row]
<1>1. /\ balance \in [Payees -> [Months -> MonthBalances \cup {Nothing}]] /\ balance[u][m] = row
      /\ \A v \in Payees, n \in Months : (v = u /\ n = m) \/ balance[v][n] = d.balance[v][n]
      /\ behind \in SUBSET (Payees \X Months)
      /\ \A v \in Payees, n \in Months : (v = u /\ n = m) \/ (<<v, n>> \in d.behind => <<v, n>> \in behind)
  BY DEF PayrollKept, PayrollTables
<1>2. e = [d EXCEPT !.behind = behind, !.balance = balance]
  BY DEF PayrollKept, PayrollTables
<1> HIDE DEF balance, behind
<1>3. /\ e \in PayrollTables /\ e.balance = balance /\ e.paid = d.paid /\ e.runs = d.runs
      /\ e.behind = behind /\ e.marks = d.marks
  BY <1>1, <1>2 DEF PayrollKept, PayrollTables
<1> HIDE DEF e
<1>4. PayrollKept(e) /\ GrowsBy(d, e, 0) /\ SumsSame(d, e)
  BY <1>3, SamePayments DEF PayrollKept, PaidApart
<1>5. \A v \in Payees, n \in Months : Adds(d, v, n) => Adds(e, v, n) \/ (v = u /\ n = m)
  BY <1>1, <1>3 DEF Adds
<1>6. row.closing = row.opening + row.earned - PaidIn(d.paid, u, m) => Adds(e, u, m)
  BY <1>1, <1>3 DEF Adds
<1> QED
  BY <1>4, <1>5, <1>6 DEF e

LEMMA Replied ==
    ASSUME NEW d, PayrollKept(d), NEW p \in Procs, NEW how \in {"paid", "replayed", "failed"}, NEW number \in Nat
    PROVE  LET e == Reply(d, p, how, number)
           IN  PayrollKept(e) /\ GrowsBy(d, e, 0) /\ SumsSame(d, e) /\ AddsStill(d, e)
<1> DEFINE answers == [d.told EXCEPT ![p] = Append(@, [how |-> how, number |-> number])]
           e == Reply(d, p, how, number)
<1>1. answers \in [Procs -> Seq([how : {"paid", "replayed", "failed"}, number : Nat])]
  BY DEF PayrollKept, PayrollTables
<1> HIDE DEF answers
<1>2. e = [d EXCEPT !.told = answers]
  BY DEF PayrollKept, PayrollTables, Reply, answers
<1>3. /\ e \in PayrollTables /\ e.balance = d.balance /\ e.paid = d.paid /\ e.runs = d.runs
      /\ e.behind = d.behind /\ e.marks = d.marks
  BY <1>1, <1>2 DEF PayrollKept, PayrollTables
<1> HIDE DEF e
<1>4. PayrollKept(e) /\ GrowsBy(d, e, 0) /\ SumsSame(d, e) /\ AddsStill(d, e)
  BY <1>3, SamePayments DEF PayrollKept, PaidApart, AddsStill, Adds
<1> QED
  BY <1>4 DEF e

\* A payment takes no key and no item of its run that has one.
LEMMA RowAppended ==
    ASSUME NEW d, PayrollKept(d), NEW row \in PaidRows, row.run \in 0..Len(d.runs),
           IF row.payee = Nothing THEN row.key = Nothing ELSE row.month \in Months,
           row.key # Nothing => \A n \in DOMAIN d.paid : d.paid[n].key # row.key,
           row.run # 0 => \A n \in DOMAIN d.paid : d.paid[n].run = row.run => d.paid[n].payee # row.payee
    PROVE  LET e == [d EXCEPT !.paid = Append(@, row)]
           IN  /\ PayrollKept(e) /\ GrowsBy(d, e, row.run)
               /\ DOMAIN e.paid = DOMAIN d.paid \cup {Len(d.paid) + 1}
               /\ e.runs = d.runs /\ e.paid[Len(d.paid) + 1] = row
               /\ \A n \in DOMAIN d.paid : e.paid[n] = d.paid[n]
               /\ \A u \in Payees, m \in Months : (row.payee = u /\ row.month = m) \/
                     (PaidIn(e.paid, u, m) = PaidIn(d.paid, u, m) /\ (Adds(d, u, m) => Adds(e, u, m)))
<1> DEFINE paid == Append(d.paid, row)
           e == [d EXCEPT !.paid = Append(@, row)]
<1>0. d.paid \in Seq(PaidRows) /\ Len(d.paid) \in Nat /\ DOMAIN d.paid = 1..Len(d.paid)
  BY DEF PayrollKept, PayrollTables
<1>1. /\ paid \in Seq(PaidRows) /\ DOMAIN paid = 1..(Len(d.paid) + 1)
      /\ paid[Len(d.paid) + 1] = row /\ \A n \in DOMAIN d.paid : n \in DOMAIN paid /\ paid[n] = d.paid[n]
  BY <1>0
<1>2. \A n \in DOMAIN paid : n \in DOMAIN d.paid \/ n = Len(d.paid) + 1
  BY <1>0, <1>1
<1> HIDE DEF paid
<1>3. /\ e \in PayrollTables /\ e.balance = d.balance /\ e.paid = paid /\ e.runs = d.runs
      /\ e.behind = d.behind /\ e.marks = d.marks
  <2>1. e = [d EXCEPT !.paid = paid]
    BY DEF PayrollKept, PayrollTables, paid
  <2> QED
    BY <1>1, <2>1 DEF PayrollKept, PayrollTables
<1> HIDE DEF e
<1>4. PaidApart(e)
  BY <1>1, <1>2, <1>3 DEF PayrollKept, PaidApart
<1>5. GrowsBy(d, e, row.run)
  BY <1>1, <1>2, <1>3 DEF GrowsBy
<1>6. ASSUME NEW u \in Payees, NEW m \in Months, ~(row.payee = u /\ row.month = m)
      PROVE  PaidIn(e.paid, u, m) = PaidIn(d.paid, u, m) /\ (Adds(d, u, m) => Adds(e, u, m))
  <2>1. PaidIn(paid, u, m) = PaidIn(d.paid, u, m)
    <3>1. \A n \in DOMAIN paid : \/ n \in DOMAIN d.paid /\ paid[n] = d.paid[n]
                                 \/ n \notin DOMAIN d.paid /\ paid[n] = row
      BY <1>1, <1>2
    <3> QED
      BY <1>0, <1>1, <1>6, <3>1, PaidSame
  <2> QED
    BY <1>3, <2>1 DEF Adds
<1>7. DOMAIN paid = DOMAIN d.paid \cup {Len(d.paid) + 1}
  BY <1>0, <1>1, <1>2
<1> QED
  BY <1>1, <1>3, <1>4, <1>5, <1>6, <1>7 DEF e, PayrollKept

LEMMA RowVoided ==
    ASSUME NEW d, PayrollKept(d), NEW n \in DOMAIN d.paid
    PROVE  LET e == [d EXCEPT !.paid[n].void = TRUE]
           IN  /\ PayrollKept(e) /\ GrowsBy(d, e, 0)
               /\ \A u \in Payees, m \in Months : (d.paid[n].payee = u /\ d.paid[n].month = m) \/
                     (PaidIn(e.paid, u, m) = PaidIn(d.paid, u, m) /\ (Adds(d, u, m) => Adds(e, u, m)))
<1> DEFINE row == [d.paid[n] EXCEPT !.void = TRUE]
           paid == [d.paid EXCEPT ![n] = row]
           e == [d EXCEPT !.paid[n].void = TRUE]
<1>0. d.paid \in Seq(PaidRows) /\ Len(d.paid) \in Nat /\ DOMAIN d.paid = 1..Len(d.paid) /\ d.paid[n] \in PaidRows
  BY DEF PayrollKept, PayrollTables
<1>1. /\ row \in PaidRows /\ row.payee = d.paid[n].payee /\ row.month = d.paid[n].month
      /\ row.run = d.paid[n].run /\ row.key = d.paid[n].key
  BY <1>0 DEF PaidRows
<1> HIDE DEF row
<1>2. /\ paid \in Seq(PaidRows) /\ DOMAIN paid = DOMAIN d.paid
      /\ paid[n] = row /\ \A k \in DOMAIN d.paid \ {n} : paid[k] = d.paid[k]
  BY <1>0, <1>1
<1> HIDE DEF paid
<1>3. /\ e \in PayrollTables /\ e.balance = d.balance /\ e.paid = paid /\ e.runs = d.runs
      /\ e.behind = d.behind /\ e.marks = d.marks
  <2>1. e = [d EXCEPT !.paid = paid]
    BY DEF PayrollKept, PayrollTables, paid, row
  <2> QED
    BY <1>2, <2>1 DEF PayrollKept, PayrollTables
<1> HIDE DEF e
<1>4. \A k \in DOMAIN paid : paid[k].payee = d.paid[k].payee /\ paid[k].run = d.paid[k].run
                        /\ paid[k].key = d.paid[k].key /\ paid[k].month = d.paid[k].month
  BY <1>1, <1>2
<1>5. PaidApart(e) /\ GrowsBy(d, e, 0)
  BY <1>2, <1>3, <1>4 DEF PayrollKept, PaidApart, GrowsBy
<1>6. ASSUME NEW u \in Payees, NEW m \in Months, ~(d.paid[n].payee = u /\ d.paid[n].month = m)
      PROVE  PaidIn(e.paid, u, m) = PaidIn(d.paid, u, m) /\ (Adds(d, u, m) => Adds(e, u, m))
  <2>1. PaidIn(paid, u, m) = PaidIn(d.paid, u, m)
    <3>1. \A k \in DOMAIN paid : \/ k \in DOMAIN d.paid /\ paid[k] = d.paid[k]
                                 \/ k = n /\ paid[k] = row
      BY <1>2
    <3> QED
      BY <1>0, <1>1, <1>2, <1>6, <3>1, PaidSame
  <2> QED
    BY <1>3, <2>1 DEF Adds
<1> QED
  BY <1>3, <1>5, <1>6 DEF e, PayrollKept

LEMMA RunOpened ==
    ASSUME NEW d, PayrollKept(d), NEW key \in PayKeys \cup {Nothing},
           key # Nothing => \A n \in DOMAIN d.runs : d.runs[n].key # key
    PROVE  LET e == [d EXCEPT !.runs = Append(@, [key |-> key, success |-> 0])]
           IN  /\ PayrollKept(e) /\ GrowsBy(d, e, 0) /\ SumsSame(d, e) /\ AddsStill(d, e)
               /\ e.paid = d.paid /\ Len(d.runs) + 1 \in DOMAIN e.runs \ DOMAIN d.runs
<1> DEFINE runs == Append(d.runs, [key |-> key, success |-> 0])
           e == [d EXCEPT !.runs = Append(@, [key |-> key, success |-> 0])]
<1>0. d.runs \in Seq([key : PayKeys \cup {Nothing}, success : Nat]) /\ Len(d.runs) \in Nat /\ DOMAIN d.runs = 1..Len(d.runs)
  BY DEF PayrollKept, PayrollTables
<1>1. /\ runs \in Seq([key : PayKeys \cup {Nothing}, success : Nat])
      /\ Len(runs) = Len(d.runs) + 1 /\ DOMAIN runs = 1..(Len(d.runs) + 1) /\ runs[Len(d.runs) + 1].key = key
      /\ \A n \in DOMAIN d.runs : n \in DOMAIN runs /\ runs[n] = d.runs[n]
  BY <1>0
<1>2. \A n \in DOMAIN runs : n \in DOMAIN d.runs \/ n = Len(d.runs) + 1
  BY <1>0, <1>1
<1> HIDE DEF runs
<1>3. /\ e \in PayrollTables /\ e.balance = d.balance /\ e.paid = d.paid /\ e.runs = runs
      /\ e.behind = d.behind /\ e.marks = d.marks
  <2>1. e = [d EXCEPT !.runs = runs]
    BY DEF PayrollKept, PayrollTables, runs
  <2> QED
    BY <1>1, <2>1 DEF PayrollKept, PayrollTables
<1> HIDE DEF e
<1>4. PaidApart(e)
  <2>1. \A i, j \in DOMAIN runs : runs[i].key # Nothing /\ runs[i].key = runs[j].key => i = j
    BY <1>1, <1>2 DEF PayrollKept, PaidApart
  <2>2. \A i \in DOMAIN d.paid : d.paid[i].run \in 0..Len(runs)
    BY <1>0, <1>1 DEF PayrollKept, PaidApart
  <2> QED
    BY <1>3, <2>1, <2>2 DEF PayrollKept, PaidApart
<1>5. GrowsBy(d, e, 0) /\ SumsSame(d, e) /\ AddsStill(d, e)
  BY <1>1, <1>3 DEF GrowsBy, SumsSame, AddsStill, Adds
<1> QED
  BY <1>0, <1>1, <1>3, <1>4, <1>5 DEF e, PayrollKept

LEMMA RunClosed ==
    ASSUME NEW d, PayrollKept(d), NEW r \in DOMAIN d.runs, NEW n \in Nat
    PROVE  LET e == [d EXCEPT !.runs[r].success = n]
           IN  PayrollKept(e) /\ GrowsBy(d, e, 0) /\ SumsSame(d, e) /\ AddsStill(d, e)
<1> DEFINE row == [d.runs[r] EXCEPT !.success = n]
           runs == [d.runs EXCEPT ![r] = row]
           e == [d EXCEPT !.runs[r].success = n]
<1>0. /\ d.runs \in Seq([key : PayKeys \cup {Nothing}, success : Nat])
      /\ d.runs[r] \in [key : PayKeys \cup {Nothing}, success : Nat]
  <2>1. d.runs \in Seq([key : PayKeys \cup {Nothing}, success : Nat])
    BY DEF PayrollKept, PayrollTables
  <2>2. \A S : \A t \in Seq(S) : \A i \in DOMAIN t : t[i] \in S
    OBVIOUS
  <2> QED
    BY <2>1, <2>2
<1>1. row \in [key : PayKeys \cup {Nothing}, success : Nat] /\ row.key = d.runs[r].key
  BY <1>0
<1> HIDE DEF row
<1>2. /\ runs \in Seq([key : PayKeys \cup {Nothing}, success : Nat])
      /\ Len(runs) = Len(d.runs) /\ DOMAIN runs = DOMAIN d.runs /\ \A k \in DOMAIN d.runs : runs[k].key = d.runs[k].key
  BY <1>0, <1>1
<1> HIDE DEF runs
<1>3. /\ e \in PayrollTables /\ e.balance = d.balance /\ e.paid = d.paid /\ e.runs = runs
      /\ e.behind = d.behind /\ e.marks = d.marks
  <2>1. e = [d EXCEPT !.runs = runs]
    BY DEF PayrollKept, PayrollTables, runs, row
  <2> QED
    BY <1>2, <2>1 DEF PayrollKept, PayrollTables
<1> HIDE DEF e
<1>4. PaidApart(e)
  BY <1>2, <1>3 DEF PayrollKept, PaidApart
<1>5. GrowsBy(d, e, 0) /\ SumsSame(d, e) /\ AddsStill(d, e)
  BY <1>2, <1>3 DEF GrowsBy, SumsSame, AddsStill, Adds
<1> QED
  BY <1>3, <1>4, <1>5 DEF e, PayrollKept

LEMMA OtherTablesWritten ==
    ASSUME NEW d, PayrollKept(d), NEW active \in [Payees -> BOOLEAN], NEW current \in PayYears \cup {Nothing},
           NEW marks \in SUBSET MarkRows, IsFiniteSet(marks), NEW providers \in SUBSET Providers
    PROVE  LET e == [d EXCEPT !.active = active, !.current = current, !.marks = marks, !.providers = providers]
           IN  PayrollKept(e) /\ GrowsBy(d, e, 0) /\ SumsSame(d, e) /\ AddsStill(d, e)
<1> DEFINE e == [d EXCEPT !.active = active, !.current = current, !.marks = marks, !.providers = providers]
<1>1. /\ e \in PayrollTables /\ e.balance = d.balance /\ e.paid = d.paid /\ e.runs = d.runs
      /\ e.behind = d.behind /\ e.marks = marks
  BY DEF PayrollKept, PayrollTables
<1> HIDE DEF e
<1>2. PayrollKept(e) /\ GrowsBy(d, e, 0) /\ SumsSame(d, e) /\ AddsStill(d, e)
  BY <1>1, SamePayments DEF PayrollKept, PaidApart, AddsStill, Adds
<1> QED
  BY <1>2 DEF e

-----------------------------------------------------------------------------
\* What a step of one caller leaves of the others.

LEMMA PayCall ==
    ASSUME PayrollInv, NEW p \in Procs, calls[p] # <<>>
    PROVE  /\ Call(p) \in PayCalls
           /\ Call(p).op \in {"pay", "bulk"} =>
                /\ Call(p).month \in Months /\ Call(p).amount \in Nat /\ Call(p).key \in PayKeys \cup {Nothing}
                /\ Call(p).users \in Payrolls /\ Call(p).year \in PayYears
           /\ Call(p).op = "spend" => Call(p).provider \in Providers \cup {Nothing} /\ Call(p).amount \in Nat
           /\ Call(p).op = "list" => Call(p).month \in Months /\ Call(p).year \in PayYears
           /\ Call(p).op = "mark" => Call(p).mark \in MarkRows
           /\ Call(p).op \in {"quit", "rejoin"} => Call(p).payee \in Payees
           /\ Call(p).op = "year" => Call(p).current \in PayYears \cup {Nothing}
<1>1. Call(p) \in PayCalls
  BY CallTyped DEF PayrollInv
<1>2. \A u \in Payees : <<u>> \in Payrolls
  BY DEF Payrolls
<1> QED
  BY <1>1, <1>2 DEF PayCalls

LEMMA WorkItem ==
    ASSUME NEW p \in Procs, loc[p] \in Works, loc[p].k \in DOMAIN loc[p].users
    PROVE  /\ Current(p) \in Payees /\ loc[p].month \in Months
           /\ loc[p].users \in Seq(Payees) /\ Len(loc[p].users) \in Nat
           /\ loc[p].k \in 1..Len(loc[p].users)
           /\ \A i, j \in DOMAIN loc[p].users : loc[p].users[i] = loc[p].users[j] => i = j
BY DEF Works, Payrolls, Current

\* The run that a step may write payments for.
Writes(p, run) == run = 0 \/ (Running(p) /\ run = loc[p].run)

LEMMA OthersHold ==
    ASSUME PayrollInv, NEW p \in Procs, NEW q \in Procs \ {p}, NEW run, Writes(p, run), GrowsBy(db, db', run),
           pc'[q] = pc[q], calls'[q] = calls[q], loc'[q] = loc[q]
    PROVE  PayHolds(q)'
<1> USE DEF PayrollInv
<1>1. OnWork(q)' = OnWork(q) /\ Running(q)' = Running(q)
  BY DEF OnWork, Running, Call
<1>2. At(q, "void", 1)' => Call(q)'.number \in DOMAIN db'.paid
  BY DEF At, Call, PayHolds, GrowsBy
<1>3. At(q, "spend", 1)' => Call(q)'.provider \in Providers
  BY DEF At, Call, PayHolds
<1>4. /\ Paying(q)' /\ pc'[q] = 14 => Call(q)'.key # Nothing
      /\ Paying(q)' /\ pc'[q] \in {2, 15} => Call(q)'.op = "bulk"
      /\ Paying(q)' /\ pc'[q] > 0 /\ (Call(q)'.op = "bulk" \/ pc'[q] < 9) => loc'[q].how = "paid"
  BY DEF Paying, Call, PayHolds
<1>5. ASSUME Running(q) PROVE PaidUpTo(q)'
  <2>1. PaidUpTo(q) /\ OnWork(q) /\ loc[q].run \in DOMAIN db'.runs
    BY <1>5 DEF PayHolds, Running, OnWork, PaidUpTo, GrowsBy
  <2>2. loc[q].run # 0 /\ loc[q].run # run
    <3>1. loc[q].run \in DOMAIN db.runs /\ db.runs \in Seq([key : PayKeys \cup {Nothing}, success : Nat])
      BY <2>1 DEF PaidUpTo, PayrollKept, PayrollTables
    <3>2. loc[q].run # 0
      BY <3>1
    <3> QED
      BY <1>5, <3>2 DEF Writes
  <2>3. ASSUME NEW n \in DOMAIN db'.paid, db'.paid[n].run = loc[q].run
        PROVE  n \in DOMAIN db.paid /\ db'.paid[n].run = db.paid[n].run /\ db'.paid[n].payee = db.paid[n].payee
    BY <2>2, <2>3 DEF GrowsBy
  <2> QED
    BY <2>1, <2>3 DEF PaidUpTo
<1> QED
  BY <1>1, <1>2, <1>3, <1>4, <1>5 DEF PayHolds

\* What the step of p has to do in a scene where one caller alone computes months.
AloneStep(p) ==
    /\ PaidAsRead(p)'
    /\ \A u \in Payees, m \in Months : Pending(p, u, m) \/ Adds(db, u, m) => Pending(p, u, m)' \/ Adds(db', u, m)
    /\ OnlySpends(p) => SumsSame(db, db')

LEMMA AloneStays ==
    ASSUME PayrollInv, AloneHolds, NEW p \in Procs, AloneStep(p), InControl(PayCalls)',
           calls'[p] = calls[p] \/ calls'[p] = Tail(calls[p]),
           \A q \in Procs \ {p} : pc'[q] = pc[q] /\ calls'[q] = calls[q] /\ loc'[q] = loc[q]
    PROVE  AloneHolds'
<1>1. \A q \in Procs : OnlySpends(q) => OnlySpends(q)'
  <2>1. OnlySpends(p) => OnlySpends(p)'
    <3>1. calls[p] \in Seq(PayCalls)
      BY DEF PayrollInv, InControl
    <3>2. CASE calls'[p] = Tail(calls[p]) /\ calls[p] # <<>>
      BY <3>1, <3>2 DEF OnlySpends
    <3>3. CASE calls[p] = <<>> /\ calls'[p] = Tail(calls[p])
      BY <3>1, <3>3 DEF OnlySpends
    <3> QED
      BY <3>2, <3>3 DEF OnlySpends
  <2> QED
    BY <2>1 DEF OnlySpends
<1>2. \A q \in Procs \ {p}, u \in Payees, m \in Months : Pending(q, u, m)' = Pending(q, u, m)
  BY DEF Pending, Recomputes, Paying, Current, Call
<1>3. ASSUME NEW q \in Procs \ {p} PROVE PaidAsRead(q)'
  <2>1. CASE OnlySpends(q)
    <3>1. calls[q] # <<>> => Call(q).op = "spend"
      <4>1. calls[q] # <<>> => 1 \in DOMAIN calls[q] /\ Call(q) = calls[q][1]
        BY DEF PayrollInv, InControl, Call
      <4> QED
        BY <2>1, <4>1 DEF OnlySpends
    <3> QED
      BY <3>1 DEF PaidAsRead, Paying, Call, At
  <2>2. CASE OnlySpends(p)
    <3>1. SumsSame(db, db') /\ PaidAsRead(q)
      BY <2>2 DEF AloneStep, AloneHolds
    <3>2. ASSUME calls[q] # <<>>, (Paying(q) /\ pc[q] \in {6, 13}) \/ (Call(q).op = "void" /\ pc[q] = 6)
          PROVE  loc[q].paid[Current(q)] = PaidIn(db'.paid, Current(q), loc[q].month)
      <4>1. OnWork(q)
        BY <3>2 DEF OnWork, Paying
      <4>2. Current(q) \in Payees /\ loc[q].month \in Months
        BY <4>1, WorkItem DEF PayrollInv, PayHolds
      <4> QED
        BY <3>1, <3>2, <4>2 DEF SumsSame, PaidAsRead, PaidFor
    <3>3. ASSUME At(q, "list", 4), NEW j \in DOMAIN loc[q].users
          PROVE  loc[q].paid[loc[q].users[j]] = PaidIn(db'.paid, loc[q].users[j], loc[q].month)
      <4>1. OnWork(q)
        BY <3>3 DEF OnWork, At
      <4>2. loc[q].users \in Seq(Payees) /\ loc[q].month \in Months
        BY <4>1, WorkItem DEF PayrollInv, PayHolds
      <4>3. loc[q].users[j] \in Payees
        BY <3>3, <4>2
      <4> QED
        BY <3>1, <3>3, <4>2, <4>3 DEF SumsSame, PaidAsRead, PaidFor
    <3> QED
      BY <3>2, <3>3 DEF PaidAsRead, Paying, Current, PaidFor, Call, At
  <2> QED
    BY <2>1, <2>2 DEF AloneHolds
<1>4. ASSUME NEW u \in Payees, NEW m \in Months PROVE Adds(db', u, m) \/ \E q \in Procs : Pending(q, u, m)'
  BY <1>2 DEF AloneHolds, AloneStep
<1> QED
  BY <1>1, <1>3, <1>4 DEF AloneHolds, AloneStep

\* A step of p that does its part.
LEMMA PayStep ==
    ASSUME PayrollInv, NEW p \in Procs, NEW run, Writes(p, run), UNCHANGED scene,
           InControl(PayCalls)', PayrollKept(db'), GrowsBy(db, db', run),
           calls'[p] = calls[p] \/ calls'[p] = Tail(calls[p]),
           \A q \in Procs \ {p} : pc'[q] = pc[q] /\ calls'[q] = calls[q] /\ loc'[q] = loc[q],
           PayHolds(p)', Running(p)' => (Running(p) /\ loc'[p].run = loc[p].run) \/ loc'[p].run \notin DOMAIN db.runs,
           scene.alone => AloneStep(p)
    PROVE  PayrollInv'
<1>1. \A q \in Procs : PayHolds(q)'
  BY OthersHold
<1>2. \A q \in Procs \ {p} : Running(q)' = Running(q) /\ (Running(q) => loc[q].run \in DOMAIN db.runs)
  BY DEF Running, Call, PayrollInv, PayHolds, PaidUpTo
<1>3. \A q, r \in Procs : Running(q)' /\ Running(r)' /\ loc'[q].run = loc'[r].run => q = r
  BY <1>2 DEF PayrollInv
<1>4. scene.alone => AloneHolds'
  BY AloneStays DEF PayrollInv
<1> QED
  BY <1>1, <1>3, <1>4 DEF PayrollInv

LEMMA PayAnswers ==
    ASSUME PayrollInv, NEW p \in Procs, calls[p] # <<>>, NEW tables, Commit(p, tables),
           PayrollKept(tables), GrowsBy(db, tables, 0),
           scene.alone => /\ \A u \in Payees, m \in Months : Pending(p, u, m) \/ Adds(db, u, m) => Adds(tables, u, m)
                          /\ OnlySpends(p) => SumsSame(db, tables)
    PROVE  PayrollInv'
<1>1. /\ InControl(PayCalls)' /\ db' = tables /\ pc'[p] = 0
      /\ \A q \in Procs \ {p} : pc'[q] = pc[q] /\ calls'[q] = calls[q]
  BY IsAnswered DEF PayrollInv
<1>2. /\ calls'[p] = Tail(calls[p]) /\ UNCHANGED scene
      /\ \A q \in Procs \ {p} : loc'[q] = loc[q]
  BY DEF Commit, PayrollInv, InControl
<1>3. PayHolds(p)' /\ ~Running(p)' /\ PaidAsRead(p)'
  BY <1>1 DEF PayHolds, OnWork, Running, At, PaidAsRead, Paying
<1>4. scene.alone => AloneStep(p)
  BY <1>1, <1>3 DEF AloneStep
<1> QED
  BY <1>1, <1>2, <1>3, <1>4, PayStep DEF Writes

LEMMA PayReplies ==
    ASSUME PayrollInv, NEW p \in Procs, calls[p] # <<>>,
           NEW how \in {"paid", "replayed", "failed"}, NEW number \in Nat,
           Commit(p, Reply(db, p, how, number)) \/ Refuse(p),
           scene.alone => \A u \in Payees, m \in Months : Pending(p, u, m) => Adds(db, u, m)
    PROVE  PayrollInv'
<1>1. ASSUME NEW e, e = Reply(db, p, how, number) \/ e = db
      PROVE  PayrollKept(e) /\ GrowsBy(db, e, 0) /\ SumsSame(db, e) /\ AddsStill(db, e)
  BY <1>1, Replied, SamePayments DEF PayrollInv, AddsStill
<1>2. ASSUME NEW e, e = Reply(db, p, how, number) \/ e = db, Commit(p, e) PROVE PayrollInv'
  BY <1>1, <1>2, PayAnswers DEF AddsStill
<1> QED
  BY <1>2 DEF Refuse

\* The handler goes on with w, in its run or outside any.
RunSteps == (3..13) \cup {15, 16}
LEMMA PayGoes ==
    ASSUME PayrollInv, NEW p \in Procs, calls[p] # <<>>, NEW n \in 1..16, NEW w \in Works, w.k \in DOMAIN w.users,
           ReadTo(p, n, w), Call(p).op \in {"pay", "bulk", "list"} \/ (Call(p).op = "void" /\ n > 1),
           n = 14 => Call(p).key # Nothing, Call(p).op = "pay" => n \notin {2, 15},
           Call(p).op = "bulk" \/ (Call(p).op = "pay" /\ n < 9) => w.how = "paid",
           \/ Running(p) /\ n \in RunSteps /\ w.run = loc[p].run /\ w.users = loc[p].users /\ w.k = loc[p].k /\ (pc[p] > 8 => n > 8)
           \/ w.run = 0 /\ ~(Call(p).op = "bulk" /\ n \in RunSteps),
           scene.alone => /\ PaidAsRead(p)'
                          /\ \A u \in Payees, m \in Months : Pending(p, u, m) => Pending(p, u, m)' \/ Adds(db, u, m)
    PROVE  PayrollInv'
<1>1. /\ InControl(PayCalls)' /\ calls' = calls /\ db' = db
      /\ pc'[p] = n /\ \A q \in Procs \ {p} : pc'[q] = pc[q]
  BY ReadsOn DEF PayrollInv
<1>2. loc'[p] = w /\ UNCHANGED scene /\ \A q \in Procs \ {p} : loc'[q] = loc[q]
  BY DEF ReadTo, PayrollInv, InControl
<1>3. Running(p)' <=> (Call(p).op = "bulk" /\ n \in RunSteps)
  BY <1>1 DEF Running, Call, RunSteps
<1>4. PayHolds(p)'
  <2>1. Running(p)' => PaidUpTo(p)'
    BY <1>1, <1>2, <1>3 DEF PaidUpTo, PayrollInv, PayHolds, Running, RunSteps
  <2>2. ~At(p, "spend", 1)' /\ ~At(p, "void", 1)'
    BY <1>1 DEF At, Call
  <2>3. loc'[p] \in Works /\ loc'[p].k \in DOMAIN loc'[p].users
    BY <1>2
  <2>4. ~Running(p)' => loc'[p].run = 0
    <3>1. Running(p) => Call(p).op = "bulk"
      BY DEF Running
    <3> QED
      BY <1>2, <1>3, <3>1
  <2>5. /\ Paying(p)' /\ pc'[p] = 14 => Call(p)'.key # Nothing
        /\ Paying(p)' /\ pc'[p] \in {2, 15} => Call(p)'.op = "bulk"
        /\ Paying(p)' /\ pc'[p] > 0 /\ (Call(p)'.op = "bulk" \/ pc'[p] < 9) => loc'[p].how = "paid"
    BY <1>1, <1>2 DEF Call, Paying
  <2> QED
    BY <2>1, <2>2, <2>3, <2>4, <2>5 DEF PayHolds
<1>5. Running(p)' => Running(p) /\ loc'[p].run = loc[p].run
  BY <1>2, <1>3
<1>6. PayrollKept(db') /\ GrowsBy(db, db', 0) /\ SumsSame(db, db')
  BY <1>1, SamePayments DEF PayrollInv
<1>7. scene.alone => AloneStep(p)
  BY <1>1, <1>6 DEF AloneStep
<1> QED
  BY <1>1, <1>2, <1>4, <1>5, <1>6, <1>7, PayStep DEF Writes

\* What a handler reads of marks, the month before and payments is kept with its work.
SameWork(w, v) == w.users = v.users /\ w.k = v.k /\ w.run = v.run /\ w.month = v.month /\ w.how = v.how
LEMMA ReadsTyped ==
    ASSUME PayrollInv, NEW p \in Procs, loc[p] \in Works, NEW n, NEW us
    PROVE  /\ ReadMarks(p, n, us) \/ ReadOpening(p, n, us) => \E w \in Works : SameWork(w, loc[p]) /\ ReadTo(p, n, w)
           /\ ReadPaid(p, n, us) =>
                 \E w \in Works : /\ SameWork(w, loc[p]) /\ ReadTo(p, n, w)
                                 /\ \A u \in us \cap Payees : w.paid[u] = PaidFor(u, loc[p].month)
<1> USE DEF PayrollInv
<1>1. \A u \in Payees : Earned(u, loc[p].month, loc[p].year) \in Int /\ Opening(u, loc[p].month) \in Int
                        /\ PaidFor(u, loc[p].month) \in Int
  BY EarnedTyped, OpeningTyped, PaidTyped DEF PaidFor, PayrollKept, PayrollTables
<1>2. loc[p].earned \in [Payees -> Int] /\ loc[p].opening \in [Payees -> Int] /\ loc[p].paid \in [Payees -> Int]
  BY DEF Works
<1> DEFINE e == [u \in Payees |-> IF u \in us THEN Earned(u, loc[p].month, loc[p].year) ELSE loc[p].earned[u]]
           o == [u \in Payees |-> IF u \in us THEN Opening(u, loc[p].month) ELSE loc[p].opening[u]]
           d == [u \in Payees |-> IF u \in us THEN PaidFor(u, loc[p].month) ELSE loc[p].paid[u]]
<1>3. e \in [Payees -> Int] /\ o \in [Payees -> Int] /\ d \in [Payees -> Int]
      /\ \A u \in us \cap Payees : d[u] = PaidFor(u, loc[p].month)
  BY <1>1, <1>2
<1>4. /\ [loc[p] EXCEPT !.earned = [u \in Payees |-> IF u \in us THEN Earned(u, loc[p].month, loc[p].year) ELSE @[u]]]
           = [loc[p] EXCEPT !.earned = e]
      /\ [loc[p] EXCEPT !.opening = [u \in Payees |-> IF u \in us THEN Opening(u, loc[p].month) ELSE @[u]]]
           = [loc[p] EXCEPT !.opening = o]
      /\ [loc[p] EXCEPT !.paid = [u \in Payees |-> IF u \in us THEN PaidFor(u, loc[p].month) ELSE @[u]]]
           = [loc[p] EXCEPT !.paid = d]
  BY DEF Works
<1> HIDE DEF e, o, d
<1>5. ASSUME NEW w, w \in {[loc[p] EXCEPT !.earned = e], [loc[p] EXCEPT !.opening = o], [loc[p] EXCEPT !.paid = d]}
      PROVE  w \in Works /\ SameWork(w, loc[p])
  BY <1>3, <1>5 DEF Works, SameWork
<1>6. [loc[p] EXCEPT !.paid = d].paid = d
  BY DEF Works
<1>7. ASSUME ReadMarks(p, n, us) \/ ReadOpening(p, n, us)
      PROVE  \E w \in Works : SameWork(w, loc[p]) /\ ReadTo(p, n, w)
  <2>1. ReadTo(p, n, [loc[p] EXCEPT !.earned = e]) \/ ReadTo(p, n, [loc[p] EXCEPT !.opening = o])
    BY <1>4, <1>7 DEF ReadMarks, ReadOpening, Goes
  <2> QED
    BY <1>5, <2>1
<1>8. ASSUME ReadPaid(p, n, us)
      PROVE  \E w \in Works : /\ SameWork(w, loc[p]) /\ ReadTo(p, n, w)
                             /\ \A u \in us \cap Payees : w.paid[u] = PaidFor(u, loc[p].month)
  <2>1. ReadTo(p, n, [loc[p] EXCEPT !.paid = d])
    BY <1>4, <1>8 DEF ReadPaid, Goes
  <2> QED
    BY <1>3, <1>5, <1>6, <2>1
<1> QED
  BY <1>7, <1>8

LEMMA WorkTyped ==
    ASSUME NEW users \in Payrolls, NEW m \in Months, NEW year \in PayYears \cup {Nothing}
    PROVE  LET w == Work(users, m, year)
           IN  /\ w \in Works /\ w.k \in DOMAIN w.users /\ w.run = 0
               /\ w.users = users /\ w.month = m /\ w.how = "paid"
BY DEF Work, Works, Payrolls

\* The upsert of a month.
LEMMA MonthBalanced ==
    ASSUME PayrollInv, NEW p \in Procs, loc[p] \in Works, loc[p].k \in DOMAIN loc[p].users
    PROVE  LET e == Balanced(p)
           IN  /\ PayrollKept(e) /\ GrowsBy(db, e, 0) /\ SumsSame(db, e)
               /\ \A v \in Payees, n \in Months : Adds(db, v, n) => Adds(e, v, n) \/ (v = Current(p) /\ n = loc[p].month)
               /\ loc[p].paid[Current(p)] = PaidFor(Current(p), loc[p].month) => Adds(e, Current(p), loc[p].month)
<1> DEFINE u == Current(p)
           m == loc[p].month
           w == loc[p]
           row == [opening |-> w.opening[u], earned |-> w.earned[u], closing |-> w.opening[u] + w.earned[u] - w.paid[u]]
<1>1. u \in Payees /\ m \in Months
  BY WorkItem
<1>2. row \in MonthBalances
  BY <1>1 DEF Works, MonthBalances
<1>3. Balanced(p) = [db EXCEPT !.behind = @ \ {<<u, m>>}, !.balance[u][m] = row]
  BY DEF Balanced
<1>4. row.closing = row.opening + row.earned - w.paid[u]
  OBVIOUS
<1> HIDE DEF row
<1>5. PayrollKept(db)
  BY DEF PayrollInv
<1> HIDE DEF u, m, w
<1> DEFINE e == [db EXCEPT !.behind = @ \ {<<u, m>>}, !.balance[u][m] = row]
<1>6. /\ PayrollKept(e) /\ GrowsBy(db, e, 0) /\ SumsSame(db, e)
      /\ \A v \in Payees, n \in Months : Adds(db, v, n) => Adds(e, v, n) \/ (v = u /\ n = m)
      /\ row.closing = row.opening + row.earned - PaidIn(db.paid, u, m) => Adds(e, u, m)
  BY <1>1, <1>2, <1>5, BalanceWritten
<1> HIDE DEF e
<1>7. w.paid[u] = PaidFor(u, m) => Adds(e, u, m)
  BY <1>4, <1>6 DEF PaidFor
<1>8. Balanced(p) = e
  BY <1>3 DEF e
<1> QED
  BY <1>6, <1>7, <1>8 DEF u, m, w

\* A month that cannot be computed again is left behind.
LEMMA MonthLeftBehind ==
    ASSUME PayrollInv, NEW p \in Procs, loc[p] \in Works, loc[p].k \in DOMAIN loc[p].users
    PROVE  LET e == LeftBehind(p)
           IN  /\ PayrollKept(e) /\ GrowsBy(db, e, 0) /\ SumsSame(db, e) /\ AddsStill(db, e)
               /\ \A u \in Payees, m \in Months : Pending(p, u, m) => Adds(e, u, m)
<1>1. Current(p) \in Payees /\ loc[p].month \in Months /\ PayrollKept(db)
  BY WorkItem DEF PayrollInv
<1>2. CASE loc[p].how = "paid"
  <2> DEFINE left == <<Current(p), loc[p].month>>
             behind == db.behind \cup {left}
             e == [db EXCEPT !.behind = behind]
  <2>1. behind \in SUBSET (Payees \X Months) /\ left \in behind /\ db.behind \subseteq behind
    BY <1>1 DEF PayrollKept, PayrollTables
  <2>2. LeftBehind(p) = e
    BY <1>2 DEF LeftBehind
  <2> HIDE DEF behind
  <2>3. /\ e \in PayrollTables /\ e.balance = db.balance /\ e.paid = db.paid /\ e.runs = db.runs
        /\ e.behind = behind /\ e.marks = db.marks
    BY <1>1, <2>1 DEF PayrollKept, PayrollTables
  <2> HIDE DEF e
  <2>4. PayrollKept(e) /\ GrowsBy(db, e, 0) /\ SumsSame(db, e) /\ AddsStill(db, e)
    BY <1>1, <2>1, <2>3, SamePayments DEF PayrollKept, PaidApart, AddsStill, Adds
  <2>5. \A u \in Payees, m \in Months : Pending(p, u, m) => Adds(e, u, m)
    BY <2>1, <2>3 DEF Pending, Adds
  <2> QED
    BY <2>2, <2>4, <2>5
<1>3. CASE loc[p].how # "paid"
  <2>1. LeftBehind(p) = db
    BY <1>3 DEF LeftBehind
  <2>2. GrowsBy(db, db, 0) /\ SumsSame(db, db)
    BY SamePayments
  <2> QED
    BY <1>1, <1>3, <2>1, <2>2 DEF AddsStill, Pending
<1> QED
  BY <1>2, <1>3

-----------------------------------------------------------------------------
\* The handlers that pay.

LEMMA PayingCall ==
    ASSUME PayrollInv, NEW p \in Procs, Paying(p)
    PROVE  /\ Call(p).op \in {"pay", "bulk"} /\ calls[p] # <<>> /\ pc[p] \in 0..16
           /\ Call(p).month \in Months /\ Call(p).amount \in Nat /\ Call(p).key \in PayKeys \cup {Nothing}
           /\ Call(p).users \in Payrolls /\ Call(p).year \in PayYears
           /\ pc[p] > 0 => /\ OnWork(p) /\ loc[p] \in Works /\ loc[p].k \in DOMAIN loc[p].users
                           /\ Current(p) \in Payees /\ loc[p].month \in Months
                           /\ Running(p) \/ (loc[p].run = 0 /\ ~(Call(p).op = "bulk" /\ pc[p] \in RunSteps))
                           /\ Running(p) => Call(p).op = "bulk" /\ pc[p] \in RunSteps
                           /\ Call(p).op = "bulk" \/ pc[p] < 9 => loc[p].how = "paid"
<1>1. calls[p] # <<>> /\ Call(p).op \in {"pay", "bulk"} /\ pc[p] \in 0..16
  BY DEF Paying, PayrollInv, InControl
<1>2. pc[p] > 0 => OnWork(p)
  BY <1>1 DEF OnWork
<1>3. Running(p) <=> Call(p).op = "bulk" /\ pc[p] \in RunSteps
  BY <1>1 DEF Running, RunSteps
<1> QED
  BY <1>1, <1>2, <1>3, PayCall, WorkItem DEF PayrollInv, PayHolds

\* A handler that pays goes on with the item it is at.
LEMMA PayGoesOn ==
    ASSUME PayrollInv, NEW p \in Procs, Paying(p), pc[p] \in 1..16, NEW n \in 1..16, NEW w \in Works,
           SameWork(w, loc[p]), ReadTo(p, n, w),
           n \in RunSteps <=> pc[p] \in RunSteps, pc[p] > 8 => n > 8,
           pc[p] \in (9..13) \cup {16} => n \in (9..13) \cup {16},
           n = 14 => Call(p).key # Nothing, Call(p).op = "pay" => n \notin {2, 15},
           n \in {6, 13} => w.paid[Current(p)] = PaidFor(Current(p), loc[p].month)
    PROVE  PayrollInv'
<1>0. /\ w.users = loc[p].users /\ w.k = loc[p].k /\ w.run = loc[p].run
      /\ w.month = loc[p].month /\ w.how = loc[p].how
  BY DEF SameWork
<1>1. /\ Call(p).op \in {"pay", "bulk"} /\ calls[p] # <<>>
      /\ loc[p] \in Works /\ loc[p].k \in DOMAIN loc[p].users /\ w.k \in DOMAIN w.users
      /\ Running(p) \/ (loc[p].run = 0 /\ ~(Call(p).op = "bulk" /\ pc[p] \in RunSteps))
      /\ Running(p) => Call(p).op = "bulk" /\ pc[p] \in RunSteps
      /\ Call(p).op = "bulk" \/ (Call(p).op = "pay" /\ n < 9) => w.how = "paid"
  BY <1>0, PayingCall
<1>2. db' = db /\ calls' = calls /\ loc'[p] = w /\ pc'[p] = n
  BY DEF ReadTo, PayrollInv, InControl
<1>3. PaidAsRead(p)'
  BY <1>0, <1>1, <1>2 DEF PaidAsRead, PaidFor, Current, At, Call
<1>4. \A u \in Payees, m \in Months : Pending(p, u, m) => Pending(p, u, m)'
  BY <1>0, <1>1, <1>2 DEF Pending, Recomputes, Paying, Current, Call
<1> QED
  BY <1>0, <1>1, <1>3, <1>4, PayGoes

\* A payment of the key is found again, and its month is computed for the answer.
LEMMA Replays ==
    ASSUME PayrollInv, NEW p \in Procs, Paying(p), pc[p] \in {0, 14}, Call(p).op = "pay", Call(p).key # Nothing, ReplayPay(p)
    PROVE  PayrollInv'
<1> PICK n \in NumberOf(Call(p).key) :
        ReadTo(p, 9, [Work(<<db.paid[n].payee>>, db.paid[n].month, Nothing) EXCEPT !.how = "replayed", !.number = n])
  BY DEF ReplayPay, Goes
<1> DEFINE users == <<db.paid[n].payee>>
           v == Work(users, db.paid[n].month, Nothing)
           w == [v EXCEPT !.how = "replayed", !.number = n]
<1>1. n \in DOMAIN db.paid /\ n \in Nat /\ db.paid[n].key = Call(p).key /\ db.paid[n] \in PaidRows
  BY DEF NumberOf, PayrollInv, PayrollKept, PayrollTables
<1>2. db.paid[n].payee \in Payees /\ db.paid[n].month \in Months
  BY <1>1 DEF PayrollInv, PayrollKept, PaidApart, PaidRows
<1>3. users \in Payrolls
  BY <1>2 DEF Payrolls
<1>4. v \in Works /\ v.k \in DOMAIN v.users /\ v.run = 0
  BY <1>2, <1>3, WorkTyped
<1> HIDE DEF v
<1>5. w \in Works /\ w.k \in DOMAIN w.users /\ w.run = 0
  BY <1>1, <1>4 DEF Works
<1>6. calls[p] # <<>> /\ ReadTo(p, 9, w)
  BY DEF v, Paying
<1> HIDE DEF w
<1>7. PaidAsRead(p)' /\ \A u \in Payees, m \in Months : ~Pending(p, u, m)
  <2>1. pc'[p] = 9 /\ calls' = calls
    BY <1>6 DEF ReadTo, PayrollInv, InControl
  <2> QED
    BY <2>1 DEF PaidAsRead, Pending, Recomputes, At, Call, Paying
<1> QED
  BY <1>5, <1>6, <1>7, PayGoes DEF RunSteps

LEMMA KeyIsChecked == ASSUME PayrollInv, NEW p \in Procs, CheckKey(p) PROVE PayrollInv'
<1>1. Paying(p) /\ pc[p] = 0 /\ calls[p] # <<>>
  BY DEF CheckKey, Step, Paying
<1>2. \A u \in Payees, m \in Months : ~Pending(p, u, m)
  BY <1>1 DEF Pending, Recomputes, Paying
<1>3. CASE Call(p).key # Nothing /\ Call(p).op = "pay" /\ NumberOf(Call(p).key) # {}
  BY <1>1, <1>3, Replays DEF CheckKey
<1>4. CASE Commit(p, Reply(db, p, "replayed", 0))
  BY <1>1, <1>2, <1>4, PayReplies
<1>5. CASE Goes(p, 1, Work(Call(p).users, Call(p).month, Call(p).year))
  <2> DEFINE w == Work(Call(p).users, Call(p).month, Call(p).year)
  <2>1. w \in Works /\ w.k \in DOMAIN w.users /\ w.run = 0 /\ w.how = "paid"
    BY <1>1, PayingCall, WorkTyped
  <2>2. ReadTo(p, 1, w)
    BY <1>5 DEF Goes
  <2> HIDE DEF w
  <2>3. PaidAsRead(p)'
    <3>1. pc'[p] = 1 /\ calls' = calls
      BY <2>2 DEF ReadTo, PayrollInv, InControl
    <3> QED
      BY <3>1 DEF PaidAsRead, At, Call, Paying
  <2> QED
    BY <1>1, <1>2, <2>1, <2>2, <2>3, PayingCall, PayGoes DEF RunSteps
<1> QED
  BY <1>3, <1>4, <1>5 DEF CheckKey

LEMMA PayeesAreListed == ASSUME PayrollInv, NEW p \in Procs, ListPayees(p) PROVE PayrollInv'
<1>1. Paying(p) /\ pc[p] = 1 /\ calls[p] # <<>>
  BY DEF ListPayees, Step, Paying
<1>2. CASE FailPay(p)
  BY <1>1, <1>2, PayReplies DEF FailPay, Pending, Recomputes, Paying
<1>3. ASSUME NEW n \in {2, 3}, (n = 3) <=> (Call(p).op = "pay"), Goes(p, n, [loc[p] EXCEPT !.listed = PayeeList])
      PROVE  PayrollInv'
  <2> DEFINE w == [loc[p] EXCEPT !.listed = PayeeList]
  <2>0. loc[p] \in Works /\ loc[p].k \in DOMAIN loc[p].users /\ loc[p].run = 0 /\ loc[p].how = "paid"
    <3>1. 1 > 0 /\ 1 < 9 /\ 1 \notin RunSteps
      BY DEF RunSteps
    <3> QED
      BY <1>1, <3>1, PayingCall
  <2>1. w.k = loc[p].k /\ w.users = loc[p].users /\ w.run = 0 /\ w.how = "paid"
    BY <2>0 DEF Works
  <2>2. w \in Works
    BY <2>0 DEF Works, PayeeList
  <2>3. ReadTo(p, n, w)
    BY <1>3 DEF Goes
  <2> HIDE DEF w
  <2>4. PaidAsRead(p)' /\ \A u \in Payees, m \in Months : ~Pending(p, u, m)
    <3>1. pc'[p] = n /\ calls' = calls
      BY <2>3 DEF ReadTo, PayrollInv, InControl
    <3> QED
      BY <1>1, <3>1 DEF PaidAsRead, At, Call, Paying, Pending, Recomputes
  <2> QED
    BY <1>1, <1>3, <2>0, <2>1, <2>2, <2>3, <2>4, PayingCall, PayGoes DEF RunSteps
<1> QED
  BY <1>1, <1>2, <1>3 DEF ListPayees

LEMMA RunIsOpened == ASSUME PayrollInv, NEW p \in Procs, OpenRun(p) PROVE PayrollInv'
<1>1. /\ Paying(p) /\ pc[p] = 2 /\ calls[p] # <<>> /\ Call(p).op = "bulk" /\ Call(p).key \in PayKeys \cup {Nothing}
      /\ OnWork(p) /\ loc[p] \in Works /\ loc[p].k \in DOMAIN loc[p].users /\ loc[p].how = "paid"
  BY PayingCall DEF OpenRun, Step, Paying, PayrollInv, PayHolds
<1>2. CASE Call(p).key # Nothing /\ RunOf(Call(p).key) # {}
  BY <1>1, <1>2, PayGoesOn DEF OpenRun, Goes, RunSteps, SameWork
<1>3. CASE ~(Call(p).key # Nothing /\ RunOf(Call(p).key) # {})
  <2> DEFINE e == [db EXCEPT !.runs = Append(@, [key |-> Call(p).key, success |-> 0])]
             run == Len(db.runs) + 1
  <2>1. /\ db' = e /\ loc' = [loc EXCEPT ![p].run = run] /\ pc' = [pc EXCEPT ![p] = 3] /\ UNCHANGED <<calls, scene>>
    BY <1>3 DEF OpenRun
  <2>2. Call(p).key # Nothing => \A n \in DOMAIN db.runs : db.runs[n].key # Call(p).key
    BY <1>3 DEF RunOf
  <2>3. /\ PayrollKept(e) /\ GrowsBy(db, e, 0) /\ SumsSame(db, e) /\ AddsStill(db, e)
        /\ e.paid = db.paid /\ run \in DOMAIN e.runs \ DOMAIN db.runs
    BY <1>1, <2>2, RunOpened DEF PayrollInv
  <2>4. run \in Nat /\ \A n \in DOMAIN db.paid : db.paid[n].run # run
    BY DEF PayrollInv, PayrollKept, PayrollTables, PaidApart
  <2> HIDE DEF e, run
  <2>5. /\ InControl(PayCalls)' /\ calls' = calls
        /\ pc'[p] = 3 /\ \A q \in Procs \ {p} : pc'[q] = pc[q] /\ loc'[q] = loc[q]
    <3>1. loc' = [q \in Procs |-> loc'[q]] /\ \A q \in Procs \ {p} : loc'[q] = loc[q]
      BY <2>1 DEF PayrollInv, InControl
    <3>2. InControl(PayCalls)
      BY DEF PayrollInv
    <3>3. calls[p] # <<>> /\ pc' = [pc EXCEPT ![p] = 3] /\ UNCHANGED <<calls, scene>> /\ 3 \in 0..16
      BY <1>1, <2>1
    <3> QED
      BY <3>1, <3>2, <3>3, GoesOn
  <2>6. loc'[p] = [loc[p] EXCEPT !.run = run]
    BY <2>1 DEF PayrollInv, InControl
  <2>7. loc'[p] \in Works /\ loc'[p].k \in DOMAIN loc'[p].users /\ loc'[p].run = run /\ loc'[p].how = "paid"
    BY <1>1, <2>4, <2>6 DEF Works
  <2>8. Running(p)'
    BY <1>1, <2>5 DEF Running, Call
  <2>9. PaidUpTo(p)'
    BY <2>1, <2>3, <2>4, <2>7 DEF PaidUpTo
  <2>10. PayHolds(p)'
    BY <1>1, <2>5, <2>7, <2>8, <2>9 DEF PayHolds, At, Call
  <2>11. AloneStep(p)
    BY <1>1, <2>1, <2>3, <2>5 DEF AloneStep, PaidAsRead, AddsStill, Pending, Recomputes, At, Call, Paying
  <2> QED
    BY <2>1, <2>3, <2>5, <2>7, <2>10, <2>11, PayStep DEF Writes
<1> QED
  BY <1>2, <1>3

\* A run goes on with its next item, or ends.
LEMMA ItemIsNext ==
    ASSUME PayrollInv, NEW p \in Procs, Paying(p), Call(p).op = "bulk", pc[p] \in (3..13) \cup {16},
           NEW tables, NEW paid \in Nat, NextItem(p, tables, paid), PayrollKept(tables), GrowsBy(db, tables, 0),
           scene.alone => \A u \in Payees, m \in Months : Pending(p, u, m) \/ Adds(db, u, m) => Adds(tables, u, m),
           SumsSame(db, tables)
    PROVE  PayrollInv'
<1>1. /\ calls[p] # <<>> /\ Running(p) /\ loc[p] \in Works /\ loc[p].k \in DOMAIN loc[p].users
      /\ PaidUpTo(p) /\ Call(p).year \in PayYears /\ loc[p].how = "paid"
  BY PayingCall DEF Running, PayrollInv, PayHolds
<1>2. loc[p].users \in Payrolls /\ Len(loc[p].users) \in Nat /\ loc[p].k \in 1..Len(loc[p].users)
  BY <1>1, WorkItem DEF Works
<1> DEFINE w == IF loc[p].k < Len(loc[p].users)
                THEN [loc[p] EXCEPT !.k = @ + 1, !.year = Call(p).year, !.success = @ + paid]
                ELSE [loc[p] EXCEPT !.success = @ + paid]
           n == IF loc[p].k < Len(loc[p].users) THEN 3 ELSE 15
<1>3. db' = tables /\ loc' = [loc EXCEPT ![p] = w] /\ pc' = [pc EXCEPT ![p] = n] /\ UNCHANGED <<calls, scene>>
  BY DEF NextItem
<1>4. /\ w \in Works /\ w.users = loc[p].users /\ w.run = loc[p].run /\ w.k \in DOMAIN w.users /\ w.how = "paid"
      /\ (w.k = loc[p].k + 1 /\ n = 3) \/ (w.k = loc[p].k /\ n = 15)
  <2>1. CASE loc[p].k < Len(loc[p].users)
    <3>1. loc[p].k + 1 \in DOMAIN loc[p].users /\ loc[p].k + 1 \in Nat
      BY <1>2, <2>1 DEF Payrolls
    <3>2. w = [loc[p] EXCEPT !.k = loc[p].k + 1, !.year = Call(p).year, !.success = loc[p].success + paid] /\ n = 3
      BY <1>1, <2>1 DEF Works
    <3>3. loc[p].success + paid \in Nat
      BY <1>1 DEF Works
    <3> HIDE DEF w, n
    <3> QED
      BY <1>1, <3>1, <3>2, <3>3 DEF Works
  <2>2. CASE ~(loc[p].k < Len(loc[p].users))
    <3>1. w = [loc[p] EXCEPT !.success = loc[p].success + paid] /\ n = 15
      BY <1>1, <2>2 DEF Works
    <3>2. loc[p].success + paid \in Nat
      BY <1>1 DEF Works
    <3> HIDE DEF w, n
    <3> QED
      BY <1>1, <3>1, <3>2 DEF Works
  <2> QED
    BY <2>1, <2>2
<1> HIDE DEF w, n
<1>5. n \in 0..16 /\ n \in {3, 15}
  BY <1>4
<1>6. /\ InControl(PayCalls)' /\ calls' = calls /\ loc'[p] = w
      /\ pc'[p] = n /\ \A q \in Procs \ {p} : pc'[q] = pc[q] /\ loc'[q] = loc[q]
  BY <1>1, <1>3, <1>5, GoesOn DEF PayrollInv, InControl
<1>7. Running(p)'
  BY <1>1, <1>5, <1>6 DEF Running, Call
<1>8. PaidUpTo(p)'
  <2>1. w.run \in DOMAIN tables.runs /\ w.run # 0
    BY <1>1, <1>4 DEF GrowsBy, PaidUpTo, PayrollInv, PayrollKept, PayrollTables
  <2>2. ASSUME NEW i \in DOMAIN tables.paid, tables.paid[i].run = w.run
        PROVE  \E j \in 1..w.k : w.users[j] = tables.paid[i].payee /\ (j = w.k => n > 8)
    <3>1. i \in DOMAIN db.paid /\ tables.paid[i].run = db.paid[i].run /\ tables.paid[i].payee = db.paid[i].payee
      BY <2>1, <2>2 DEF GrowsBy
    <3>2. PICK j \in 1..loc[p].k : loc[p].users[j] = db.paid[i].payee
      BY <1>1, <1>4, <2>2, <3>1 DEF PaidUpTo
    <3>3. j \in 1..w.k /\ (j = w.k => n > 8)
      BY <1>2, <1>4
    <3> QED
      BY <1>4, <3>1, <3>2, <3>3
  <2> QED
    BY <1>3, <1>6, <2>1, <2>2 DEF PaidUpTo
<1>9. PayHolds(p)'
  BY <1>4, <1>5, <1>6, <1>7, <1>8 DEF PayHolds, At, Call, Running
<1>10. scene.alone => AloneStep(p)
  BY <1>3, <1>5, <1>6 DEF AloneStep, PaidAsRead, At, Call, Paying
<1> QED
  BY <1>1, <1>3, <1>4, <1>6, <1>7, <1>9, <1>10, PayStep DEF Writes

\* The item was not paid, or nothing waits for its month.
LEMMA ItemIsLeft ==
    ASSUME PayrollInv, NEW p \in Procs, Paying(p), Call(p).op = "bulk", pc[p] \in (3..13) \cup {16}, NextItem(p, db, 0),
           \A u \in Payees, m \in Months : Pending(p, u, m) => Adds(db, u, m)
    PROVE  PayrollInv'
BY ItemIsNext, SamePayments DEF PayrollInv

LEMMA ItemIsSkipped == ASSUME PayrollInv, NEW p \in Procs, SkipItem(p) PROVE PayrollInv'
BY ItemIsLeft DEF SkipItem, Step, Pending, Recomputes, Paying

\* What is read for the current item goes on with it.
LEMMA ItemIsRead ==
    ASSUME PayrollInv, NEW p \in Procs, Paying(p), pc[p] \in {3, 4, 5, 10, 11, 12},
           \/ ReadMarks(p, pc[p] + 1, {Current(p)}) /\ pc[p] \in {3, 10}
           \/ ReadOpening(p, pc[p] + 1, {Current(p)}) /\ pc[p] \in {4, 11}
           \/ ReadPaid(p, pc[p] + 1, {Current(p)})
    PROVE  PayrollInv'
<1>1. loc[p] \in Works /\ Current(p) \in Payees
  BY PayingCall
<1>2. PICK w \in Works : /\ SameWork(w, loc[p]) /\ ReadTo(p, pc[p] + 1, w)
                         /\ pc[p] \in {5, 12} => w.paid[Current(p)] = PaidFor(Current(p), loc[p].month)
  <2>1. ReadPaid(p, pc[p] + 1, {Current(p)}) \/ (pc[p] \notin {5, 12} /\ (\/ ReadMarks(p, pc[p] + 1, {Current(p)})
                                                                        \/ ReadOpening(p, pc[p] + 1, {Current(p)})))
    OBVIOUS
  <2>2. Current(p) \in {Current(p)} \cap Payees
    BY <1>1
  <2> QED
    BY <1>1, <2>1, <2>2, ReadsTyped
<1>3. pc[p] + 1 \in 1..16 /\ pc[p] + 1 # 14 /\ pc[p] + 1 \notin {2, 15}
  OBVIOUS
<1>4. pc[p] + 1 \in RunSteps /\ pc[p] \in RunSteps
  BY DEF RunSteps
<1>5. (pc[p] > 8 => pc[p] + 1 > 8) /\ (pc[p] \in (9..13) \cup {16} => pc[p] + 1 \in (9..13) \cup {16}) /\ (pc[p] + 1 \in {6, 13} => pc[p] \in {5, 12})
  OBVIOUS
<1> QED
  BY <1>2, <1>3, <1>4, <1>5, PayGoesOn DEF SameWork

LEMMA MonthIsComputed == ASSUME PayrollInv, NEW p \in Procs, ComputeBefore(p) PROVE PayrollInv'
<1>1. CASE Step(p, 3) /\ ReadMarks(p, 4, {Current(p)})
  BY <1>1, ItemIsRead DEF Step
<1>2. CASE Step(p, 4) /\ ReadOpening(p, 5, {Current(p)})
  BY <1>2, ItemIsRead DEF Step
<1>3. CASE Step(p, 5) /\ ReadPaid(p, 6, {Current(p)})
  BY <1>3, ItemIsRead DEF Step
<1>4. CASE Step(p, 6) /\ WriteTo(p, 7, Balanced(p))
  <2>1. /\ Paying(p) /\ pc[p] = 6 /\ calls[p] # <<>> /\ loc[p] \in Works /\ loc[p].k \in DOMAIN loc[p].users /\ loc[p].how = "paid"
        /\ Running(p) \/ (loc[p].run = 0 /\ Call(p).op # "bulk")
        /\ Running(p) => Call(p).op = "bulk"
    BY <1>4, PayingCall DEF Step, RunSteps
  <2> DEFINE e == Balanced(p)
  <2>2. /\ PayrollKept(e) /\ GrowsBy(db, e, 0) /\ SumsSame(db, e)
        /\ \A v \in Payees, n \in Months : Adds(db, v, n) => Adds(e, v, n) \/ (v = Current(p) /\ n = loc[p].month)
        /\ loc[p].paid[Current(p)] = PaidFor(Current(p), loc[p].month) => Adds(e, Current(p), loc[p].month)
    BY <2>1, MonthBalanced
  <2>3. WriteTo(p, 7, e)
    BY <1>4
  <2> HIDE DEF e
  <2>4. /\ InControl(PayCalls)' /\ calls' = calls /\ db' = e
        /\ pc'[p] = 7 /\ \A q \in Procs \ {p} : pc'[q] = pc[q]
    BY <2>1, <2>3, WritesOn DEF PayrollInv
  <2>5. loc' = loc /\ UNCHANGED scene
    BY <2>3 DEF WriteTo
  <2>6. Running(p)' = Running(p)
    BY <2>1, <2>4 DEF Running, Call
  <2>7. Running(p) => PaidUpTo(p)'
    <3>1. Running(p) => PaidUpTo(p) /\ loc[p].run # 0
      BY DEF PayrollInv, PayHolds, PaidUpTo, PayrollKept, PayrollTables
    <3> QED
      BY <2>1, <2>2, <2>4, <2>5, <3>1 DEF PaidUpTo, GrowsBy
  <2>8. PayHolds(p)'
    BY <2>1, <2>4, <2>5, <2>6, <2>7 DEF PayHolds, At, Call, Paying
  <2>9. scene.alone => AloneStep(p)
    <3>1. scene.alone => Adds(e, Current(p), loc[p].month)
      BY <2>1, <2>2 DEF PayrollInv, AloneHolds, PaidAsRead
    <3>2. PaidAsRead(p)' /\ \A u \in Payees, m \in Months : ~Pending(p, u, m)
      BY <2>1, <2>4 DEF PaidAsRead, At, Call, Paying, Pending, Recomputes
    <3> QED
      BY <2>2, <2>4, <3>1, <3>2 DEF AloneStep
  <2> QED
    BY <2>1, <2>2, <2>4, <2>5, <2>6, <2>8, <2>9, PayStep DEF Writes
<1> QED
  BY <1>1, <1>2, <1>3, <1>4 DEF ComputeBefore

LEMMA NumberIsTaken == ASSUME PayrollInv, NEW p \in Procs, NextVoucher(p) PROVE PayrollInv'
<1> DEFINE w == [loc[p] EXCEPT !.number = Len(db.paid) + 1]
<1>1. Paying(p) /\ pc[p] = 7 /\ loc[p] \in Works
  BY PayingCall DEF NextVoucher, Step
<1>2. Len(db.paid) + 1 \in Nat
  BY DEF PayrollInv, PayrollKept, PayrollTables
<1>3. w \in Works /\ SameWork(w, loc[p])
  BY <1>1, <1>2 DEF Works, SameWork
<1>4. ReadTo(p, 8, w)
  BY DEF NextVoucher, Goes
<1> HIDE DEF w
<1>5. 7 \in RunSteps /\ 8 \in RunSteps
  BY DEF RunSteps
<1> QED
  BY <1>1, <1>3, <1>4, <1>5, PayGoesOn

LEMMA SpendsNow ==
    ASSUME PayrollInv, NEW p \in Procs, OnlySpends(p), calls[p] # <<>> PROVE Call(p).op = "spend"
<1>1. 1 \in DOMAIN calls[p] /\ Call(p) = calls[p][1]
  BY DEF PayrollInv, InControl, Call
<1> QED
  BY <1>1 DEF OnlySpends

LEMMA GrowsTwice ==
    ASSUME NEW d, NEW e, NEW f, GrowsBy(d, e, 0), GrowsBy(e, f, 0) PROVE GrowsBy(d, f, 0)
BY DEF GrowsBy

\* The payment of the current item is written under its key, unless number or key is taken.
PaymentKey(p) == IF Call(p).op = "pay" THEN Call(p).key ELSE Nothing
PaymentTaken(p) == loc[p].number \in DOMAIN db.paid \/ (PaymentKey(p) # Nothing /\ NumberOf(PaymentKey(p)) # {})
LEMMA PaymentIsWritten ==
    ASSUME PayrollInv, NEW p \in Procs, PayTx(p), ~PaymentTaken(p)
    PROVE  PayrollInv'
<1>1. /\ Paying(p) /\ pc[p] = 8 /\ calls[p] # <<>> /\ loc[p] \in Works /\ loc[p].k \in DOMAIN loc[p].users
      /\ Current(p) \in Payees /\ loc[p].month \in Months /\ Call(p).amount \in Nat /\ Call(p).key \in PayKeys \cup {Nothing}
      /\ Running(p) \/ (loc[p].run = 0 /\ Call(p).op # "bulk")
      /\ Running(p) => Call(p).op = "bulk"
      /\ loc[p].how = "paid"
  BY PayingCall DEF PayTx, Step, RunSteps
<1> DEFINE key == PaymentKey(p)
           row == [payee |-> Current(p), month |-> loc[p].month, amount |-> Call(p).amount, key |-> key,
                   run |-> loc[p].run, void |-> FALSE, opening |-> loc[p].opening[Current(p)]]
           e == [db EXCEPT !.paid = Append(@, row)]
<1>2. db' = e /\ pc' = [pc EXCEPT ![p] = 9] /\ UNCHANGED <<calls, loc, scene>>
  BY DEF PayTx, PaymentTaken, PaymentKey
<1>3. row \in PaidRows
  BY <1>1 DEF PaidRows, Works, PaymentKey
<1>4. key # Nothing => \A n \in DOMAIN db.paid : db.paid[n].key # key
  BY DEF NumberOf, PaymentTaken
<1>5. Running(p) => PaidUpTo(p) /\ loc[p].run \in DOMAIN db.runs /\ loc[p].run # 0
  <2>1. Running(p) => PaidUpTo(p) /\ loc[p].run \in DOMAIN db.runs
    BY DEF PayrollInv, PayHolds, PaidUpTo
  <2>2. db.runs \in Seq([key : PayKeys \cup {Nothing}, success : Nat])
    BY DEF PayrollInv, PayrollKept, PayrollTables
  <2>3. 0 \notin DOMAIN db.runs
    BY <2>2
  <2> QED
    BY <2>1, <2>3
<1>6. ASSUME loc[p].run # 0, NEW n \in DOMAIN db.paid, db.paid[n].run = loc[p].run
      PROVE  db.paid[n].payee # Current(p)
  <2>1. PICK j \in 1..loc[p].k : loc[p].users[j] = db.paid[n].payee /\ (j = loc[p].k => pc[p] > 8)
    BY <1>1, <1>5, <1>6 DEF PaidUpTo
  <2>2. j \in DOMAIN loc[p].users /\ j # loc[p].k
    BY <1>1, <2>1, WorkItem
  <2> QED
    BY <1>1, <2>1, <2>2, WorkItem DEF Current
<1>7. loc[p].run \in 0..Len(db.runs) /\ Current(p) # Nothing
  BY <1>1, <1>5, PayrollSceneAssumption DEF PayrollInv, PayrollKept, PayrollTables
<1>8. PayrollKept(db)
  BY DEF PayrollInv
<1>9. /\ PayrollKept(e) /\ GrowsBy(db, e, loc[p].run)
      /\ DOMAIN e.paid = DOMAIN db.paid \cup {Len(db.paid) + 1}
      /\ e.runs = db.runs /\ e.paid[Len(db.paid) + 1] = row
      /\ \A n \in DOMAIN db.paid : e.paid[n] = db.paid[n]
      /\ \A u \in Payees, m \in Months : (u = Current(p) /\ m = loc[p].month) \/ (Adds(db, u, m) => Adds(e, u, m))
  <2>1. /\ row.run = loc[p].run /\ row.key = key /\ row.payee = Current(p) /\ row.month = loc[p].month
    OBVIOUS
  <2>2. row.run # 0 => \A n \in DOMAIN db.paid : db.paid[n].run = row.run => db.paid[n].payee # row.payee
    BY <1>6
  <2> HIDE DEF row, key
  <2>3. IF row.payee = Nothing THEN row.key = Nothing ELSE row.month \in Months
    BY <1>1, <1>7, <2>1
  <2>4. row.key # Nothing => \A n \in DOMAIN db.paid : db.paid[n].key # row.key
    BY <1>4, <2>1
  <2>5. row.run \in 0..Len(db.runs)
    BY <1>7, <2>1
  <2>6. /\ PayrollKept(e) /\ GrowsBy(db, e, row.run)
        /\ DOMAIN e.paid = DOMAIN db.paid \cup {Len(db.paid) + 1}
        /\ e.runs = db.runs /\ e.paid[Len(db.paid) + 1] = row
        /\ \A n \in DOMAIN db.paid : e.paid[n] = db.paid[n]
        /\ \A u \in Payees, m \in Months : (row.payee = u /\ row.month = m) \/ (Adds(db, u, m) => Adds(e, u, m))
    BY <1>3, <1>8, <2>2, <2>3, <2>4, <2>5, RowAppended
  <2> HIDE DEF e
  <2> QED
    BY <2>1, <2>6
<1>10. row.payee = Current(p) /\ row.run = loc[p].run
  OBVIOUS
<1> HIDE DEF row, e, key
<1>11. /\ InControl(PayCalls)' /\ calls' = calls /\ loc' = loc
       /\ pc'[p] = 9 /\ \A q \in Procs \ {p} : pc'[q] = pc[q]
  <2>1. InControl(PayCalls) /\ loc' = [q \in Procs |-> loc'[q]] /\ \A q \in Procs \ {p} : loc'[q] = loc[q]
    BY <1>2 DEF PayrollInv, InControl
  <2>2. calls[p] # <<>> /\ pc' = [pc EXCEPT ![p] = 9] /\ UNCHANGED <<calls, scene>> /\ 9 \in 0..16
    BY <1>1, <1>2
  <2> QED
    BY <1>2, <2>1, <2>2, GoesOn
<1>12. Running(p)' = Running(p)
  BY <1>1, <1>11 DEF Running, Call
<1>13. Running(p) => PaidUpTo(p)'
  <2>1. ASSUME Running(p), NEW n \in DOMAIN e.paid, e.paid[n].run = loc[p].run
        PROVE  \E j \in 1..loc[p].k : loc[p].users[j] = e.paid[n].payee
    <3>1. CASE n \in DOMAIN db.paid
      BY <1>5, <1>9, <2>1, <3>1 DEF PaidUpTo
    <3>2. CASE n = Len(db.paid) + 1
      <4>1. loc[p].k \in 1..loc[p].k
        BY <1>1, WorkItem
      <4> QED
        BY <1>9, <1>10, <3>2, <4>1 DEF Current
    <3> QED
      BY <1>9, <2>1, <3>1, <3>2
  <2> QED
    BY <1>2, <1>5, <1>9, <1>11, <2>1 DEF PaidUpTo
<1>14. PayHolds(p)'
  BY <1>1, <1>11, <1>12, <1>13 DEF PayHolds, At, Call
<1>15. AloneStep(p)
  <2>1. PaidAsRead(p)' /\ \A u \in Payees, m \in Months : ~Pending(p, u, m)
    BY <1>1, <1>11 DEF PaidAsRead, At, Call, Paying, Pending, Recomputes
  <2>2. \A u \in Payees, m \in Months : u = Current(p) /\ m = loc[p].month => Pending(p, u, m)'
    BY <1>1, <1>11 DEF Pending, Recomputes, Paying, Current, Call
  <2>3. ~OnlySpends(p)
    BY <1>1, SpendsNow DEF Paying
  <2> QED
    BY <1>2, <1>9, <2>1, <2>2, <2>3 DEF AloneStep
<1> QED
  BY <1>1, <1>2, <1>9, <1>11, <1>12, <1>14, <1>15, PayStep DEF Writes

LEMMA SalaryIsPaid == ASSUME PayrollInv, NEW p \in Procs, PayTx(p) PROVE PayrollInv'
<1>1. /\ Paying(p) /\ pc[p] = 8 /\ calls[p] # <<>> /\ loc[p] \in Works /\ loc[p].k \in DOMAIN loc[p].users
      /\ Call(p).op # "bulk" => loc[p].run = 0 /\ Call(p).op = "pay"
  BY PayingCall DEF PayTx, Step, Running
<1>2. \A u \in Payees, m \in Months : ~Pending(p, u, m)
  BY <1>1 DEF Pending, Recomputes, Paying
<1>3. CASE NextItem(p, db, 0) /\ Call(p).op = "bulk"
  BY <1>1, <1>2, <1>3, ItemIsLeft
<1>4. CASE FailPay(p)
  BY <1>1, <1>2, <1>4, PayReplies DEF FailPay
<1>5. CASE Goes(p, 14, loc[p]) /\ Call(p).op = "pay" /\ Call(p).key # Nothing
  <2>1. ReadTo(p, 14, loc[p]) /\ 14 \notin RunSteps
    BY <1>5 DEF Goes, RunSteps
  <2>2. PaidAsRead(p)'
    <3>1. pc'[p] = 14 /\ calls' = calls
      BY <2>1 DEF ReadTo, PayrollInv, InControl
    <3> QED
      BY <3>1 DEF PaidAsRead, At, Call, Paying
  <2> QED
    BY <1>1, <1>2, <1>5, <2>1, <2>2, PayGoes
<1>6. CASE ~PaymentTaken(p)
  BY <1>6, PaymentIsWritten
<1>7. CASE PaymentTaken(p)
  BY <1>1, <1>3, <1>4, <1>5, <1>7 DEF PayTx, PaymentTaken, PaymentKey
<1> QED
  BY <1>6, <1>7

\* The payment stands, and its month is left behind.
LEMMA PaidIsLeft ==
    ASSUME PayrollInv, NEW p \in Procs, Paying(p), pc[p] \in {9, 16}, FailAfter(p) PROVE PayrollInv'
<1>1. calls[p] # <<>> /\ Call(p).op \in {"pay", "bulk"} /\ loc[p] \in Works /\ loc[p].k \in DOMAIN loc[p].users
  BY PayingCall
<1> DEFINE e == LeftBehind(p)
           f == Reply(e, p, "failed", 0)
<1>2. /\ PayrollKept(e) /\ GrowsBy(db, e, 0) /\ SumsSame(db, e)
      /\ \A u \in Payees, m \in Months : Pending(p, u, m) \/ Adds(db, u, m) => Adds(e, u, m)
  BY <1>1, MonthLeftBehind DEF AddsStill
<1>3. IF Call(p).op = "bulk" THEN NextItem(p, e, 0) ELSE Commit(p, f)
  BY DEF FailAfter
<1> HIDE DEF e
<1>4. CASE Call(p).op = "bulk"
  BY <1>1, <1>2, <1>3, <1>4, ItemIsNext
<1>5. CASE Call(p).op # "bulk"
  <2>1. PayrollKept(f) /\ GrowsBy(e, f, 0) /\ SumsSame(e, f) /\ AddsStill(e, f)
    BY <1>2, Replied
  <2> HIDE DEF f
  <2>2. GrowsBy(db, f, 0) /\ SumsSame(db, f)
    BY <1>2, <2>1, GrowsTwice DEF SumsSame
  <2> QED
    BY <1>1, <1>2, <1>3, <1>5, <2>1, <2>2, PayAnswers DEF AddsStill
<1> QED
  BY <1>4, <1>5

LEMMA PayeeIsFound == ASSUME PayrollInv, NEW p \in Procs, FindAgain(p) PROVE PayrollInv'
<1>1. /\ Paying(p) /\ pc[p] = 9 /\ calls[p] # <<>> /\ loc[p] \in Works
  BY PayingCall DEF FindAgain, Step
<1>2. CASE Goes(p, 16, loc[p])
  <2>1. 9 \in RunSteps /\ 16 \in RunSteps /\ SameWork(loc[p], loc[p])
    BY DEF RunSteps, SameWork
  <2> QED
    BY <1>1, <1>2, <2>1, PayGoesOn DEF Goes
<1>3. CASE FailAfter(p)
  BY <1>1, <1>3, PaidIsLeft
<1> QED
  BY <1>2, <1>3 DEF FindAgain

LEMMA YearIsFound == ASSUME PayrollInv, NEW p \in Procs, FindYear(p) PROVE PayrollInv'
<1>1. /\ Paying(p) /\ pc[p] = 16 /\ calls[p] # <<>> /\ loc[p] \in Works
  BY PayingCall DEF FindYear, Step
<1>2. CASE Goes(p, 10, [loc[p] EXCEPT !.year = db.current])
  <2> DEFINE w == [loc[p] EXCEPT !.year = db.current]
  <2>1. db.current \in PayYears \cup {Nothing}
    BY DEF PayrollInv, PayrollKept, PayrollTables
  <2>2. w \in Works /\ SameWork(w, loc[p])
    BY <1>1, <2>1 DEF Works, SameWork
  <2>3. ReadTo(p, 10, w)
    BY <1>2 DEF Goes
  <2> HIDE DEF w
  <2>4. 16 \in RunSteps /\ 10 \in RunSteps
    BY DEF RunSteps
  <2> QED
    BY <1>1, <2>2, <2>3, <2>4, PayGoesOn
<1>3. CASE FailAfter(p)
  BY <1>1, <1>3, PaidIsLeft
<1> QED
  BY <1>2, <1>3 DEF FindYear

\* The month of a payment is computed again, and the caller is told.
LEMMA MonthIsComputedAgain == ASSUME PayrollInv, NEW p \in Procs, ComputeAfter(p) PROVE PayrollInv'
<1>1. CASE Step(p, 10) /\ ReadMarks(p, 11, {Current(p)})
  BY <1>1, ItemIsRead DEF Step
<1>2. CASE Step(p, 11) /\ ReadOpening(p, 12, {Current(p)})
  BY <1>2, ItemIsRead DEF Step
<1>3. CASE Step(p, 12) /\ ReadPaid(p, 13, {Current(p)})
  BY <1>3, ItemIsRead DEF Step
<1>4. CASE Step(p, 13) /\ IF Call(p).op = "pay" THEN Commit(p, Reply(Balanced(p), p, loc[p].how, loc[p].number))
                          ELSE NextItem(p, Balanced(p), 1)
  <2>1. /\ Paying(p) /\ pc[p] = 13 /\ calls[p] # <<>> /\ loc[p] \in Works /\ loc[p].k \in DOMAIN loc[p].users
        /\ Call(p).op \in {"pay", "bulk"}
    BY <1>4, PayingCall DEF Step
  <2> DEFINE e == Balanced(p)
  <2>2. /\ PayrollKept(e) /\ GrowsBy(db, e, 0) /\ SumsSame(db, e)
        /\ \A v \in Payees, n \in Months : Adds(db, v, n) => Adds(e, v, n) \/ (v = Current(p) /\ n = loc[p].month)
        /\ loc[p].paid[Current(p)] = PaidFor(Current(p), loc[p].month) => Adds(e, Current(p), loc[p].month)
    BY <2>1, MonthBalanced
  <2> HIDE DEF e
  <2>3. scene.alone => \A u \in Payees, m \in Months : Pending(p, u, m) \/ Adds(db, u, m) => Adds(e, u, m)
    <3>1. scene.alone => Adds(e, Current(p), loc[p].month)
      BY <2>1, <2>2 DEF PayrollInv, AloneHolds, PaidAsRead
    <3> QED
      BY <2>2, <3>1 DEF Pending
  <2>4. CASE Call(p).op = "pay"
    <3> DEFINE f == Reply(e, p, loc[p].how, loc[p].number)
    <3>1. loc[p].how \in {"paid", "replayed", "failed"} /\ loc[p].number \in Nat
      BY <2>1 DEF Works
    <3>2. PayrollKept(f) /\ GrowsBy(e, f, 0) /\ SumsSame(e, f) /\ AddsStill(e, f)
      BY <2>2, <3>1, Replied
    <3>3. Commit(p, f)
      BY <1>4, <2>4 DEF e
    <3> HIDE DEF f
    <3>4. GrowsBy(db, f, 0) /\ SumsSame(db, f)
      BY <2>2, <3>2, GrowsTwice DEF SumsSame
    <3> QED
      BY <2>1, <2>3, <3>2, <3>3, <3>4, PayAnswers DEF AddsStill
  <2>5. CASE Call(p).op = "bulk"
    <3>1. NextItem(p, e, 1)
      BY <1>4, <2>5 DEF e
    <3> QED
      BY <2>1, <2>2, <2>3, <2>5, <3>1, ItemIsNext
  <2> QED
    BY <2>1, <2>4, <2>5
<1> QED
  BY <1>1, <1>2, <1>3, <1>4 DEF ComputeAfter

LEMMA CallsConverge == ASSUME PayrollInv, NEW p \in Procs, Converge(p) PROVE PayrollInv'
<1>1. Paying(p) /\ pc[p] = 14 /\ calls[p] # <<>> /\ Call(p).key # Nothing
  BY DEF Converge, Step, Paying, PayrollInv, PayHolds
<1>2. \A u \in Payees, m \in Months : ~Pending(p, u, m)
  BY <1>1 DEF Pending, Recomputes, Paying
<1>3. CASE Call(p).op = "pay" /\ ReplayPay(p)
  BY <1>1, <1>3, Replays
<1>4. CASE Commit(p, Reply(db, p, "replayed", 0)) \/ FailPay(p)
  BY <1>1, <1>2, <1>4, PayReplies DEF FailPay
<1> QED
  BY <1>3, <1>4 DEF Converge

LEMMA RunIsClosed == ASSUME PayrollInv, NEW p \in Procs, CloseRun(p) PROVE PayrollInv'
<1>1. Paying(p) /\ pc[p] = 15 /\ calls[p] # <<>> /\ Running(p) /\ loc[p] \in Works /\ loc[p].run \in DOMAIN db.runs
  <2>1. Paying(p) /\ pc[p] = 15 /\ calls[p] # <<>>
    BY DEF CloseRun, Step, Paying
  <2>2. Running(p)
    BY <2>1 DEF Running, PayrollInv, PayHolds
  <2> QED
    BY <2>1, <2>2, PayingCall DEF PayrollInv, PayHolds, PaidUpTo
<1> DEFINE e == [db EXCEPT !.runs[loc[p].run].success = loc[p].success]
           f == Reply(e, p, "paid", 0)
<1>2. PayrollKept(e) /\ GrowsBy(db, e, 0) /\ SumsSame(db, e) /\ AddsStill(db, e)
  <2>1. loc[p].success \in Nat
    BY <1>1 DEF Works
  <2> QED
    BY <1>1, <2>1, RunClosed DEF PayrollInv
<1>3. Commit(p, f)
  BY DEF CloseRun
<1> HIDE DEF e
<1>4. PayrollKept(f) /\ GrowsBy(e, f, 0) /\ SumsSame(e, f) /\ AddsStill(e, f)
  BY <1>2, Replied
<1> HIDE DEF f
<1>5. GrowsBy(db, f, 0) /\ SumsSame(db, f) /\ AddsStill(db, f)
  BY <1>2, <1>4, GrowsTwice DEF SumsSame, AddsStill
<1>6. \A u \in Payees, m \in Months : ~Pending(p, u, m)
  BY <1>1 DEF Pending, Recomputes, Paying
<1> QED
  BY <1>1, <1>3, <1>4, <1>5, <1>6, PayAnswers DEF AddsStill

-----------------------------------------------------------------------------
\* Voiding, other expenses, the list, and what the payroll reads.

\* A handler that does not compute months, or not yet.
LEMMA GoesElsewhere ==
    ASSUME PayrollInv, NEW p \in Procs, calls[p] # <<>>, NEW n \in 1..3, UNCHANGED <<calls, scene>>,
           pc' = [pc EXCEPT ![p] = n], loc' = [q \in Procs |-> loc'[q]], \A q \in Procs \ {p} : loc'[q] = loc[q],
           \/ Call(p).op = "spend" /\ (n = 1 => Call(p).provider \in Providers)
           \/ Call(p).op = "void" /\ n = 1 /\ pc[p] = 0 /\ Call(p).number \in DOMAIN db.paid,
           PayrollKept(db'), GrowsBy(db, db', 0), SumsSame(db, db'), AddsStill(db, db')
    PROVE  PayrollInv'
<1>1. /\ InControl(PayCalls)' /\ calls' = calls
      /\ pc'[p] = n /\ \A q \in Procs \ {p} : pc'[q] = pc[q]
  <2>1. InControl(PayCalls) /\ n \in 0..16
    BY DEF PayrollInv
  <2> QED
    BY <2>1, GoesOn
<1>2. ~Running(p)' /\ ~OnWork(p)'
  BY <1>1 DEF Running, OnWork, Call
<1>3. PayHolds(p)'
  BY <1>1, <1>2 DEF PayHolds, At, Call, Paying, GrowsBy
<1>4. PaidAsRead(p)' /\ \A u \in Payees, m \in Months : ~Pending(p, u, m)
  BY <1>1 DEF PaidAsRead, At, Call, Paying, Pending, Recomputes
<1>5. AloneStep(p)
  BY <1>4 DEF AloneStep, AddsStill
<1> QED
  BY <1>1, <1>2, <1>3, <1>5, PayStep DEF Writes

LEMMA ReadsElsewhere ==
    ASSUME PayrollInv, NEW p \in Procs, calls[p] # <<>>, NEW n \in 1..3, NEW saw, ReadTo(p, n, saw),
           \/ Call(p).op = "spend" /\ (n = 1 => Call(p).provider \in Providers)
           \/ Call(p).op = "void" /\ n = 1 /\ pc[p] = 0 /\ Call(p).number \in DOMAIN db.paid
    PROVE  PayrollInv'
<1>1. /\ loc' = [q \in Procs |-> loc'[q]] /\ \A q \in Procs \ {p} : loc'[q] = loc[q]
      /\ db' = db /\ pc' = [pc EXCEPT ![p] = n] /\ UNCHANGED <<calls, scene>>
  BY DEF ReadTo, PayrollInv, InControl
<1>2. PayrollKept(db') /\ GrowsBy(db, db', 0) /\ SumsSame(db, db') /\ AddsStill(db, db')
  BY <1>1, SamePayments DEF PayrollInv, AddsStill
<1> QED
  BY <1>1, <1>2, GoesElsewhere

\* A handler with nothing to compute is answered.
LEMMA RefusesPay ==
    ASSUME PayrollInv, NEW p \in Procs, calls[p] # <<>>, Refuse(p),
           \A u \in Payees, m \in Months : Pending(p, u, m) => Adds(db, u, m)
    PROVE  PayrollInv'
BY PayReplies

LEMMA VoidIsChecked == ASSUME PayrollInv, NEW p \in Procs, VoidCheck(p) PROVE PayrollInv'
<1>1. calls[p] # <<>> /\ Call(p).op = "void" /\ pc[p] = 0
  BY DEF VoidCheck, At
<1>2. CASE Refuse(p)
  BY <1>1, <1>2, RefusesPay DEF Pending, Recomputes, Paying
<1>3. CASE Goes(p, 1, Nothing) /\ Call(p).number \in DOMAIN db.paid
  BY <1>1, <1>3, ReadsElsewhere DEF Goes
<1> QED
  BY <1>2, <1>3 DEF VoidCheck

LEMMA PaymentIsVoided == ASSUME PayrollInv, NEW p \in Procs, VoidWrite(p) PROVE PayrollInv'
<1> DEFINE row == db.paid[Call(p).number]
           e == [db EXCEPT !.paid[Call(p).number].void = TRUE]
<1>1. calls[p] # <<>> /\ Call(p).op = "void" /\ pc[p] = 1 /\ Call(p).number \in DOMAIN db.paid
  BY DEF VoidWrite, At, PayrollInv, PayHolds
<1>2. /\ PayrollKept(e) /\ GrowsBy(db, e, 0)
      /\ \A u \in Payees, m \in Months : (row.payee = u /\ row.month = m) \/
            (PaidIn(e.paid, u, m) = PaidIn(db.paid, u, m) /\ (Adds(db, u, m) => Adds(e, u, m)))
  BY <1>1, RowVoided DEF PayrollInv
<1>3. ~OnlySpends(p) /\ \A u \in Payees, m \in Months : ~Pending(p, u, m)
  BY <1>1, SpendsNow DEF Pending, Recomputes, Paying
<1>4. CASE row.payee = Nothing
  <2>1. Commit(p, e)
    BY <1>4 DEF VoidWrite
  <2>2. \A u \in Payees : row.payee # u
    BY <1>4, PayrollSceneAssumption
  <2> HIDE DEF e, row
  <2> QED
    BY <1>1, <1>2, <1>3, <2>1, <2>2, PayAnswers
<1>5. CASE row.payee # Nothing
  <2> DEFINE w == Work(<<row.payee>>, row.month, Nothing)
  <2>1. db' = e /\ pc' = [pc EXCEPT ![p] = 2] /\ loc' = [loc EXCEPT ![p] = w] /\ UNCHANGED <<calls, scene>>
    BY <1>5 DEF VoidWrite
  <2>2. row \in PaidRows
    BY <1>1 DEF PayrollInv, PayrollKept, PayrollTables
  <2>3. row.payee \in Payees /\ row.month \in Months
    BY <1>1, <1>5, <2>2 DEF PayrollInv, PayrollKept, PaidApart, PaidRows
  <2>4. <<row.payee>> \in Payrolls
    BY <2>3 DEF Payrolls
  <2>5. w \in Works /\ w.k \in DOMAIN w.users /\ w.run = 0 /\ w.month = row.month /\ w.how = "paid"
    BY <2>3, <2>4, WorkTyped
  <2>6. w.users[w.k] = row.payee
    BY DEF Work
  <2> HIDE DEF w, e, row
  <2>7. /\ InControl(PayCalls)' /\ calls' = calls /\ loc'[p] = w
        /\ pc'[p] = 2 /\ \A q \in Procs \ {p} : pc'[q] = pc[q] /\ loc'[q] = loc[q]
    <3>1. /\ InControl(PayCalls) /\ loc' = [q \in Procs |-> loc'[q]]
          /\ \A q \in Procs \ {p} : loc'[q] = loc[q]
          /\ loc'[p] = w
      BY <2>1 DEF PayrollInv, InControl
    <3>2. calls[p] # <<>> /\ pc' = [pc EXCEPT ![p] = 2] /\ UNCHANGED <<calls, scene>> /\ 2 \in 0..16
      BY <1>1, <2>1
    <3> QED
      BY <3>1, <3>2, GoesOn
  <2>8. ~Running(p)'
    BY <1>1, <2>7 DEF Running, Call
  <2>9. PayHolds(p)'
    BY <1>1, <2>5, <2>7, <2>8 DEF PayHolds, At, Call, Paying
  <2>10. AloneStep(p)
    <3>1. PaidAsRead(p)'
      BY <1>1, <2>7 DEF PaidAsRead, At, Call, Paying
    <3>2. \A u \in Payees, m \in Months : u = row.payee /\ m = row.month => Pending(p, u, m)'
      BY <1>1, <2>5, <2>6, <2>7 DEF Pending, Recomputes, Paying, Current, Call
    <3> QED
      BY <1>2, <1>3, <2>1, <3>1, <3>2 DEF AloneStep
  <2> QED
    BY <1>2, <2>1, <2>7, <2>8, <2>9, <2>10, PayStep DEF Writes
<1> QED
  BY <1>4, <1>5

\* What a handler reads after a void, or for the list.
LEMMA WorkGoesOn ==
    ASSUME PayrollInv, NEW p \in Procs, calls[p] # <<>>, NEW n \in 1..7, NEW w \in Works, SameWork(w, loc[p]), ReadTo(p, n, w),
           \/ Call(p).op = "void" /\ pc[p] > 1 /\ n > 1
              /\ (n = 6 => w.paid[Current(p)] = PaidFor(Current(p), loc[p].month))
           \/ Call(p).op = "list" /\ pc[p] > 0
              /\ (n = 4 => \A j \in DOMAIN w.users : w.paid[w.users[j]] = PaidFor(w.users[j], loc[p].month))
    PROVE  PayrollInv'
<1>1. OnWork(p) /\ ~Running(p)
  BY DEF OnWork, Running
<1>2. loc[p].run = 0 /\ loc[p].k \in DOMAIN loc[p].users
  BY <1>1 DEF PayrollInv, PayHolds
<1>3. w.k \in DOMAIN w.users /\ w.run = 0
  BY <1>2 DEF SameWork
<1>4. db' = db /\ calls' = calls /\ pc'[p] = n /\ loc'[p] = w
  BY DEF ReadTo, PayrollInv, InControl
<1>5. PaidAsRead(p)'
  BY <1>4 DEF PaidAsRead, At, Call, Paying, Current, PaidFor, SameWork
<1>6. \A u \in Payees, m \in Months : Pending(p, u, m) => Pending(p, u, m)'
  BY <1>4 DEF Pending, Recomputes, Call, Paying, Current, SameWork
<1> QED
  BY <1>3, <1>5, <1>6, PayGoes

LEMMA VoidIsRefreshed == ASSUME PayrollInv, NEW p \in Procs, VoidRefresh(p) PROVE PayrollInv'
<1>1. /\ calls[p] # <<>> /\ Call(p).op = "void" /\ pc[p] \in 2..7 /\ loc[p] \in Works /\ loc[p].k \in DOMAIN loc[p].users
      /\ Current(p) \in Payees /\ loc[p].month \in Months
  <2>1. calls[p] # <<>> /\ Call(p).op = "void" /\ pc[p] \in 2..7
    BY DEF VoidRefresh, At
  <2>2. OnWork(p)
    BY <2>1 DEF OnWork
  <2> QED
    BY <2>1, <2>2, WorkItem DEF PayrollInv, PayHolds
<1>2. CASE \/ At(p, "void", 2) /\ Goes(p, 7, loc[p])
           \/ At(p, "void", 7) /\ Goes(p, 3, [loc[p] EXCEPT !.year = db.current])
  <2>1. db.current \in PayYears \cup {Nothing}
    BY DEF PayrollInv, PayrollKept, PayrollTables
  <2>2. PICK n \in {3, 7}, w \in Works : SameWork(w, loc[p]) /\ ReadTo(p, n, w)
    BY <1>1, <1>2, <2>1 DEF Goes, Works, SameWork
  <2> QED
    BY <1>1, <1>2, <2>2, WorkGoesOn DEF At
<1>7. CASE Commit(p, LeftBehind(p))
  <2> DEFINE e == LeftBehind(p)
  <2>1. /\ PayrollKept(e) /\ GrowsBy(db, e, 0) /\ SumsSame(db, e)
        /\ \A u \in Payees, m \in Months : Pending(p, u, m) \/ Adds(db, u, m) => Adds(e, u, m)
    BY <1>1, MonthLeftBehind DEF AddsStill
  <2>2. Commit(p, e)
    BY <1>7
  <2> HIDE DEF e
  <2> QED
    BY <1>1, <2>1, <2>2, PayAnswers
<1>3. CASE At(p, "void", 3) /\ ReadMarks(p, 4, {Current(p)})
  <2>1. PICK w \in Works : SameWork(w, loc[p]) /\ ReadTo(p, 4, w)
    BY <1>1, <1>3, ReadsTyped
  <2> QED
    BY <1>1, <1>3, <2>1, WorkGoesOn DEF At
<1>4. CASE At(p, "void", 4) /\ ReadOpening(p, 5, {Current(p)})
  <2>1. PICK w \in Works : SameWork(w, loc[p]) /\ ReadTo(p, 5, w)
    BY <1>1, <1>4, ReadsTyped
  <2> QED
    BY <1>1, <1>4, <2>1, WorkGoesOn DEF At
<1>5. CASE At(p, "void", 5) /\ ReadPaid(p, 6, {Current(p)})
  <2>1. PICK w \in Works : /\ SameWork(w, loc[p]) /\ ReadTo(p, 6, w)
                           /\ \A u \in {Current(p)} \cap Payees : w.paid[u] = PaidFor(u, loc[p].month)
    BY <1>1, <1>5, ReadsTyped
  <2>2. w.paid[Current(p)] = PaidFor(Current(p), loc[p].month)
    BY <1>1, <2>1
  <2> QED
    BY <1>1, <1>5, <2>1, <2>2, WorkGoesOn DEF At
<1>6. CASE At(p, "void", 6) /\ Commit(p, Balanced(p))
  <2> DEFINE e == Balanced(p)
  <2>1. /\ PayrollKept(e) /\ GrowsBy(db, e, 0) /\ SumsSame(db, e)
        /\ \A v \in Payees, n \in Months : Adds(db, v, n) => Adds(e, v, n) \/ (v = Current(p) /\ n = loc[p].month)
        /\ loc[p].paid[Current(p)] = PaidFor(Current(p), loc[p].month) => Adds(e, Current(p), loc[p].month)
    BY <1>1, MonthBalanced
  <2> HIDE DEF e
  <2>2. scene.alone => Adds(e, Current(p), loc[p].month)
    BY <1>1, <1>6, <2>1 DEF PayrollInv, AloneHolds, PaidAsRead, At
  <2>3. scene.alone => \A u \in Payees, m \in Months : Pending(p, u, m) \/ Adds(db, u, m) => Adds(e, u, m)
    BY <2>1, <2>2 DEF Pending
  <2>4. Commit(p, e)
    BY <1>6 DEF e
  <2> QED
    BY <1>1, <2>1, <2>3, <2>4, PayAnswers
<1> QED
  BY <1>2, <1>3, <1>4, <1>5, <1>6, <1>7 DEF VoidRefresh

LEMMA ProviderIsSaved == ASSUME PayrollInv, NEW p \in Procs, SaveProvider(p) PROVE PayrollInv'
<1>1. calls[p] # <<>> /\ Call(p).op = "spend" /\ Call(p).provider \in Providers \cup {Nothing}
  BY PayCall DEF SaveProvider, At
<1>2. \A u \in Payees, m \in Months : ~Pending(p, u, m)
  BY <1>1 DEF Pending, Recomputes, Paying
<1>3. CASE At(p, "spend", 0) /\ Goes(p, IF Call(p).provider \in db.providers \cup {Nothing} THEN 2 ELSE 1, Nothing)
  <2>1. CASE Call(p).provider \in db.providers \cup {Nothing}
    BY <1>1, <1>3, <2>1, ReadsElsewhere DEF Goes
  <2>2. CASE Call(p).provider \notin db.providers \cup {Nothing}
    BY <1>1, <1>3, <2>2, ReadsElsewhere DEF Goes
  <2> QED
    BY <2>1, <2>2
<1>4. CASE Refuse(p)
  BY <1>1, <1>2, <1>4, RefusesPay
<1>5. CASE At(p, "spend", 1) /\ WriteTo(p, 2, [db EXCEPT !.providers = @ \cup {Call(p).provider}])
  <2> DEFINE providers == db.providers \cup {Call(p).provider}
             e == [db EXCEPT !.active = db.active, !.current = db.current, !.marks = db.marks, !.providers = providers]
  <2>1. Call(p).provider \in Providers
    BY <1>5 DEF PayrollInv, PayHolds
  <2>2. providers \in SUBSET Providers
    BY <2>1 DEF PayrollInv, PayrollKept, PayrollTables
  <2>3. PayrollKept(e) /\ GrowsBy(db, e, 0) /\ SumsSame(db, e) /\ AddsStill(db, e)
    <3>1. PayrollKept(db) /\ db.active \in [Payees -> BOOLEAN] /\ db.current \in PayYears \cup {Nothing} /\ db.marks \in SUBSET MarkRows /\ IsFiniteSet(db.marks)
      BY DEF PayrollInv, PayrollKept, PayrollTables
    <3> HIDE DEF providers
    <3> QED
      BY <2>2, <3>1, OtherTablesWritten
  <2>4. [db EXCEPT !.providers = @ \cup {Call(p).provider}] = e
    BY DEF PayrollInv, PayrollKept, PayrollTables
  <2>5. db' = e /\ pc' = [pc EXCEPT ![p] = 2] /\ loc' = loc /\ UNCHANGED <<calls, scene>>
    BY <1>5, <2>4 DEF WriteTo
  <2> HIDE DEF e
  <2>6. loc' = [q \in Procs |-> loc'[q]] /\ \A q \in Procs \ {p} : loc'[q] = loc[q]
    BY <2>5 DEF PayrollInv, InControl
  <2> HIDE DEF providers
  <2>7. PayrollKept(db') /\ GrowsBy(db, db', 0) /\ SumsSame(db, db') /\ AddsStill(db, db') /\ 2 \in 1..3 /\ 2 # 1
    BY <2>3, <2>5
  <2> QED
    BY <1>1, <2>5, <2>6, <2>7, GoesElsewhere
<1> QED
  BY <1>3, <1>4, <1>5 DEF SaveProvider

LEMMA SpendTakesNumber == ASSUME PayrollInv, NEW p \in Procs, SpendVoucher(p) PROVE PayrollInv'
BY ReadsElsewhere DEF SpendVoucher, At, Goes

LEMMA ExpenseIsWritten == ASSUME PayrollInv, NEW p \in Procs, SpendTx(p) PROVE PayrollInv'
<1>1. calls[p] # <<>> /\ Call(p).op = "spend" /\ Call(p).amount \in Nat
  BY PayCall DEF SpendTx, At
<1>2. \A u \in Payees, m \in Months : ~Pending(p, u, m)
  BY <1>1 DEF Pending, Recomputes, Paying
<1>3. CASE Refuse(p)
  BY <1>1, <1>2, <1>3, RefusesPay
<1>4. CASE ~Refuse(p)
  <2> DEFINE row == [payee |-> Nothing, month |-> Nothing, amount |-> Call(p).amount,
                     key |-> Nothing, run |-> 0, void |-> FALSE, opening |-> 0]
             e == [db EXCEPT !.paid = Append(@, row)]
  <2>1. row \in PaidRows /\ row.payee = Nothing /\ row.key = Nothing /\ row.run = 0
    BY <1>1 DEF PaidRows
  <2>2. Commit(p, e)
    BY <1>4 DEF SpendTx
  <2> HIDE DEF row
  <2>3. PayrollKept(db) /\ 0 \in 0..Len(db.runs)
    BY DEF PayrollInv, PayrollKept, PayrollTables
  <2>4. /\ PayrollKept(e) /\ GrowsBy(db, e, row.run)
        /\ \A u \in Payees, m \in Months : (row.payee = u /\ row.month = m) \/
              (PaidIn(e.paid, u, m) = PaidIn(db.paid, u, m) /\ (Adds(db, u, m) => Adds(e, u, m)))
    BY <2>1, <2>3, RowAppended
  <2> HIDE DEF e
  <2>5. SumsSame(db, e) /\ AddsStill(db, e)
    BY <2>1, <2>4, PayrollSceneAssumption DEF SumsSame, AddsStill
  <2> QED
    BY <1>1, <1>2, <2>1, <2>2, <2>4, <2>5, PayAnswers DEF AddsStill
<1> QED
  BY <1>3, <1>4

LEMMA PayrollIsListed == ASSUME PayrollInv, NEW p \in Procs, ListPayroll(p) PROVE PayrollInv'
<1>1. calls[p] # <<>> /\ Call(p).op = "list" /\ Call(p).month \in Months /\ Call(p).year \in PayYears
  BY PayCall DEF ListPayroll, At
<1>2. pc[p] > 0 => /\ loc[p] \in Works /\ loc[p].k \in DOMAIN loc[p].users /\ loc[p].run = 0
                   /\ Current(p) \in Payees /\ loc[p].month \in Months
  <2>1. pc[p] > 0 => OnWork(p) /\ ~Running(p)
    BY <1>1 DEF OnWork, Running
  <2> QED
    BY <2>1, WorkItem DEF PayrollInv, PayHolds
<1>3. \A u \in Payees, m \in Months : ~Pending(p, u, m)
  BY <1>1 DEF Pending, Recomputes, Paying
<1>4. CASE /\ At(p, "list", 0)
           /\ \E users \in {s \in [1..Cardinality(PayeeList) -> PayeeList] : \A i, j \in DOMAIN s : i # j => s[i] # s[j]} :
                 IF users = <<>> THEN Refuse(p) ELSE Goes(p, 1, Work(users, Call(p).month, Call(p).year))
  <2> PICK users \in {s \in [1..Cardinality(PayeeList) -> PayeeList] : \A i, j \in DOMAIN s : i # j => s[i] # s[j]} :
            IF users = <<>> THEN Refuse(p) ELSE Goes(p, 1, Work(users, Call(p).month, Call(p).year))
    BY <1>4
  <2>1. CASE users = <<>>
    BY <1>1, <1>3, <2>1, RefusesPay
  <2>2. CASE users # <<>>
    <3> DEFINE w == Work(users, Call(p).month, Call(p).year)
    <3>1. Cardinality(PayeeList) \in Nat
      <4>1. IsFiniteSet(PayeeList)
        BY FS_Subset, PayrollSceneAssumption DEF PayeeList
      <4> QED
        BY <4>1, FS_CardinalityType
    <3>2. users \in Seq(Payees)
      <4>1. users \in [1..Cardinality(PayeeList) -> Payees]
        BY DEF PayeeList
      <4> HIDE DEF PayeeList
      <4> QED
        BY <3>1, <4>1
    <3>3. users \in Payrolls
      BY <2>2, <3>2 DEF Payrolls
    <3>4. w \in Works /\ w.k \in DOMAIN w.users /\ w.run = 0
      BY <1>1, <3>3, WorkTyped
    <3>5. ReadTo(p, 1, w)
      BY <2>2 DEF Goes
    <3> HIDE DEF w
    <3>6. PaidAsRead(p)'
      <4>1. pc'[p] = 1 /\ calls' = calls
        BY <3>5 DEF ReadTo, PayrollInv, InControl
      <4> QED
        BY <4>1 DEF PaidAsRead, At, Call, Paying
    <3> QED
      BY <1>1, <1>3, <3>4, <3>5, <3>6, PayGoes
  <2> QED
    BY <2>1, <2>2
<1>5. CASE At(p, "list", 1) /\ ReadOpening(p, 2, Range(loc[p].users))
  <2>1. PICK w \in Works : SameWork(w, loc[p]) /\ ReadTo(p, 2, w)
    BY <1>2, <1>5, ReadsTyped DEF At
  <2> QED
    BY <1>1, <1>5, <2>1, WorkGoesOn DEF At
<1>6. CASE At(p, "list", 2) /\ ReadMarks(p, 3, Range(loc[p].users))
  <2>1. PICK w \in Works : SameWork(w, loc[p]) /\ ReadTo(p, 3, w)
    BY <1>2, <1>6, ReadsTyped DEF At
  <2> QED
    BY <1>1, <1>6, <2>1, WorkGoesOn DEF At
<1>7. CASE At(p, "list", 3) /\ ReadPaid(p, 4, Range(loc[p].users))
  <2>1. PICK w \in Works : /\ SameWork(w, loc[p]) /\ ReadTo(p, 4, w)
                           /\ \A u \in Range(loc[p].users) \cap Payees : w.paid[u] = PaidFor(u, loc[p].month)
    BY <1>2, <1>7, ReadsTyped DEF At
  <2>2. \A j \in DOMAIN w.users : w.users[j] \in Range(loc[p].users) \cap Payees
    <3>1. loc[p].users \in Seq(Payees)
      BY <1>2, <1>7 DEF At, Works, Payrolls
    <3> QED
      BY <2>1, <3>1 DEF SameWork, Range
  <2> QED
    BY <1>1, <1>7, <2>1, <2>2, WorkGoesOn DEF At
<1>8. CASE /\ At(p, "list", 4)
           /\ IF loc[p].k = Len(loc[p].users) THEN Commit(p, Balanced(p))
              ELSE /\ db' = Balanced(p) /\ loc' = [loc EXCEPT ![p].k = @ + 1] /\ UNCHANGED <<calls, pc, scene>>
  <2> DEFINE e == Balanced(p)
  <2>1. pc[p] = 4 /\ loc[p] \in Works /\ loc[p].k \in DOMAIN loc[p].users
    BY <1>2, <1>8 DEF At
  <2>2. /\ PayrollKept(e) /\ GrowsBy(db, e, 0) /\ SumsSame(db, e)
        /\ \A v \in Payees, n \in Months : Adds(db, v, n) => Adds(e, v, n) \/ (v = Current(p) /\ n = loc[p].month)
        /\ loc[p].paid[Current(p)] = PaidFor(Current(p), loc[p].month) => Adds(e, Current(p), loc[p].month)
    BY <2>1, MonthBalanced
  <2> HIDE DEF e
  <2>3. scene.alone => \A j \in DOMAIN loc[p].users : loc[p].paid[loc[p].users[j]] = PaidFor(loc[p].users[j], loc[p].month)
    BY <1>1, <2>1 DEF PayrollInv, AloneHolds, PaidAsRead, At
  <2>4. scene.alone => \A u \in Payees, m \in Months : Adds(db, u, m) => Adds(e, u, m)
    BY <2>1, <2>2, <2>3 DEF Current
  <2>5. CASE loc[p].k = Len(loc[p].users)
    <3>1. Commit(p, e)
      BY <1>8, <2>5 DEF e
    <3> QED
      BY <1>1, <1>3, <2>2, <2>4, <3>1, PayAnswers
  <2>6. CASE loc[p].k # Len(loc[p].users)
    <3> DEFINE w == [loc[p] EXCEPT !.k = loc[p].k + 1]
    <3>1. db' = e /\ loc' = [loc EXCEPT ![p] = w] /\ UNCHANGED <<calls, pc, scene>>
      BY <1>8, <2>6 DEF e
    <3>2. loc[p].k + 1 \in DOMAIN loc[p].users /\ loc[p].k + 1 \in Nat
      BY <2>1, <2>6, WorkItem
    <3>3. /\ w \in Works /\ w.users = loc[p].users /\ w.month = loc[p].month /\ w.paid = loc[p].paid
          /\ w.run = 0 /\ w.k \in DOMAIN w.users
      BY <1>2, <2>1, <3>2 DEF Works
    <3> HIDE DEF w
    <3>4. /\ InControl(PayCalls)' /\ calls' = calls /\ loc'[p] = w
          /\ pc' = pc /\ \A q \in Procs \ {p} : loc'[q] = loc[q]
      BY <1>1, <3>1 DEF PayrollInv, InControl
    <3>5. ~Running(p)'
      BY <1>1, <3>4 DEF Running, Call
    <3>6. PayHolds(p)'
      BY <1>1, <3>3, <3>4, <3>5 DEF PayHolds, At, Call, Paying
    <3>7. scene.alone => PaidAsRead(p)'
      <4>1. ASSUME scene.alone, NEW j \in DOMAIN loc[p].users
            PROVE  loc[p].paid[loc[p].users[j]] = PaidIn(e.paid, loc[p].users[j], loc[p].month)
        <5>1. loc[p].users[j] \in Payees /\ loc[p].month \in Months
          BY <2>1, WorkItem
        <5> QED
          BY <2>2, <2>3, <4>1, <5>1 DEF SumsSame, PaidFor
      <4> QED
        BY <1>1, <3>1, <3>3, <3>4, <4>1 DEF PaidAsRead, PaidFor, At, Call, Paying
    <3>8. scene.alone => AloneStep(p)
      BY <1>3, <2>2, <2>4, <3>1, <3>7 DEF AloneStep
    <3> QED
      BY <2>2, <3>1, <3>4, <3>5, <3>6, <3>8, PayStep DEF Writes
  <2> QED
    BY <2>5, <2>6
<1> QED
  BY <1>4, <1>5, <1>6, <1>7, <1>8 DEF ListPayroll

LEMMA DayIsMarked == ASSUME PayrollInv, NEW p \in Procs, MarkDay(p) PROVE PayrollInv'
<1>1. calls[p] # <<>> /\ Call(p).op = "mark" /\ Call(p).mark \in MarkRows
  BY PayCall DEF MarkDay, At
<1>2. \A u \in Payees, m \in Months : ~Pending(p, u, m)
  BY <1>1 DEF Pending, Recomputes, Paying
<1>3. CASE Refuse(p)
  BY <1>1, <1>2, <1>3, RefusesPay
<1>4. CASE ~Refuse(p)
  <2> DEFINE kept == {x \in db.marks : [x EXCEPT !.status = Call(p).mark.status] # Call(p).mark}
             marks == kept \cup {Call(p).mark}
             e == [db EXCEPT !.active = db.active, !.current = db.current, !.marks = marks, !.providers = db.providers]
  <2>1. /\ PayrollKept(db) /\ db.active \in [Payees -> BOOLEAN] /\ db.current \in PayYears \cup {Nothing} /\ db.marks \in SUBSET MarkRows /\ IsFiniteSet(db.marks)
        /\ db.providers \in SUBSET Providers
    BY DEF PayrollInv, PayrollKept, PayrollTables
  <2>2. marks \in SUBSET MarkRows /\ IsFiniteSet(marks)
    <3>1. kept \subseteq db.marks
      OBVIOUS
    <3> HIDE DEF kept
    <3>2. IsFiniteSet(kept)
      BY <2>1, <3>1, FS_Subset
    <3>3. IsFiniteSet(kept \cup {Call(p).mark})
      BY <3>2, FS_AddElement
    <3> QED
      BY <1>1, <2>1, <3>1, <3>3
  <2>3. Commit(p, [db EXCEPT !.marks = marks])
    BY <1>4 DEF MarkDay
  <2> HIDE DEF marks, kept
  <2>4. PayrollKept(e) /\ GrowsBy(db, e, 0) /\ SumsSame(db, e) /\ AddsStill(db, e)
    BY <2>1, <2>2, OtherTablesWritten
  <2>5. [db EXCEPT !.marks = marks] = e
    BY DEF PayrollInv, PayrollKept, PayrollTables
  <2> HIDE DEF e
  <2> QED
    BY <1>1, <1>2, <2>3, <2>4, <2>5, PayAnswers DEF AddsStill
<1> QED
  BY <1>3, <1>4

LEMMA PayeesAndYear == ASSUME PayrollInv, NEW p \in Procs, SetEmployed(p) \/ SetYear(p) PROVE PayrollInv'
<1>1. calls[p] # <<>> /\ Call(p).op \in {"quit", "rejoin", "year"}
  BY DEF SetEmployed, SetYear, At
<1>2. \A u \in Payees, m \in Months : ~Pending(p, u, m)
  BY <1>1 DEF Pending, Recomputes, Paying
<1>3. /\ PayrollKept(db) /\ db.active \in [Payees -> BOOLEAN] /\ db.current \in PayYears \cup {Nothing}
      /\ db.marks \in SUBSET MarkRows /\ IsFiniteSet(db.marks) /\ db.providers \in SUBSET Providers
  BY DEF PayrollInv, PayrollKept, PayrollTables
<1>4. PICK active \in [Payees -> BOOLEAN], current \in PayYears \cup {Nothing} :
          Commit(p, [db EXCEPT !.active = active, !.current = current])
  <2>1. CASE SetEmployed(p)
    <3>1. PICK b \in BOOLEAN : Commit(p, [db EXCEPT !.active[Call(p).payee] = b])
      BY <2>1 DEF SetEmployed
    <3> DEFINE active == [db.active EXCEPT ![Call(p).payee] = b]
    <3>2. active \in [Payees -> BOOLEAN]
      BY <1>3
    <3>3. [db EXCEPT !.active[Call(p).payee] = b] = [db EXCEPT !.active = active, !.current = db.current]
      BY DEF PayrollInv, PayrollKept, PayrollTables
    <3> HIDE DEF active
    <3> QED
      BY <1>3, <3>1, <3>2, <3>3
  <2>2. CASE SetYear(p)
    <3>1. Call(p).current \in PayYears \cup {Nothing} /\ Commit(p, [db EXCEPT !.current = Call(p).current])
      BY <2>2, PayCall DEF SetYear, At
    <3>2. [db EXCEPT !.current = Call(p).current] = [db EXCEPT !.active = db.active, !.current = Call(p).current]
      BY DEF PayrollInv, PayrollKept, PayrollTables
    <3> QED
      BY <1>3, <3>1, <3>2
  <2> QED
    BY <2>1, <2>2
<1> DEFINE e == [db EXCEPT !.active = active, !.current = current, !.marks = db.marks, !.providers = db.providers]
<1>5. PayrollKept(e) /\ GrowsBy(db, e, 0) /\ SumsSame(db, e) /\ AddsStill(db, e)
  BY <1>3, OtherTablesWritten
<1>6. [db EXCEPT !.active = active, !.current = current] = e
  BY DEF PayrollInv, PayrollKept, PayrollTables
<1> HIDE DEF e
<1> QED
  BY <1>1, <1>2, <1>4, <1>5, <1>6, PayAnswers DEF AddsStill

-----------------------------------------------------------------------------
LEMMA PayrollStarts == ASSUME HandlersInit, Of("payroll") PROVE PayrollInv
<1>1. scene \in Scenes /\ scene.part = "payroll"
  BY DEF HandlersInit, Of
<1>2. /\ scene.db \in PayrollTables /\ IsFiniteSet(scene.db.marks)
      /\ scene.db.paid = <<>> /\ scene.db.runs = <<>> /\ scene.db.behind = {}
      /\ \A u \in Payees, m \in Months : scene.db.balance[u][m] # Nothing =>
            scene.db.balance[u][m].closing = scene.db.balance[u][m].opening + scene.db.balance[u][m].earned
      /\ \A p \in DOMAIN scene.calls : scene.calls[p] \in Seq(PayCalls)
      /\ scene.alone => \A p, q \in Procs \cap DOMAIN scene.calls :
            p = q \/ \E r \in {p, q} : \A n \in DOMAIN scene.calls[r] : scene.calls[r][n].op = "spend"
  BY <1>1, PayrollSceneAssumption
<1>3. InControl(PayCalls) /\ db = scene.db /\ pc = [p \in Procs |-> 0]
  BY <1>2, ControlStarts DEF HandlersInit
<1>4. PayrollKept(db)
  BY <1>2, <1>3 DEF PayrollKept, PaidApart
<1>5. \A p \in Procs : PayHolds(p) /\ ~Running(p) /\ PaidAsRead(p)
  BY <1>3 DEF PayHolds, OnWork, Running, PaidAsRead, At, Paying
<1>6. \A p, q \in Procs : scene.alone => p = q \/ OnlySpends(p) \/ OnlySpends(q)
  <2>1. calls = [p \in Procs |-> IF p \in DOMAIN scene.calls THEN scene.calls[p] ELSE <<>>]
    BY DEF HandlersInit
  <2>2. \A p \in Procs : p \notin DOMAIN scene.calls => OnlySpends(p)
    BY <2>1 DEF OnlySpends
  <2>3. ASSUME scene.alone, NEW p \in Procs \cap DOMAIN scene.calls, NEW q \in Procs \cap DOMAIN scene.calls, p # q
        PROVE  OnlySpends(p) \/ OnlySpends(q)
    BY <1>2, <2>1, <2>3 DEF OnlySpends
  <2> QED
    BY <2>2, <2>3
<1>7. ASSUME NEW u \in Payees, NEW m \in Months PROVE Adds(db, u, m)
  <2>1. PaidIn(db.paid, u, m) = 0
    <3>1. {n \in DOMAIN db.paid : db.paid[n].payee = u /\ db.paid[n].month = m /\ ~db.paid[n].void} = {}
      BY <1>2, <1>3
    <3> QED
      BY <3>1, SumEmpty DEF PaidIn
  <2>2. db.balance[u][m] # Nothing => db.balance[u][m] \in MonthBalances
    BY <1>4 DEF PayrollKept, PayrollTables
  <2> QED
    BY <1>2, <1>3, <2>1, <2>2 DEF Adds, MonthBalances
<1> QED
  BY <1>1, <1>3, <1>4, <1>5, <1>6, <1>7 DEF PayrollInv, AloneHolds

LEMMA AtMostOne ==
    ASSUME NEW S, \A i, j \in S : i = j PROVE Cardinality(S) <= 1
<1>1. CASE S = {}
  BY <1>1, FS_EmptySet
<1>2. CASE S # {}
  <2> PICK x \in S : TRUE
    BY <1>2
  <2>1. S = {x}
    OBVIOUS
  <2> QED
    BY <2>1, FS_Singleton
<1> QED
  BY <1>1, <1>2

LEMMA PayrollIsKept == ASSUME PayrollInv PROVE PayrollTypeOK /\ KeyPaysOnce /\ BalanceTellsPaid
<1>1. PayrollTypeOK
  BY DEF PayrollInv, PayrollKept, PayrollTypeOK, HandlersTypeOK, InControl
<1>2. KeyPaysOnce
  <2>1. ASSUME NEW k \in PayKeys PROVE Cardinality(NumberOf(k)) <= 1
    <3>1. \A i, j \in NumberOf(k) : i = j
      BY PayrollSceneAssumption DEF PayrollInv, PayrollKept, PaidApart, NumberOf
    <3> QED
      BY <3>1, AtMostOne
  <2>2. ASSUME NEW k \in PayKeys, NEW u \in Payees
        PROVE  Cardinality({n \in DOMAIN db.paid : db.paid[n].payee = u /\ db.paid[n].run \in RunOf(k)}) <= 1
    <3>1. \A i, j \in RunOf(k) : i = j /\ i # 0
      BY PayrollSceneAssumption DEF PayrollInv, PayrollKept, PayrollTables, PaidApart, RunOf
    <3>2. \A i, j \in {n \in DOMAIN db.paid : db.paid[n].payee = u /\ db.paid[n].run \in RunOf(k)} : i = j
      BY <3>1 DEF PayrollInv, PayrollKept, PaidApart
    <3> QED
      BY <3>2, AtMostOne
  <2> QED
    BY <2>1, <2>2 DEF KeyPaysOnce
<1>3. BalanceTellsPaid
  <2> SUFFICES ASSUME Quiet, scene.alone, NEW u \in Payees, NEW m \in Months PROVE Adds(db, u, m)
    BY DEF BalanceTellsPaid, Adds, PaidFor
  <2>1. \A p \in Procs : ~Pending(p, u, m)
    BY DEF Quiet, Pending, Recomputes, Paying
  <2> QED
    BY <2>1 DEF PayrollInv, AloneHolds
<1> QED
  BY <1>1, <1>2, <1>3

\* No step changes the scene.
LEMMA PayrollSceneStays == ASSUME [PayrollNext]_handlerVars PROVE scene' = scene
<1>1. /\ \A p \in Procs : \A k, saw, new :
             ReadTo(p, k, saw) \/ WriteTo(p, k, new) \/ Commit(p, new) \/ Refuse(p) => scene' = scene
      /\ \A p \in Procs : \A k, saw : Goes(p, k, saw) => scene' = scene
  BY DEF ReadTo, WriteTo, Commit, Refuse, Goes
<1>2. /\ \A p \in Procs : \A k, us : ReadMarks(p, k, us) \/ ReadOpening(p, k, us) \/ ReadPaid(p, k, us) => scene' = scene
      /\ \A p \in Procs : ReplayPay(p) \/ FailPay(p) => scene' = scene
      /\ \A p \in Procs : \A new, n : NextItem(p, new, n) => scene' = scene
      /\ \A p \in Procs : FailAfter(p) => scene' = scene
  BY <1>1 DEF ReadMarks, ReadOpening, ReadPaid, ReplayPay, FailPay, NextItem, FailAfter
<1>3. ASSUME NEW p \in Procs, CheckKey(p) \/ ListPayees(p) \/ OpenRun(p) \/ SkipItem(p) PROVE scene' = scene
  BY <1>1, <1>2, <1>3 DEF CheckKey, ListPayees, OpenRun, SkipItem
<1>4. ASSUME NEW p \in Procs, ComputeBefore(p) \/ NextVoucher(p) PROVE scene' = scene
  BY <1>1, <1>2, <1>4 DEF ComputeBefore, NextVoucher
<1>5. ASSUME NEW p \in Procs, PayTx(p) PROVE scene' = scene
  BY <1>1, <1>2, <1>5 DEF PayTx
<1>6. ASSUME NEW p \in Procs, FindAgain(p) \/ FindYear(p) PROVE scene' = scene
  BY <1>1, <1>2, <1>6 DEF FindAgain, FindYear
<1>7. ASSUME NEW p \in Procs, ComputeAfter(p) PROVE scene' = scene
  BY <1>1, <1>2, <1>7 DEF ComputeAfter
<1>8. ASSUME NEW p \in Procs, Converge(p) \/ CloseRun(p) PROVE scene' = scene
  BY <1>1, <1>2, <1>8 DEF Converge, CloseRun
<1>9. ASSUME NEW p \in Procs, VoidCheck(p) \/ VoidWrite(p) \/ VoidRefresh(p) PROVE scene' = scene
  BY <1>1, <1>2, <1>9 DEF VoidCheck, VoidWrite, VoidRefresh
<1>10. ASSUME NEW p \in Procs, SaveProvider(p) \/ SpendVoucher(p) \/ SpendTx(p) PROVE scene' = scene
  BY <1>1, <1>2, <1>10 DEF SaveProvider, SpendVoucher, SpendTx
<1>11. ASSUME NEW p \in Procs, ListPayroll(p) PROVE scene' = scene
  BY <1>1, <1>2, <1>11 DEF ListPayroll
<1>12. ASSUME NEW p \in Procs, MarkDay(p) \/ SetEmployed(p) \/ SetYear(p) PROVE scene' = scene
  BY <1>1, <1>12 DEF MarkDay, SetEmployed, SetYear
<1>13. ASSUME UNCHANGED handlerVars PROVE scene' = scene
  BY <1>13 DEF handlerVars
<1> QED
  BY <1>3, <1>4, <1>5, <1>6, <1>7, <1>8, <1>9, <1>10, <1>11, <1>12, <1>13 DEF PayrollNext, Rest

\* Payroll: a key pays once, however two sendings of a payment or a run and their retries
\* interleave; and where one caller at a time works on payees, every stored month adds up with
\* what was paid for it once the callers are answered, unless it could not be computed again.
THEOREM PayrollIsSound == PayrollSpec => []PayrollSound
<1> DEFINE Inv == Of("payroll") => PayrollInv
<1>1. PayrollInit => Inv
  BY PayrollStarts DEF PayrollInit
<1>2. Inv /\ [PayrollNext]_handlerVars => Inv'
  <2> SUFFICES ASSUME Inv, [PayrollNext]_handlerVars PROVE Inv'
    OBVIOUS
  <2>1. scene' = scene
    BY PayrollSceneStays
  <2> SUFFICES ASSUME Of("payroll") PROVE PayrollInv'
    BY <2>1 DEF Of
  <2>2. PayrollInv
    OBVIOUS
  <2>3. CASE UNCHANGED handlerVars
    BY <2>2, <2>3 DEF PayrollInv, InControl, PayHolds, OnWork, Running, PaidUpTo, AloneHolds, OnlySpends, Pending,
       Recomputes, PaidAsRead, PaidFor, Paying, Current, At, Call, handlerVars
  <2> QED
    BY <2>2, <2>3, KeyIsChecked, PayeesAreListed, RunIsOpened, ItemIsSkipped, MonthIsComputed, NumberIsTaken,
       SalaryIsPaid, PayeeIsFound, YearIsFound, MonthIsComputedAgain, CallsConverge, RunIsClosed, VoidIsChecked, PaymentIsVoided,
       VoidIsRefreshed, ProviderIsSaved, SpendTakesNumber, ExpenseIsWritten, PayrollIsListed, DayIsMarked, PayeesAndYear
       DEF PayrollNext, Rest
<1>3. Inv => PayrollSound
  BY PayrollIsKept DEF PayrollSound
<1> QED
  BY <1>1, <1>2, <1>3, PTL DEF PayrollSpec
=============================================================================
