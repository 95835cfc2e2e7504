----------------------------- MODULE Notifications -----------------------------
(***************************************************************************)
(* The feed of one student: what the school tells about attendance and      *)
(* payments through an outbox (one row per event, then a message, then the  *)
(* row is marked sent), and about marks, fees and report cards directly.    *)
(* The database keeps one message per event and content, and whoever loses  *)
(* the insertion adopts the message that won.                               *)
(*                                                                         *)
(* Callers do not wait for a notification: it runs on beside the request    *)
(* that caused it, and may fail half way with nobody to tell.               *)
(***************************************************************************)
EXTENDS Integers, Sequences, FiniteSets, SequencesExt

CONSTANTS
    Notifiers,          \* notifications under way
    Queued, Immediate, \* events told through the outbox, and told directly
    Contents,       \* the rendered texts
    Posts, NoRow, NoErrand

VARIABLES
    outbox,     \* of each queued event: its row, or NoRow
    feed,       \* the messages of the student's room, oldest first
    shown,      \* the messages fanned out to sockets and phones
    newsFaults,     \* failures so far
    newsCalls,      \* calls accepted so far
    told,       \* the calls that have ended well
    post, newsPc, newsLoc

newsVars == <<outbox, feed, shown, newsFaults, newsCalls, told, post, newsPc, newsLoc>>

\* calls: what may be told, event and text; flush: a pass over the unsent rows may run.
ASSUME NotificationAssumption ==
    /\ IsFiniteSet(Queued) /\ Queued \cap Immediate = {}
    /\ NoRow \notin [content : Contents, sent : BOOLEAN]
    /\ Posts \subseteq [calls : SUBSET [event : Queued \cup Immediate, content : Contents],
                         maxCalls : Nat, maxFaults : Nat, flush : BOOLEAN]

Message(e, c) == [event |-> e, content |-> c]
InFeed(m) == \E i \in DOMAIN feed : feed[i] = m

NothingTold ==
    /\ outbox = [e \in Queued |-> NoRow] /\ feed = <<>> /\ shown = {} /\ newsFaults = 0
    /\ newsCalls = 0 /\ told = {}
    /\ newsPc = [p \in Notifiers |-> "idle"] /\ newsLoc = [p \in Notifiers |-> NoErrand]
NewsInit == post \in Posts /\ NothingTold

NewsGoto(p, label, l) ==
    /\ newsPc' = [newsPc EXCEPT ![p] = label] /\ newsLoc' = [newsLoc EXCEPT ![p] = l]
    /\ UNCHANGED post
\* A flush goes on with its next row, whatever became of this one.
NewsDone(p, well) ==
    /\ IF newsLoc[p].rows # <<>>
       THEN NewsGoto(p, "row", [newsLoc[p] EXCEPT !.event = Head(newsLoc[p].rows), !.rows = Tail(newsLoc[p].rows)])
       ELSE NewsGoto(p, "idle", NoErrand)
    /\ told' = IF well THEN told \cup {Message(newsLoc[p].event, newsLoc[p].content)} ELSE told
NoNewsFault == UNCHANGED newsFaults
NewsBegin(p) == newsPc[p] = "idle" /\ newsCalls < post.maxCalls /\ newsCalls' = newsCalls + 1
Errand(e, c, rows) == [event |-> e, content |-> c, rows |-> rows, mine |-> 0]

-----------------------------------------------------------------------------
(* The callers                                                             *)

\* queueAttendanceStatusNotification, notifyPaymentRecorded, notifyPaymentReverted: under
\* the event's lock the row is found or created; a row that was sent ends it.
Queue(p) ==
    /\ NewsBegin(p)
    /\ \E c \in post.calls :
          /\ c.event \in Queued
          /\ outbox' = IF outbox[c.event] = NoRow
                       THEN [outbox EXCEPT ![c.event] = [content |-> c.content, sent |-> FALSE]] ELSE outbox
          /\ IF outbox'[c.event].sent
             THEN told' = told \cup {c} /\ UNCHANGED <<post, newsPc, newsLoc>>
             ELSE NewsGoto(p, "row", Errand(c.event, c.content, <<>>)) /\ UNCHANGED told
    /\ NoNewsFault /\ UNCHANGED <<feed, shown>>

\* deliverStudentSystemNotification: an identical message ends it.
Tell(p) ==
    /\ NewsBegin(p)
    /\ \E c \in post.calls :
          /\ c.event \in Immediate
          /\ IF InFeed(c) THEN told' = told \cup {c} /\ UNCHANGED <<post, newsPc, newsLoc>>
             ELSE NewsGoto(p, "insert", Errand(c.event, c.content, <<>>)) /\ UNCHANGED told
    /\ NoNewsFault /\ UNCHANGED <<outbox, feed, shown>>

\* flushPendingSystemNotifications
Unsent == {e \in Queued : outbox[e] # NoRow /\ ~outbox[e].sent}
Flush(p) ==
    /\ post.flush /\ NewsBegin(p) /\ Unsent # {}
    /\ LET rows == SetToSeq(Unsent)
       IN  NewsGoto(p, "row", Errand(Head(rows), outbox[Head(rows)].content, Tail(rows)))
    /\ NoNewsFault /\ UNCHANGED <<outbox, feed, shown, told>>

-----------------------------------------------------------------------------
(* deliverAttendanceRow, deliverPaymentRow                                 *)

RowContent(p) == IF newsLoc[p].event \in Queued THEN outbox[newsLoc[p].event].content ELSE newsLoc[p].content
Mine(p) == Message(newsLoc[p].event, RowContent(p))

\* The row may have been sent meanwhile, or its message written by another delivery.
LookAtRow(p) ==
    /\ newsPc[p] = "row"
    /\ IF outbox[newsLoc[p].event].sent THEN NewsDone(p, TRUE)
       ELSE NewsGoto(p, IF InFeed(Mine(p)) THEN "mark" ELSE "insert", newsLoc[p]) /\ UNCHANGED told
    /\ NoNewsFault /\ UNCHANGED <<outbox, feed, shown, newsCalls>>

\* createSystemRoomMessage; the unique index refuses the second message.
InsertMessage(p) ==
    /\ newsPc[p] = "insert"
    /\ IF InFeed(Mine(p))
       THEN /\ IF newsLoc[p].event \in Queued THEN NewsGoto(p, "mark", newsLoc[p]) /\ UNCHANGED told ELSE NewsDone(p, TRUE)
            /\ UNCHANGED feed
       ELSE /\ feed' = Append(feed, Mine(p)) /\ UNCHANGED told
            /\ NewsGoto(p, "touch", [newsLoc[p] EXCEPT !.mine = Len(feed) + 1])
    /\ NoNewsFault /\ UNCHANGED <<outbox, shown, newsCalls>>

\* Mutant: an insertion that fails leaves the row marked.
FailMarks(p) ==
    /\ newsPc[p] \in {"row", "insert", "touch", "mark"} /\ newsFaults < post.maxFaults /\ newsFaults' = newsFaults + 1
    /\ outbox' = IF newsLoc[p].event \in Queued THEN [outbox EXCEPT ![newsLoc[p].event].sent = TRUE] ELSE outbox
    /\ NewsDone(p, FALSE)
    /\ UNCHANGED <<feed, shown, newsCalls>>

\* A statement, or the bootstrap of the room before it, fails: the row stays unsent.
Fail(p) ==
    /\ newsPc[p] \in {"row", "insert", "touch", "mark"} /\ newsFaults < post.maxFaults /\ newsFaults' = newsFaults + 1
    /\ NewsDone(p, FALSE)
    /\ UNCHANGED <<outbox, feed, shown, newsCalls>>

\* The room is touched, and fanoutSystemChatMessage tells sockets and phones.
Touch(p) ==
    /\ newsPc[p] = "touch" /\ shown' = shown \cup {newsLoc[p].mine}
    /\ IF newsLoc[p].event \in Queued THEN NewsGoto(p, "mark", newsLoc[p]) /\ UNCHANGED told ELSE NewsDone(p, TRUE)
    /\ NoNewsFault /\ UNCHANGED <<outbox, feed, newsCalls>>
Mark(p) ==
    /\ newsPc[p] = "mark"
    /\ outbox' = [outbox EXCEPT ![newsLoc[p].event].sent = TRUE]
    /\ NewsDone(p, TRUE)
    /\ NoNewsFault /\ UNCHANGED <<feed, shown, newsCalls>>

-----------------------------------------------------------------------------

NewsNext == \E p \in Notifiers :
    \/ Queue(p) \/ Tell(p) \/ Flush(p)
    \/ LookAtRow(p) \/ InsertMessage(p) \/ Touch(p) \/ Mark(p) \/ Fail(p)
NewsSpec == NewsInit /\ [][NewsNext]_newsVars

Resting == \A p \in Notifiers : newsPc[p] = "idle"
NewsTypeOK ==
    /\ outbox \in [Queued -> {NoRow} \cup [content : Contents, sent : BOOLEAN]]
    /\ feed \in Seq([event : Queued \cup Immediate, content : Contents])
    /\ shown \subseteq DOMAIN feed

\* However often an event is queued, flushed and delivered, and wherever a delivery stops:
\* the student reads it at most once, a row marked sent has its message, and when nothing
\* failed every row is sent and every message was fanned out.
SentStands ==
    /\ IsInjective(feed)
    /\ \A e \in Queued : outbox[e] # NoRow /\ outbox[e].sent => InFeed(Message(e, outbox[e].content))
    /\ Resting /\ newsFaults = 0 => Unsent = {} /\ shown = DOMAIN feed

\* Notifications: a row marked sent has its message, which the student reads once.
SentIsTold == NewsTypeOK /\ SentStands

\* What a caller was told is delivered stands in the feed with the caller's text.
RemarkIsTold == \A c \in told : InFeed(c)
=============================================================================
