----------------------------- MODULE ChatMessages -----------------------------
(***************************************************************************)
(* The messages of one chat room: sent over a socket under a key of the     *)
(* client's, edited and deleted by their sender, read by the others, and    *)
(* pushed to their phones through a queue.  A connection may break between  *)
(* a send and its acknowledgement; the client then sends again under the    *)
(* same key.                                                               *)
(*                                                                         *)
(* A send holds no transaction: it looks for its key, asks for the right,   *)
(* inserts, and follows the message that won when the key was taken.        *)
(***************************************************************************)
EXTENDS Integers, Sequences, FiniteSets, SequencesExt

CONSTANTS
    Clients,    \* one send of each is under way at a time
    Readers, Keys, Texts,
    KeyText,    \* what an honest client sends under a key
    Rooms,      \* the scenes
    NoSend, NoKey

VARIABLES
    msgs,       \* the messages, oldest first
    mayPost,    \* the clients that may write in the room
    readAt,     \* of each reader: how many messages there were at his last mark
    screen,     \* of each reader: the messages the open room has shown
    acks,       \* the acknowledgements that reached their client
    pushJobs,       \* push jobs waiting: message, recipients left, attempts left
    pushes,     \* of each message: pushes to phones
    roomFaults, roomCalls,
    room, sendPc, sendLoc

roomVars == <<msgs, mayPost, readAt, screen, acks, pushJobs, pushes, roomFaults, roomCalls, room, sendPc, sendLoc>>
Stored == <<msgs, mayPost>>
Seen == <<readAt, screen>>
Pushed == <<pushJobs, pushes>>

\* keyed: every send carries a key; collide: one may be used for two texts; edits: the sender edits and deletes; redis: there is a
\* queue; attempts of a push job; faults: "line" breaks, the "db" or the "queue" fails.
ASSUME MessageAssumption ==
    Rooms \subseteq [keyed : BOOLEAN, collide : BOOLEAN, edits : BOOLEAN, rights : BOOLEAN, redis : BOOLEAN,
                      attempts : Nat, faults : SUBSET STRING, maxFaults : Nat, maxCalls : Nat]

RoomInit ==
    /\ room \in Rooms
    /\ msgs = <<>> /\ mayPost = Clients /\ acks = {} /\ pushJobs = <<>> /\ pushes = <<>>
    /\ readAt = [r \in Readers |-> 0] /\ screen = [r \in Readers |-> {}]
    /\ roomFaults = 0 /\ roomCalls = 0
    /\ sendPc = [c \in Clients |-> "idle"] /\ sendLoc = [c \in Clients |-> NoSend]

SendGoto(c, label, l) ==
    /\ sendPc' = [sendPc EXCEPT ![c] = label] /\ sendLoc' = [sendLoc EXCEPT ![c] = l]
    /\ UNCHANGED room
RoomFault(f) == f \in room.faults /\ roomFaults < room.maxFaults /\ roomFaults' = roomFaults + 1
NoRoomFault == UNCHANGED roomFaults
RoomCall == roomCalls < room.maxCalls /\ roomCalls' = roomCalls + 1
WithKey(k) == {i \in DOMAIN msgs : k # NoKey /\ msgs[i].key = k}

\* Mutant: whatever stands under the key is the same send.
SameLogicalSendAny(m, text) == TRUE

\* sameLogicalSend: type, title, content and attachments; the sender is not compared.
SameLogicalSend(m, text) == m.text = text

-----------------------------------------------------------------------------
(* createRoomMessage and chat:message:send                                 *)

\* A client sends: a new message, or again the one whose acknowledgement it lost.
Send(c) ==
    /\ \/ /\ sendPc[c] = "idle" /\ RoomCall
          /\ \E k \in Keys, text \in Texts :
                /\ room.collide \/ text = KeyText[k]
                /\ SendGoto(c, "look", [key |-> IF room.keyed THEN k ELSE NoKey, text |-> text, msg |-> 0])
       \/ sendPc[c] = "lost" /\ SendGoto(c, "look", [sendLoc[c] EXCEPT !.msg = 0]) /\ UNCHANGED roomCalls
    /\ NoRoomFault /\ UNCHANGED <<Stored, Seen, acks, Pushed>>

Follow(c, i) ==
    IF SameLogicalSend(msgs[i], sendLoc[c].text)
    THEN SendGoto(c, "emit", [sendLoc[c] EXCEPT !.msg = i]) ELSE SendGoto(c, "refused", sendLoc[c])

Look(c) ==
    /\ sendPc[c] = "look"
    /\ IF WithKey(sendLoc[c].key) # {} THEN Follow(c, CHOOSE i \in WithKey(sendLoc[c].key) : TRUE)
       ELSE SendGoto(c, "post", sendLoc[c])
    /\ NoRoomFault /\ UNCHANGED <<Stored, Seen, acks, Pushed, roomCalls>>

\* assertCanPost, authorizeChatMedia
Post(c) ==
    /\ sendPc[c] = "post"
    /\ SendGoto(c, IF c \in mayPost THEN "insert" ELSE "refused", sendLoc[c])
    /\ NoRoomFault /\ UNCHANGED <<Stored, Seen, acks, Pushed, roomCalls>>

NewMessage(c) == [key |-> sendLoc[c].key, from |-> c, text |-> sendLoc[c].text, deleted |-> FALSE]

\* Mutant: the loser of the key answers with the error.
InsertRefuses(c) ==
    /\ sendPc[c] = "insert"
    /\ IF WithKey(sendLoc[c].key) = {}
       THEN msgs' = Append(msgs, NewMessage(c)) /\ SendGoto(c, "emit", [sendLoc[c] EXCEPT !.msg = Len(msgs) + 1])
       ELSE UNCHANGED msgs /\ SendGoto(c, "refused", sendLoc[c])
    /\ NoRoomFault /\ UNCHANGED <<mayPost, Seen, acks, Pushed, roomCalls>>

\* Message and attachments in one statement; a taken key leads to the message that won.
Insert(c) ==
    /\ sendPc[c] = "insert"
    /\ IF WithKey(sendLoc[c].key) = {}
       THEN msgs' = Append(msgs, NewMessage(c)) /\ SendGoto(c, "emit", [sendLoc[c] EXCEPT !.msg = Len(msgs) + 1])
       ELSE UNCHANGED msgs /\ Follow(c, CHOOSE i \in WithKey(sendLoc[c].key) : TRUE)
    /\ NoRoomFault /\ UNCHANGED <<mayPost, Seen, acks, Pushed, roomCalls>>

\* The room is told and the client answered, if its line holds; then the push is queued.
Answered(c) == [client |-> c, key |-> sendLoc[c].key, text |-> sendLoc[c].text, msg |-> sendLoc[c].msg]
Emit(c) ==
    /\ sendPc[c] = "emit"
    /\ screen' = [r \in Readers |-> screen[r] \cup {sendLoc[c].msg}]
    /\ \/ NoRoomFault /\ acks' = acks \cup {Answered(c)} /\ SendGoto(c, "enqueue", sendLoc[c])
       \/ RoomFault("line") /\ UNCHANGED acks /\ SendGoto(c, "enqueue_lost", sendLoc[c])
    /\ UNCHANGED <<Stored, readAt, Pushed, roomCalls>>

\* enqueueChatPushFanout: a duplicate is queued again; without Redis nothing is.
EnqueuePush(c) ==
    /\ sendPc[c] \in {"enqueue", "enqueue_lost"}
    /\ \/ /\ NoRoomFault
          /\ pushJobs' = IF room.redis THEN Append(pushJobs, [msg |-> sendLoc[c].msg, attempts |-> room.attempts])
                         ELSE pushJobs
       \/ RoomFault("queue") /\ UNCHANGED pushJobs
    /\ IF sendPc[c] = "enqueue" THEN SendGoto(c, "idle", NoSend) ELSE SendGoto(c, "lost", sendLoc[c])
    /\ UNCHANGED <<Stored, Seen, acks, pushes, roomCalls>>

\* A statement fails before the insertion, or the line breaks: the client asks again.
Break(c) ==
    /\ sendPc[c] \in {"look", "post", "insert"} /\ RoomFault("db")
    /\ SendGoto(c, "lost", sendLoc[c])
    /\ UNCHANGED <<Stored, Seen, acks, Pushed, roomCalls>>
GiveUp(c) ==
    /\ sendPc[c] = "refused" /\ SendGoto(c, "idle", NoSend)
    /\ NoRoomFault /\ UNCHANGED <<Stored, Seen, acks, Pushed, roomCalls>>

-----------------------------------------------------------------------------
(* updateRoomMessage, deleteRoomMessage, markRoomRead, the class roles     *)

Edit(c) ==
    /\ room.edits /\ RoomCall
    /\ \E i \in DOMAIN msgs, text \in Texts :
          /\ ~msgs[i].deleted /\ msgs[i].from = c /\ c \in mayPost
          /\ msgs' = [msgs EXCEPT ![i].text = text]
    /\ NoRoomFault /\ UNCHANGED <<mayPost, Seen, acks, Pushed, room, sendPc, sendLoc>>
Delete(c) ==
    /\ room.edits /\ RoomCall
    /\ \E i \in DOMAIN msgs :
          ~msgs[i].deleted /\ msgs[i].from = c /\ msgs' = [msgs EXCEPT ![i].deleted = TRUE]
    /\ NoRoomFault /\ UNCHANGED <<mayPost, Seen, acks, Pushed, room, sendPc, sendLoc>>

\* The mark takes the time of the database, whatever message it names.
MarkRead(r) ==
    /\ RoomCall
    /\ readAt' = [readAt EXCEPT ![r] = Len(msgs)]
    /\ NoRoomFault /\ UNCHANGED <<Stored, screen, acks, Pushed, room, sendPc, sendLoc>>
Unread(r) == {i \in DOMAIN msgs : ~msgs[i].deleted /\ i > readAt[r]}

\* The right to write goes or comes back while sends are under way.
Entitle(c) ==
    /\ room.rights /\ RoomCall
    /\ mayPost' = IF c \in mayPost THEN mayPost \ {c} ELSE mayPost \cup {c}
    /\ NoRoomFault /\ UNCHANGED <<msgs, Seen, acks, Pushed, room, sendPc, sendLoc>>

-----------------------------------------------------------------------------
(* handlePushFanout: a phone that cannot be reached is passed over; a job    *)
(* fails only with the database, and is then tried from its beginning.       *)

\* Mutant: a job out of attempts stays at the head of the queue.
PushStuck ==
    /\ pushJobs # <<>> /\ Head(pushJobs).attempts > 0
    /\ \/ NoRoomFault /\ pushes' = Append(pushes, Head(pushJobs).msg) /\ pushJobs' = Tail(pushJobs)
       \/ RoomFault("db") /\ UNCHANGED pushes /\ pushJobs' = [pushJobs EXCEPT ![1].attempts = @ - 1]
    /\ UNCHANGED <<Stored, Seen, acks, room, roomCalls, sendPc, sendLoc>>

Push ==
    /\ pushJobs # <<>>
    /\ \/ NoRoomFault /\ pushes' = Append(pushes, Head(pushJobs).msg) /\ pushJobs' = Tail(pushJobs)
       \/ /\ RoomFault("db") /\ pushes' = Append(pushes, Head(pushJobs).msg)   \* some were reached
          /\ pushJobs' = IF Head(pushJobs).attempts > 1
                     THEN Append(Tail(pushJobs), [Head(pushJobs) EXCEPT !.attempts = @ - 1]) ELSE Tail(pushJobs)
    /\ UNCHANGED <<Stored, Seen, acks, room, roomCalls, sendPc, sendLoc>>

-----------------------------------------------------------------------------

Sending(c) ==
    Send(c) \/ Look(c) \/ Post(c) \/ Insert(c) \/ Emit(c) \/ EnqueuePush(c) \/ GiveUp(c)
RoomNext ==
    \/ \E c \in Clients : Sending(c) \/ Break(c) \/ Edit(c) \/ Delete(c) \/ Entitle(c)
    \/ \E r \in Readers : MarkRead(r)
    \/ Push
RoomSpec == RoomInit /\ [][RoomNext]_roomVars
\* Node serves every socket and the worker takes every job; a client that lost its answer
\* asks again when its line is back.
FairRoomSpec ==
    RoomSpec /\ WF_roomVars(Push) /\ \A c \in Clients : WF_roomVars(sendPc[c] # "idle" /\ Sending(c))

RoomTypeOK ==
    /\ msgs \in Seq([key : Keys \cup {NoKey}, from : Clients, text : Texts, deleted : BOOLEAN])
    /\ readAt \in [Readers -> Nat] /\ screen \in [Readers -> SUBSET Nat]
    /\ mayPost \subseteq Clients

\* A key stands for one message, and whoever was answered under it was answered with that
\* message, however often the send was repeated and by how many connections at once.
OneMessagePerKey ==
    /\ \A i, j \in DOMAIN msgs : msgs[i].key # NoKey /\ msgs[i].key = msgs[j].key => i = j
    /\ \A a, b \in acks : a.key # NoKey /\ a.key = b.key => a.msg = b.msg
    /\ \A a \in acks : a.msg \in DOMAIN msgs /\ (room.edits \/ msgs[a.msg].text = a.text)

\* While keys are honest and nobody edits or loses the right to write, repeating a send
\* is never refused.
RetryNeverRefused ==
    ~room.collide /\ ~room.edits /\ ~room.rights => \A c \in Clients : sendPc[c] # "refused"

\* Chat: a key stands for one message, and repeating an honest send is never refused.
SendsSound == RoomTypeOK /\ OneMessagePerKey /\ RetryNeverRefused

\* Every send ends, answered or refused, and every push job is done or given up.
Busy == pushJobs # <<>> \/ \E c \in Clients : sendPc[c] # "idle"
SendsAndJobsEnd == Busy ~> ~Busy

\* A message that has not reached the reader's screen counts as unread.
UnseenIsUnread ==
    \A r \in Readers : {i \in DOMAIN msgs : ~msgs[i].deleted} \ screen[r] \subseteq Unread(r)
=============================================================================
