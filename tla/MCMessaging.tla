------------------------------ MODULE MCMessaging ------------------------------
(* Small instances of what carries a message and its files, side by side:    *)
(* the transfer of an upload, its assembly on the local disk, its processing *)
(* and attachment, the sends of a chat room with their pushes, and the life  *)
(* of the process that hosts them all.  They share no table: `part' says     *)
(* which one a behaviour runs; the others keep the state they start with.    *)
EXTENDS UploadSession, LocalParts, MediaJobs, ChatMessages, ServerLifecycle, TLC

CONSTANTS
    p1, p2, p3, w1, w2, k1, k2, hello, bye, None,
    Hosted          \* the parts that run

VARIABLE part

\* What an honest client sends under each key.
Honest == k1 :> hello @@ k2 :> bye

-----------------------------------------------------------------------------
(* Scenes of the transfer: one per group of hazards.                       *)

\* Chunks and completions of two parts, with a store and a database that fail.
Chunked == [staff |-> {p1, p2}, handlers |-> {"create", "chunk", "complete"},
            faults |-> {"store", "db", "lock"}, parts |-> 2, valid |-> TRUE, seconds |-> 1,
            maxCalls |-> 8]
\* A chunk that outlives its transaction.
Slow == [Chunked EXCEPT !.seconds = 30, !.maxCalls = 4]
\* Completions, cancellations, sweeps and crashes race.
Races == [Chunked EXCEPT !.staff = {p1, p2, p3}, !.parts = 1, !.maxCalls = 6,
            !.handlers = {"create", "chunk", "complete", "cancel", "sweep"},
            !.faults = {"store", "crash"}]
\* A file of the wrong type.
Invalid == [Races EXCEPT !.valid = FALSE, !.handlers = @ \ {"sweep"}, !.faults = {"store"}]
\* Nothing but the store and aborts fail.
Released == [Races EXCEPT !.faults = {"store"}]
Abandoned == [Released EXCEPT !.staff = {p1, p2}, !.faults = {"store", "abort"}]
AllTransfers == {Chunked, Slow, Races, Invalid, Released, Abandoned}
Crashes == {[Races EXCEPT !.staff = {p1}, !.faults = {"crash"}, !.maxCalls = 4,
                          !.handlers = {"create", "chunk", "complete", "sweep"}]}

-----------------------------------------------------------------------------
(* Scenes of the processing.                                               *)

File(route, kind, good, encoded) ==
    [route |-> route, kind |-> kind, good |-> good, encoded |-> encoded, redis |-> TRUE,
     staff |-> {p1, p2}, handlers |-> {"upload"}, faults |-> {}, maxFaults |-> 2, maxCalls |-> 3]
Resumable == {File("session", k, g, FALSE) : k \in {"image", "sound"}, g \in BOOLEAN}
\* A file that is refused is deleted, and what a repeated completion then does is left out.
Sound == {f \in Resumable : f.good}
Direct == {File("direct", "sound", g, FALSE) : g \in BOOLEAN} \cup {File("direct", "image", TRUE, TRUE)}
\* A client that asks for the session while its completion runs.
Polled == {[f EXCEPT !.handlers = {"upload", "query", "attach"}, !.maxCalls = 4] : f \in Resumable}
AllFiles ==
    \* one upload, attached while it is processed by a store that fails
    {[f EXCEPT !.handlers = {"upload", "attach"}, !.faults = {"store"}, !.redis = r] :
        f \in Resumable, r \in BOOLEAN}
    \* completions that are repeated
    \cup {[f EXCEPT !.handlers = {"upload", "repeat"}] : f \in Sound}
    \* files that are named before they are marked
    \cup Polled \cup {[f EXCEPT !.handlers = {"upload", "attach"}] : f \in Direct}
    \* deletions during the processing
    \cup {[f EXCEPT !.handlers = {"upload", "repeat", "delete"}] : f \in Sound \cup Direct}
    \cup {[f EXCEPT !.handlers = {"upload", "delete"}] : f \in Resumable \ Sound}
    \* a database that fails and a process that stops
    \cup {[f EXCEPT !.staff = {p1}, !.faults = {"db", "store", "crash"}, !.redis = r] :
             f \in Resumable \cup Direct, r \in BOOLEAN}
ASSUME FilesAssumption == \A f \in AllFiles : Careful(f)

\* Two completions of one file, and a store that fails.
Lost == {[f EXCEPT !.handlers = {"upload", "repeat"}, !.faults = {"store"}] : f \in Resumable \ Sound}

-----------------------------------------------------------------------------
(* Scenes of the room: lines, the database and the queue fail; two texts    *)
(* under one key; edits and deletions; the right to write comes and goes.   *)

Sent == [keyed |-> TRUE, collide |-> FALSE, edits |-> FALSE, rights |-> FALSE, redis |-> TRUE,
         attempts |-> 2, faults |-> {"line"}, maxFaults |-> 1, maxCalls |-> 2]
AllSends ==
    {[Sent EXCEPT !.faults = {"line", "db"}, !.maxFaults = 2], [Sent EXCEPT !.collide = TRUE],
     [Sent EXCEPT !.edits = TRUE, !.maxCalls = 3], [Sent EXCEPT !.rights = TRUE, !.maxCalls = 3],
     [Sent EXCEPT !.redis = FALSE, !.keyed = FALSE], [Sent EXCEPT !.faults = {"queue", "line"}]}

-----------------------------------------------------------------------------
(* Scenes of the process: a start that fails; traffic and jobs under two     *)
(* signals; lines and the database that fail; closings that hang or throw.   *)

Config == [redis |-> TRUE, traffic |-> {"request", "client", "chat", "media"}, faults |-> {}, hung |-> {},
           signals |-> 1, maxCalls |-> 4, maxFaults |-> 1]
AllServers ==
    {[Config EXCEPT !.redis = r, !.faults = {"boot"}, !.maxFaults = 2, !.maxCalls = 1] : r \in BOOLEAN}
    \cup {[Config EXCEPT !.traffic = t, !.signals = 2, !.faults = f, !.maxCalls = 3] :
             t \in {{"request", "media"}, {"client", "chat", "sweep"}}, f \in {{}, {"slow"}, {"step"}}}
    \cup {[Config EXCEPT !.traffic = {"request"}, !.faults = {"line", "db", "bug"}, !.maxFaults = 3, !.maxCalls = 1]}
    \cup {[Config EXCEPT !.hung = {h}, !.maxCalls = 3] : h \in {"chatWorker", "mediaQueue", "socket", "prisma"}}
Deployed == {Config}
Outage == {[Config EXCEPT !.faults = {"db"}, !.maxCalls = 1]}

-----------------------------------------------------------------------------

Parties == {p1, p2, p3}

\* Of the parts that do not run, one scene stands for all.
Rests(name, scenes, s) == part = name \/ s = CHOOSE x \in scenes : TRUE
MessagingInit ==
    /\ part \in Hosted
    /\ Init /\ DiskInit /\ MediaInit /\ RoomInit /\ ServerInit
    /\ Rests("transfer", Scenes, scene) /\ Rests("media", Files, file)
    /\ Rests("room", Rooms, room) /\ Rests("server", Configs, config)

MessagingNext ==
    /\ UNCHANGED part
    /\ \/ part = "transfer" /\ Next /\ UNCHANGED <<diskVars, mediaVars, roomVars, serverVars>>
       \/ part = "disk" /\ DiskNext /\ UNCHANGED <<vars, mediaVars, roomVars, serverVars>>
       \/ part = "media" /\ MediaNext /\ UNCHANGED <<vars, diskVars, roomVars, serverVars>>
       \/ part = "room" /\ RoomNext /\ UNCHANGED <<vars, diskVars, mediaVars, serverVars>>
       \/ part = "server" /\ ServerNext /\ UNCHANGED <<vars, diskVars, mediaVars, roomVars>>
messagingVars == <<part, vars, diskVars, mediaVars, roomVars, serverVars>>
MessagingSpec == MessagingInit /\ [][MessagingNext]_messagingVars

\* The fairness of each part, one condition for what is of the same kind: requests are
\* resumed, the clock runs, the sweepers' timers tick, workers take jobs, a client that lost
\* its answer asks again, and a shutdown goes on or is forced.
partVars == CASE part = "transfer" -> vars [] part = "media" -> mediaVars [] part = "room" -> roomVars
              [] OTHER -> serverVars
Resumed(p) ==
    /\ UNCHANGED part
    /\ \/ part = "transfer" /\ pc[p] # "idle" /\ (ChunkStep(p) \/ CompleteStep(p) \/ EndStep(p))
       \/ part = "media" /\ p \in Uploaders /\ ResumeMedia(p)
       \/ part = "room" /\ p \in Clients /\ sendPc[p] # "idle" /\ Sending(p)
Ticks ==
    /\ UNCHANGED part
    /\ \/ part = "transfer" /\ ClockPasses
       \/ part = "media" /\ SweepMedia
       \/ part = "room" /\ Push
Fairness ==
    /\ WF_partVars(Ticks)
    /\ \A p \in Parties : WF_partVars(Resumed(p)) /\ WF_vars(part = "transfer" /\ SweepRead(p))
    /\ \A w \in Workers : WF_mediaVars(part = "media" /\ Process(w))
    /\ WF_serverVars(part = "server" /\ Shutdown)
FairMessagingSpec == MessagingSpec /\ Fairness

-----------------------------------------------------------------------------

\* Transfer: a session ends, unless the process or the database fails.
Ends == EndsUnlessCrashed
\* What was begun ends.  Media: a file waiting for its processing is READY or refused in the
\* end.  Chat: every send is answered and every push job ends.  Server: a process that got a
\* signal ends.  As one part runs at a time, these are Settles, SendsAndJobsEnd and
\* SignalEnds in one formula.
UnderWay == Unsettled \/ Busy \/ Stopping
WorkEnds == UnderWay ~> ~UnderWay
=============================================================================
