------------------------------- MODULE MediaJobs -------------------------------
(***************************************************************************)
(* One uploaded media file after its bytes have arrived: its FileRecord,    *)
(* the objects in the store, the queue of processing jobs and the attempts  *)
(* that run them, the sweeper that re-drives what was missed, and the chat  *)
(* messages the file is attached to.                                        *)
(*                                                                         *)
(* An image is re-encoded into a derived object and the original deleted;   *)
(* sound and video are inspected where they are.  A file is fit for a chat  *)
(* at READY.                                                                *)
(***************************************************************************)
EXTENDS Integers, Sequences, SequencesExt

CONSTANTS
    Uploaders,       \* uploads, completions, attachments and deletions under way
    Workers,        \* processing attempts that run at once
    Attempts,       \* attempts of a queued job
    MaxJobs,        \* bound on the jobs waiting
    Files, NoWork

\* route: "session" (resumable) or "direct"; kind: "image" or "sound"; good: the
\* bytes decode and keep to the limits; encoded: a direct image, re-encoded before
\* it was stored; faults: among "store", "db", "crash"; maxFaults bounds them.
ASSUME MediaAssumption ==
    /\ Attempts \in Nat \ {0} /\ MaxJobs \in Nat \ {0}
    /\ IsFiniteSet(Workers) /\ Uploaders \cap Workers = {}
    /\ Files \subseteq [route : {"session", "direct"}, kind : {"image", "sound"}, good : BOOLEAN,
                         encoded : BOOLEAN, redis : BOOLEAN, staff : SUBSET Uploaders,
                         handlers : SUBSET STRING, faults : SUBSET STRING, maxFaults : Nat,
                         maxCalls : Nat]

VARIABLES
    row,        \* the FileRecord: status, whether it was processed, its storage key
    objects,    \* the keys of this file that hold an object
    attached,   \* of each chat attachment: was the file processed when it was attached
    known,      \* an answer has named the file to its client
    jobs,       \* attempts left of each waiting job
    mediaFaults,     \* failures so far
    file, mediaCalls, mediaPc, mediaLoc

mediaVars == <<row, objects, attached, known, jobs, mediaFaults, file, mediaCalls, mediaPc, mediaLoc>>

NoRow == [status |-> "NONE", processed |-> FALSE, key |-> "original"]
Exists == row.status \notin {"NONE", "GONE"}
Marked(status) == IF Exists THEN [row EXCEPT !.status = status] ELSE row

MediaInit ==
    /\ file \in Files
    /\ row = NoRow /\ objects = {} /\ attached = <<>> /\ known = FALSE /\ jobs = <<>>
    /\ mediaFaults = 0 /\ mediaCalls = 0
    /\ mediaPc = [p \in Uploaders \cup Workers |-> "idle"]
    /\ mediaLoc = [p \in Uploaders \cup Workers |-> NoWork]

MediaGoto(p, label, l) ==
    /\ mediaPc' = [mediaPc EXCEPT ![p] = label]
    /\ mediaLoc' = [mediaLoc EXCEPT ![p] = l]
    /\ UNCHANGED file
MediaFinish(p) == MediaGoto(p, "idle", NoWork)
MediaBegin(p, h) ==
    /\ mediaPc[p] = "idle" /\ p \in file.staff /\ h \in file.handlers
    /\ mediaCalls < file.maxCalls /\ mediaCalls' = mediaCalls + 1
MediaFault(f) ==
    /\ f \in file.faults /\ mediaFaults < file.maxFaults /\ mediaFaults' = mediaFaults + 1
NoMediaFault == UNCHANGED mediaFaults

-----------------------------------------------------------------------------
(* The row is created READY, the default of the schema.                    *)

\* Mutant: the answer does not wait for the mark.
CompleteAnswersFirst(p) ==
    /\ file.route = "session" /\ MediaBegin(p, IF row = NoRow THEN "upload" ELSE "repeat")
    /\ known' = TRUE
    /\ IF row = NoRow
       THEN /\ row' = [NoRow EXCEPT !.status = "READY"] /\ objects' = {"original"}
            /\ MediaGoto(p, "mark", NoWork)
       ELSE Exists /\ UNCHANGED <<row, objects, file, mediaPc, mediaLoc>>
    /\ NoMediaFault /\ UNCHANGED <<attached, jobs>>

\* finalizeSession: the winner's transaction creates the record; a completion that
\* finds the session COMPLETED answers from it, one that waited for the winner marks
\* the row again.
CompleteUpload(p) ==
    /\ file.route = "session" /\ MediaBegin(p, IF row = NoRow THEN "upload" ELSE "repeat")
    /\ IF row = NoRow
       THEN /\ row' = [NoRow EXCEPT !.status = "READY"] /\ objects' = {"original"}
            /\ MediaGoto(p, "mark", NoWork) /\ UNCHANGED known
       ELSE /\ Exists /\ UNCHANGED <<row, objects>>
            /\ \/ known' = TRUE /\ UNCHANGED <<file, mediaPc, mediaLoc>>
               \/ MediaGoto(p, "mark", NoWork) /\ UNCHANGED known
    /\ NoMediaFault /\ UNCHANGED <<attached, jobs>>

\* GET /upload-sessions/:id, or a creation repeated under its key: a COMPLETED session
\* names its record from the winner's commit on, marked or not.
QuerySession(p) ==
    /\ file.route = "session" /\ MediaBegin(p, "query")
    /\ Exists /\ known' = TRUE
    /\ NoMediaFault /\ UNCHANGED <<row, objects, attached, jobs, file, mediaPc, mediaLoc>>

\* uploadFile, uploadFileStreamed: the object first; an image arrives re-encoded.
DirectSave(p) ==
    /\ file.route = "direct" /\ objects = {} /\ row = NoRow /\ MediaBegin(p, "upload")
    /\ file.encoded => file.good
    /\ objects' = {"original"}
    /\ MediaGoto(p, "create", NoWork)
    /\ NoMediaFault /\ UNCHANGED <<row, attached, known, jobs>>

\* The answer does not wait for requestMediaProcessing.
DirectCreate(p) ==
    /\ mediaPc[p] = "create"
    /\ \/ /\ row' = [NoRow EXCEPT !.status = "READY"] /\ known' = TRUE
          /\ NoMediaFault /\ UNCHANGED objects
          /\ MediaGoto(p, "mark", NoWork)
       \/ /\ MediaFault("db") /\ UNCHANGED <<row, known>>
          /\ objects' \in {objects, {}}           \* attemptStorageCleanup may fail too
          /\ MediaFinish(p)
    /\ UNCHANGED <<attached, jobs, mediaCalls>>

\* Mutant: the processing is requested without the mark.
MarkPendingSkipped(p) ==
    /\ mediaPc[p] = "mark"
    /\ known' = TRUE /\ NoMediaFault
    /\ MediaGoto(p, IF Exists THEN "trigger" ELSE "idle", NoWork)
    /\ UNCHANGED <<row, objects, attached, jobs, mediaCalls>>

\* markPendingForProcessing: false on any doubt, and the row stays as it is.  The
\* answer of a completion follows.
MarkPending(p) ==
    /\ mediaPc[p] = "mark"
    /\ known' = TRUE
    /\ \/ /\ Exists /\ ~file.encoded /\ NoMediaFault
          /\ row' = [row EXCEPT !.status = "PENDING"]
          /\ MediaGoto(p, "trigger", NoWork)
       \/ /\ Exists /\ file.encoded /\ NoMediaFault
          /\ row' = [row EXCEPT !.status = "READY", !.processed = TRUE]
          /\ MediaFinish(p)
       \/ /\ ~Exists /\ NoMediaFault /\ UNCHANGED row
          /\ MediaFinish(p)
       \/ /\ MediaFault("db") /\ UNCHANGED row
          /\ MediaFinish(p)
    /\ UNCHANGED <<objects, attached, jobs, mediaCalls>>

\* enqueueMediaJobOrProcessInline; without Redis the one attempt runs in this process.
Job == IF file.redis THEN Attempts ELSE 1
Trigger(p) ==
    /\ mediaPc[p] = "trigger"
    /\ \/ Len(jobs) < MaxJobs /\ jobs' = Append(jobs, Job) /\ NoMediaFault
       \/ MediaFault("db") /\ UNCHANGED jobs         \* the queue is down: left to the sweeper
    /\ MediaFinish(p)
    /\ UNCHANGED <<row, objects, attached, known, mediaCalls>>

-----------------------------------------------------------------------------
(* authorizeChatMedia and deleteFile                                       *)

\* createRoomMessage attaches a file that is READY (requiresReadyForAttach).
Attach(p) ==
    /\ MediaBegin(p, "attach")
    /\ known /\ row.status = "READY"
    /\ attached' = Append(attached, row.processed \/ file.encoded)
    /\ NoMediaFault /\ UNCHANGED <<row, objects, known, jobs, file, mediaPc, mediaLoc>>

\* deleteFile counts the attachments, deletes the object, then the row; an
\* attachment made meanwhile restricts the row.
DeleteRead(p) ==
    /\ MediaBegin(p, "delete")
    /\ known /\ Exists /\ attached = <<>>
    /\ MediaGoto(p, "deleteObject", [key |-> row.key])
    /\ NoMediaFault /\ UNCHANGED <<row, objects, attached, known, jobs>>
DeleteObject(p) ==
    /\ mediaPc[p] = "deleteObject"
    /\ \/ objects' = objects \ {mediaLoc[p].key} /\ NoMediaFault
       \/ MediaFault("store") /\ UNCHANGED objects
    /\ MediaGoto(p, "deleteRow", mediaLoc[p])
    /\ UNCHANGED <<row, attached, known, jobs, mediaCalls>>
DeleteRow(p) ==
    /\ mediaPc[p] = "deleteRow"
    /\ row' = IF attached = <<>> THEN [row EXCEPT !.status = "GONE"] ELSE row
    /\ MediaFinish(p) /\ NoMediaFault
    /\ UNCHANGED <<objects, attached, known, jobs, mediaCalls>>

-----------------------------------------------------------------------------
(* processMediaFile                                                        *)

\* A worker takes a job and reads the row.  A processed or rejected file is done.
Take(w) ==
    /\ mediaPc[w] = "idle" /\ jobs # <<>>
    /\ jobs' = Tail(jobs)
    /\ IF ~Exists \/ row.status = "REJECTED" \/ (row.status = "READY" /\ row.processed)
       THEN MediaFinish(w)
       ELSE MediaGoto(w, "claim", [left |-> Head(jobs), key |-> row.key])
    /\ NoMediaFault /\ UNCHANGED <<row, objects, attached, known, mediaCalls>>

\* A retryable error hands the job back to the queue while it has attempts left.
Again(w) ==
    /\ MediaFinish(w)
    /\ jobs' = IF mediaLoc[w].left > 1 THEN Append(jobs, mediaLoc[w].left - 1) ELSE jobs

\* The single-winner claim; the loser is done with a file that is READY or REJECTED.
ClaimFile(w) ==
    /\ mediaPc[w] = "claim"
    /\ \/ /\ row.status \in {"PENDING", "FAILED"} /\ NoMediaFault
          /\ row' = [row EXCEPT !.status = "PROCESSING"]
          /\ MediaGoto(w, "check", mediaLoc[w]) /\ UNCHANGED jobs
       \/ /\ \/ row.status \notin {"PENDING", "FAILED"} /\ NoMediaFault
             \/ MediaFault("db")
          /\ IF row.status \in {"READY", "REJECTED"} THEN MediaFinish(w) /\ UNCHANGED jobs ELSE Again(w)
          /\ UNCHANGED row
    /\ UNCHANGED <<objects, attached, known, mediaCalls>>

\* Sound and video: the object is inspected where it is; a missing object, or a
\* probe that times out, is retried and anything else refused for good.
Inspect(w) ==
    /\ mediaPc[w] = "check" /\ file.kind = "sound"
    /\ \/ mediaLoc[w].key \in objects /\ NoMediaFault
          /\ MediaGoto(w, IF file.good THEN "ready" ELSE "reject", mediaLoc[w])
       \/ mediaLoc[w].key \notin objects /\ NoMediaFault /\ MediaGoto(w, "fail", mediaLoc[w])
       \/ MediaFault("store") /\ MediaGoto(w, "fail", mediaLoc[w])
    /\ UNCHANGED <<row, objects, attached, known, jobs, mediaCalls>>

\* Images: downloaded and re-encoded ...
Download(w) ==
    /\ mediaPc[w] = "check" /\ file.kind = "image"
    /\ \/ mediaLoc[w].key \in objects /\ NoMediaFault
          /\ MediaGoto(w, IF file.good THEN "derive" ELSE "reject", mediaLoc[w])
       \/ mediaLoc[w].key \notin objects /\ NoMediaFault /\ MediaGoto(w, "fail", mediaLoc[w])
       \/ MediaFault("store") /\ MediaGoto(w, "fail", mediaLoc[w])
    /\ UNCHANGED <<row, objects, attached, known, jobs, mediaCalls>>

\* ... stored under the derived key, which is the same in every attempt ...
Derive(w) ==
    /\ mediaPc[w] = "derive"
    /\ \/ objects' = objects \cup {"derived"} /\ NoMediaFault /\ MediaGoto(w, "verify", mediaLoc[w])
       \/ MediaFault("store") /\ UNCHANGED objects /\ MediaGoto(w, "fail", mediaLoc[w])
    /\ UNCHANGED <<row, attached, known, jobs, mediaCalls>>

\* ... which must be seen there, or is deleted again ...
VerifyDerived(w) ==
    /\ mediaPc[w] = "verify"
    /\ \/ /\ "derived" \in objects /\ NoMediaFault
          /\ MediaGoto(w, "drop", mediaLoc[w]) /\ UNCHANGED objects
       \/ /\ "derived" \notin objects /\ NoMediaFault
          /\ MediaGoto(w, "fail", mediaLoc[w]) /\ UNCHANGED objects
       \/ /\ MediaFault("store")
          /\ objects' = objects \ {"derived"}
          /\ MediaGoto(w, "fail", mediaLoc[w])
    /\ UNCHANGED <<row, attached, known, jobs, mediaCalls>>

\* Mutant: the source is deleted even when it is the derived object itself.
DropSourceAlways(w) ==
    /\ mediaPc[w] = "drop"
    /\ objects' = objects \ {mediaLoc[w].key} /\ NoMediaFault
    /\ MediaGoto(w, "ready", mediaLoc[w])
    /\ UNCHANGED <<row, attached, known, jobs, mediaCalls>>

\* ... before the original is deleted.
DropSource(w) ==
    /\ mediaPc[w] = "drop"
    /\ \/ objects' = objects \ ({mediaLoc[w].key} \ {"derived"}) /\ NoMediaFault
       \/ MediaFault("store") /\ UNCHANGED objects
    /\ MediaGoto(w, "ready", mediaLoc[w])
    /\ UNCHANGED <<row, attached, known, jobs, mediaCalls>>

\* The row becomes READY with its new key; a failing update ends in the catch.
Ready(w) ==
    /\ mediaPc[w] = "ready"
    /\ \/ /\ Exists /\ NoMediaFault
          /\ row' = [status |-> "READY", processed |-> TRUE,
                     key |-> IF file.kind = "image" THEN "derived" ELSE row.key]
          /\ MediaFinish(w)
       \/ /\ ~Exists /\ NoMediaFault
          /\ UNCHANGED row /\ MediaGoto(w, "fail", mediaLoc[w])
       \/ /\ MediaFault("db")
          /\ UNCHANGED row /\ MediaGoto(w, "fail", mediaLoc[w])
    /\ UNCHANGED <<objects, attached, known, jobs, mediaCalls>>

\* A refused file loses its object, then its row says so.
RejectObject(w) ==
    /\ mediaPc[w] = "reject"
    /\ \/ objects' = objects \ {mediaLoc[w].key} /\ NoMediaFault
       \/ MediaFault("store") /\ UNCHANGED objects
    /\ MediaGoto(w, "rejectRow", mediaLoc[w])
    /\ UNCHANGED <<row, attached, known, jobs, mediaCalls>>

\* Mutant: a refused file is left for another attempt.
RejectRetries(w) ==
    /\ mediaPc[w] = "rejectRow"
    /\ row' = Marked("FAILED")
    /\ MediaFinish(w) /\ NoMediaFault
    /\ UNCHANGED <<objects, attached, known, jobs, mediaCalls>>

Reject(w) ==
    /\ mediaPc[w] = "rejectRow"
    /\ \/ row' = Marked("REJECTED") /\ NoMediaFault
       \/ MediaFault("db") /\ UNCHANGED row
    /\ MediaFinish(w)
    /\ UNCHANGED <<objects, attached, known, jobs, mediaCalls>>

\* Anything else is FAILED, if that update succeeds, and retried.
FailAttempt(w) ==
    /\ mediaPc[w] = "fail"
    /\ \/ row' = Marked("FAILED") /\ NoMediaFault
       \/ MediaFault("db") /\ UNCHANGED row
    /\ Again(w)
    /\ UNCHANGED <<objects, attached, known, mediaCalls>>

\* reconcilePendingMedia
SweepMedia ==
    /\ row.status \in {"PENDING", "FAILED"} /\ Len(jobs) < MaxJobs
    /\ \A w \in Workers : mediaPc[w] = "idle"        \* two minutes without an update
    /\ jobs = <<>>
    /\ jobs' = <<Job>>
    /\ UNCHANGED <<row, objects, attached, known, mediaFaults, file, mediaCalls, mediaPc, mediaLoc>>

\* The process stops.  Jobs in Redis survive, those under way are taken as stalled.
MediaCrash ==
    /\ MediaFault("crash")
    /\ mediaPc' = [p \in Uploaders \cup Workers |-> "idle"]
    /\ mediaLoc' = [p \in Uploaders \cup Workers |-> NoWork]
    /\ LET stalled == SetToSeq({w \in Workers : mediaPc[w] # "idle"})
       IN  jobs' = IF file.redis THEN jobs \o [i \in DOMAIN stalled |-> mediaLoc[stalled[i]].left] ELSE <<>>
    /\ UNCHANGED <<row, objects, attached, known, file, mediaCalls>>

ArriveFile(p) ==
    \/ CompleteUpload(p) \/ QuerySession(p) \/ DirectSave(p) \/ DirectCreate(p)
    \/ MarkPending(p) \/ Trigger(p)
UseFile(p) == Attach(p) \/ DeleteRead(p) \/ DeleteObject(p) \/ DeleteRow(p)
Process(w) ==
    \/ Take(w) \/ ClaimFile(w) \/ Inspect(w) \/ Download(w) \/ Derive(w) \/ VerifyDerived(w)
    \/ DropSource(w) \/ Ready(w) \/ RejectObject(w) \/ Reject(w) \/ FailAttempt(w)
MediaNext ==
    \/ \E p \in Uploaders : ArriveFile(p) \/ UseFile(p)
    \/ \E w \in Workers : Process(w)
    \/ SweepMedia \/ MediaCrash

MediaSpec == MediaInit /\ [][MediaNext]_mediaVars
\* Handlers run to their end, workers take jobs, the sweeper's interval fires.
ResumeMedia(p) == DirectCreate(p) \/ MarkPending(p) \/ Trigger(p) \/ DeleteObject(p) \/ DeleteRow(p)
FairMediaSpec ==
    /\ MediaSpec /\ WF_mediaVars(SweepMedia)
    /\ \A p \in Uploaders : WF_mediaVars(ResumeMedia(p))
    /\ \A w \in Workers : WF_mediaVars(Process(w))

-----------------------------------------------------------------------------

MediaTypeOK ==
    /\ row \in [status : {"NONE", "GONE", "READY", "PENDING", "PROCESSING", "FAILED", "REJECTED"},
                processed : BOOLEAN, key : {"original", "derived"}]
    /\ objects \subseteq {"original", "derived"}
    /\ attached \in Seq(BOOLEAN) /\ known \in BOOLEAN /\ jobs \in Seq(1..Attempts) /\ mediaFaults \in Nat

\* A row that says READY and processed stands for a file that passed its checks and is
\* in the store under the row's key, unless a deletion is under way (readyMatches).
ReadyIsSound ==
    row.status = "READY" /\ row.processed /\ (\A p \in Uploaders : mediaPc[p] # "deleteRow")
        => file.good /\ row.key \in objects

\* No chat message carries media that was not processed (requiresReadyForAttach).
AttachedWasProcessed == \A i \in DOMAIN attached : attached[i]

\* A row is READY without having been processed only while a completion is about to
\* mark it, if the database answers and the process stays up: whoever attaches a file
\* unprocessed did so in that window.
UnmarkedBriefly ==
    row.status = "READY" /\ ~row.processed /\ ~file.encoded /\ {"db", "crash"} \cap file.faults = {}
        => \E p \in Uploaders : mediaPc[p] = "mark"

\* A file whose client learns of it from the answer of the one completion, which the mark
\* precedes.  A direct upload, a repeated completion and a query of the session name it
\* before the mark, and a mark that fails leaves the row READY.
NamedLate(f) ==
    "attach" \in f.handlers /\ ~f.encoded =>
        f.route = "session" /\ {"repeat", "query"} \cap f.handlers = {} /\ "db" \notin f.faults

\* What a file must be spared for its bytes to stay, each a place where the code gives
\* way: the second attempt of a repeated completion may clean up the object of the first,
\* and a deletion that stops, or meets an attachment, after it took the object leaves the
\* row.
Careful(f) ==
    /\ f.encoded => f.route = "direct"
    /\ "repeat" \in f.handlers => "store" \notin f.faults
    /\ "delete" \in f.handlers => "attach" \notin f.handlers /\ "crash" \notin f.faults

\* Media: a file that is READY and processed has passed its checks and is in the store,
\* one that is READY unprocessed is about to be marked, and no message carries a file
\* that was not processed unless its client could name it before the mark.
MediaSound ==
    /\ MediaTypeOK /\ ReadyIsSound /\ UnmarkedBriefly
    /\ NamedLate(file) => AttachedWasProcessed

\* A row FAILED keeps its object for the attempts to come.
FailedKeepsObject == row.status = "FAILED" => row.key \in objects

\* A file waiting for processing is READY or REJECTED in the end, or deleted, if the
\* database answers and the process stays up.
Unsettled == row.status \in {"PENDING", "PROCESSING", "FAILED"} /\ file.faults \subseteq {"store"}
Settles == Unsettled ~> ~Unsettled
=============================================================================
