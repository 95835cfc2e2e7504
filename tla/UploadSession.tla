----------------------------- MODULE UploadSession -----------------------------
(***************************************************************************)
(* One resumable upload: its session row, the ledger of its parts, the      *)
(* multipart uploads and the object in the store, and the file record.      *)
(*                                                                         *)
(* Requests read the session, then change it: a chunk under its row lock,   *)
(* held while the part is stored; the rest with updates that name the       *)
(* status they start from, which wait for that lock.  Offsets count parts.  *)
(***************************************************************************)
EXTENDS Integers, Sequences

CONSTANTS
    Requests,       \* concurrent requests and the sweeper's tick
    TxTimeout,      \* seconds an interactive transaction may last (Prisma: 5)
    Scenes,         \* who calls which handlers, and what goes wrong
    NoUpload, NoCall

\* parts: of the file; valid: whether its bytes are of the declared, allowed type;
\* faults: among "store", "abort", "db", "crash", "lock"; seconds: how long a chunk
\* takes to arrive and to be stored; maxCalls is a bound.
ASSUME UploadAssumption ==
    /\ TxTimeout \in Nat /\ NoUpload \notin Nat
    /\ Scenes \subseteq [staff : SUBSET Requests, handlers : SUBSET STRING, faults : SUBSET STRING,
                         parts : Nat \ {0}, valid : BOOLEAN, seconds : Nat, maxCalls : Nat]

VARIABLES
    session,    \* the upload_sessions row: status, offset, upload, record
    expired,    \* the clock has passed expiresAt
    ledger,     \* the part numbers in upload_session_parts
    uploads,    \* the multipart uploads: state and the parts stored in each
    object,     \* the parts of the assembled object, {} if there is none
    records,    \* FileRecord rows of this upload
    scene,      \* the scene of this behaviour; it never changes
    calls, pc, loc

store == <<uploads, object>>
rows == <<session, ledger, records>>
vars == <<rows, expired, store, scene, calls, pc, loc>>
Parts == scene.parts

Statuses == {"NONE", "INITIATED", "UPLOADING", "COMPLETING",
             "COMPLETED", "FAILED", "CANCELLED", "EXPIRED"}
Terminal == {"COMPLETED", "FAILED", "CANCELLED", "EXPIRED"}
Transferring == {"INITIATED", "UPLOADING"}

Init ==
    /\ scene \in Scenes
    /\ session = [status |-> "NONE", offset |-> 0, upload |-> NoUpload, record |-> FALSE]
    /\ expired = FALSE
    /\ ledger = {}
    /\ uploads = <<>>
    /\ object = {}
    /\ records = 0
    /\ calls = 0
    /\ pc = [p \in Requests |-> "idle"]
    /\ loc = [p \in Requests |-> NoCall]

Goto(p, label, l) ==
    /\ pc' = [pc EXCEPT ![p] = label]
    /\ loc' = [loc EXCEPT ![p] = l]
    /\ UNCHANGED scene
Finish(p) == Goto(p, "idle", NoCall)
Begin(p, h) ==
    /\ pc[p] = "idle" /\ p \in scene.staff /\ h \in scene.handlers
    /\ calls < scene.maxCalls /\ calls' = calls + 1

\* A chunk holds the row from its re-check to its commit, or until its
\* transaction has timed out.
RowFree ==
    \A q \in Requests : pc[q] \in {"create", "part", "commit"} =>
                           pc[q] # "create" /\ scene.seconds > TxTimeout

\* isSessionExpired
Expired == expired /\ session.status \in Transferring \cup {"COMPLETING"}

ClockPasses ==
    /\ session.status # "NONE" /\ ~expired
    /\ expired' = TRUE
    /\ UNCHANGED <<rows, store, scene, calls, pc, loc>>

\* createSession: a second insert with the same key finds the first row.
Create(p) ==
    /\ Begin(p, "create")
    /\ session' = IF session.status = "NONE" THEN [session EXCEPT !.status = "INITIATED"] ELSE session
    /\ UNCHANGED <<expired, ledger, records, store, scene, pc, loc>>

-----------------------------------------------------------------------------
(* transferChunk                                                           *)

Accepts(offset) == ~Expired /\ session.status \in Transferring /\ offset = session.offset

\* The row is read without a lock.
ChunkRead(p, offset) ==
    /\ Begin(p, "chunk")
    /\ Accepts(offset)
    /\ Goto(p, "chunk", [offset |-> offset, upload |-> NoUpload])
    /\ UNCHANGED <<rows, expired, store>>

\* Mutant: nothing is checked again under the lock.
ChunkLockUnchecked(p) ==
    /\ pc[p] = "chunk" /\ RowFree
    /\ Goto(p, "create", [loc[p] EXCEPT !.upload = session.upload])
    /\ UNCHANGED <<rows, expired, store, calls>>

\* It is locked and everything is checked again.
ChunkLock(p) ==
    /\ pc[p] = "chunk" /\ RowFree
    /\ IF Accepts(loc[p].offset)
       THEN Goto(p, "create", [loc[p] EXCEPT !.upload = session.upload])
       ELSE Finish(p)
    /\ UNCHANGED <<rows, expired, store, calls>>

\* lock_timeout: the client is told to ask for the offset again.
ChunkLockTimeout(p) ==
    /\ pc[p] = "chunk" /\ ~RowFree /\ "lock" \in scene.faults
    /\ Finish(p)
    /\ UNCHANGED <<rows, expired, store, calls>>

\* The first chunk starts the multipart upload.
ChunkCreate(p) ==
    /\ pc[p] = "create"
    /\ IF loc[p].upload = NoUpload
       THEN /\ uploads' = Append(uploads, [state |-> "open", parts |-> {}])
            /\ Goto(p, "part", [loc[p] EXCEPT !.upload = Len(uploads) + 1])
       ELSE Goto(p, "part", loc[p]) /\ UNCHANGED uploads
    /\ UNCHANGED <<rows, expired, object, calls>>

\* The part is stored under a number that derives from the offset.
ChunkPart(p) ==
    /\ pc[p] = "part" /\ uploads[loc[p].upload].state = "open"
    /\ uploads' = [uploads EXCEPT ![loc[p].upload].parts = @ \cup {loc[p].offset + 1}]
    /\ Goto(p, "commit", loc[p])
    /\ UNCHANGED <<rows, expired, object, calls>>

\* Mutant: the transaction is committed although the part was not stored.
ChunkPartFailsOpen(p) ==
    /\ pc[p] = "part"
    /\ "store" \in scene.faults \/ uploads[loc[p].upload].state # "open"
    /\ Goto(p, "commit", loc[p])
    /\ UNCHANGED <<rows, expired, store, calls>>

\* Storing fails: the transaction is rolled back, with the id of an upload it
\* has started.
ChunkPartFails(p) ==
    /\ pc[p] = "part"
    /\ "store" \in scene.faults \/ uploads[loc[p].upload].state # "open"
    /\ Finish(p)
    /\ UNCHANGED <<rows, expired, store, calls>>

ChunkCommit(p) ==
    /\ pc[p] = "commit" /\ scene.seconds <= TxTimeout
    /\ ledger' = ledger \cup {loc[p].offset + 1}
    /\ session' = [session EXCEPT !.status = "UPLOADING", !.upload = loc[p].upload,
                                  !.offset = loc[p].offset + 1]
    /\ Finish(p)
    /\ UNCHANGED <<expired, records, store, calls>>

\* The transaction timed out while the part was stored, or the commit is lost.
ChunkRollback(p) ==
    /\ pc[p] = "commit"
    /\ scene.seconds > TxTimeout \/ "db" \in scene.faults
    /\ Finish(p)
    /\ UNCHANGED <<rows, expired, store, calls>>

-----------------------------------------------------------------------------
(* completeUploadSession                                                   *)

\* A session that is COMPLETED is answered from the row.
CompleteRead(p) ==
    /\ Begin(p, "complete")
    /\ ~Expired /\ session.status = "UPLOADING"
    /\ session.offset = Parts /\ session.upload # NoUpload
    /\ Goto(p, "parts", [upload |-> session.upload])
    /\ UNCHANGED <<rows, expired, store>>

\* assertPartsCover
CompleteParts(p) ==
    /\ pc[p] = "parts"
    /\ IF ledger = 1..Parts THEN Goto(p, "assemble", loc[p]) ELSE Finish(p)
    /\ UNCHANGED <<rows, expired, store, calls>>

\* completeUpload: the store assembles the listed parts of an open upload ...
Assemble(p) ==
    LET u == loc[p].upload
    IN  /\ pc[p] = "assemble" /\ uploads[u].state = "open" /\ uploads[u].parts = 1..Parts
        /\ object' = uploads[u].parts
        /\ uploads' = [uploads EXCEPT ![u].state = "completed"]
        /\ \/ Goto(p, "stat", loc[p])
           \/ "store" \in scene.faults /\ Finish(p)      \* done, but the answer is lost
        /\ UNCHANGED <<rows, expired, calls>>

\* ... takes a second call for an assembled upload as done, or not ...
AssembleAgain(p) ==
    /\ pc[p] = "assemble" /\ uploads[loc[p].upload].state = "completed"
    /\ \/ Goto(p, "stat", loc[p])
       \/ "store" \in scene.faults /\ Finish(p)
    /\ UNCHANGED <<rows, expired, store, calls>>

\* ... and refuses anything else: 502.
AssembleFails(p) ==
    /\ pc[p] = "assemble"
    /\ "store" \in scene.faults \/ uploads[loc[p].upload].state = "aborted"
         \/ uploads[loc[p].upload].parts # 1..Parts
    /\ Finish(p)
    /\ UNCHANGED <<rows, expired, store, calls>>

\* statObject and the magic bytes: a read that fails leaves the session as it is, unless the
\* error of the second read is one that the store says will not pass.
Verify(p) ==
    /\ pc[p] = "stat"
    /\ \/ ("store" \in scene.faults \/ object = {}) /\ Finish(p)
       \/ "store" \in scene.faults /\ object # {} /\ Goto(p, "fail", loc[p])
       \/ object # {} /\ Goto(p, IF scene.valid /\ object = 1..Parts THEN "finalize" ELSE "fail", loc[p])
    /\ UNCHANGED <<rows, expired, store, calls>>

\* failSession; the release comes after.
Fail(p) ==
    /\ pc[p] = "fail" /\ RowFree
    /\ session' = IF session.status = "UPLOADING" THEN [session EXCEPT !.status = "FAILED"] ELSE session
    /\ Goto(p, "release", [upload |-> session.upload])
    /\ UNCHANGED <<expired, ledger, records, store, calls>>

-----------------------------------------------------------------------------
(* finalizeSession                                                         *)

\* The row is read again.
FinalizeRead(p) ==
    /\ pc[p] = "finalize"
    /\ IF session.status = "COMPLETED" THEN Goto(p, "dropLedger", loc[p])
       ELSE IF ~Expired /\ session.status = "UPLOADING" /\ session.offset = Parts
            THEN Goto(p, "claim", loc[p])
            ELSE Finish(p)
    /\ UNCHANGED <<rows, expired, store, calls>>

\* Mutant: a session that is being completed can be claimed again.
ClaimAgain(p) ==
    /\ pc[p] = "claim" /\ RowFree
    /\ IF session.status \in {"UPLOADING", "COMPLETING"}
       THEN session' = [session EXCEPT !.status = "COMPLETING"] /\ Goto(p, "record", loc[p])
       ELSE Goto(p, "await", loc[p]) /\ UNCHANGED session
    /\ UNCHANGED <<expired, ledger, records, store, calls>>

\* One caller turns UPLOADING into COMPLETING.
Claim(p) ==
    /\ pc[p] = "claim" /\ RowFree
    /\ IF session.status = "UPLOADING"
       THEN session' = [session EXCEPT !.status = "COMPLETING"] /\ Goto(p, "record", loc[p])
       ELSE Goto(p, "await", loc[p]) /\ UNCHANGED session
    /\ UNCHANGED <<expired, ledger, records, store, calls>>

\* The file record and COMPLETED, in one transaction.
Record(p) ==
    /\ pc[p] = "record"
    /\ records' = records + 1
    /\ session' = [session EXCEPT !.status = "COMPLETED", !.record = TRUE]
    /\ Goto(p, "dropLedger", loc[p])
    /\ UNCHANGED <<expired, ledger, store, calls>>

\* It fails: the session is parked, unless that fails as well.
RecordFails(p) ==
    /\ pc[p] = "record" /\ "db" \in scene.faults
    /\ session' \in {[session EXCEPT !.status = "FAILED"], session}
    /\ Finish(p)
    /\ UNCHANGED <<expired, ledger, records, store, calls>>

\* awaitFinalizeOutcome
Await(p) ==
    /\ pc[p] = "await" /\ session.status # "COMPLETING"
    /\ IF session.status = "COMPLETED" THEN Goto(p, "dropLedger", loc[p]) ELSE Finish(p)
    /\ UNCHANGED <<rows, expired, store, calls>>

AwaitTimeout(p) ==
    /\ pc[p] = "await" /\ session.status = "COMPLETING"
    /\ Finish(p)
    /\ UNCHANGED <<rows, expired, store, calls>>

DropLedger(p) ==
    /\ pc[p] = "dropLedger"
    /\ ledger' = {}
    /\ Finish(p)
    /\ UNCHANGED <<session, records, expired, store, calls>>

-----------------------------------------------------------------------------
(* cancelSession, cleanupExpiredSessions, expireSession, releaseStorage     *)

CancelRead(p) ==
    /\ Begin(p, "cancel")
    /\ ~Expired /\ session.status \in Transferring
    /\ Goto(p, "cancel", [upload |-> session.upload])
    /\ UNCHANGED <<rows, expired, store>>

\* Mutant: the upload that was read before the update is released.
CancelReleaseStale(p) ==
    /\ pc[p] = "cancel" /\ RowFree
    /\ IF session.status \in Transferring
       THEN /\ session' = [session EXCEPT !.status = "CANCELLED"]
            /\ Goto(p, "release", loc[p])
       ELSE Finish(p) /\ UNCHANGED session
    /\ UNCHANGED <<expired, ledger, records, store, calls>>

Cancel(p) ==
    /\ pc[p] = "cancel" /\ RowFree
    /\ IF session.status \in Transferring
       THEN /\ session' = [session EXCEPT !.status = "CANCELLED"]
            /\ Goto(p, "release", [upload |-> session.upload])
       ELSE Finish(p) /\ UNCHANGED session
    /\ UNCHANGED <<expired, ledger, records, store, calls>>

\* Mutant: only a session without bytes is found.
SweepReadInitiated(p) ==
    /\ pc[p] = "idle" /\ p \in scene.staff /\ "sweep" \in scene.handlers
    /\ expired /\ session.status = "INITIATED"
    /\ Goto(p, "expire", NoCall)
    /\ UNCHANGED <<rows, expired, store, calls>>

\* The timer finds the session; its ticks are not counted as calls.
SweepRead(p) ==
    /\ pc[p] = "idle" /\ p \in scene.staff /\ "sweep" \in scene.handlers
    /\ expired /\ session.status \in Transferring
    /\ Goto(p, "expire", NoCall)
    /\ UNCHANGED <<rows, expired, store, calls>>

\* The storage is released whatever the update found.
Expire(p) ==
    /\ pc[p] = "expire" /\ RowFree
    /\ session' = IF session.status \in Transferring THEN [session EXCEPT !.status = "EXPIRED"] ELSE session
    /\ Goto(p, "release", [upload |-> session.upload])
    /\ UNCHANGED <<expired, ledger, records, store, calls>>

ReleaseLedger(p) ==
    /\ pc[p] = "release"
    /\ ledger' = {}
    /\ IF loc[p].upload = NoUpload THEN Finish(p) ELSE Goto(p, "abort", loc[p])
    /\ UNCHANGED <<session, records, expired, store, calls>>

Abort(p) ==
    /\ pc[p] = "abort"
    /\ \/ uploads' = [uploads EXCEPT ![loc[p].upload].state = IF @ = "open" THEN "aborted" ELSE @]
       \/ "abort" \in scene.faults /\ UNCHANGED uploads
    /\ Finish(p)
    /\ UNCHANGED <<rows, expired, object, calls>>

\* The process stops with all its requests: what is not committed is gone.
Crash ==
    /\ "crash" \in scene.faults /\ \E p \in Requests : pc[p] # "idle"
    /\ calls < scene.maxCalls /\ calls' = calls + 1
    /\ pc' = [p \in Requests |-> "idle"]
    /\ loc' = [p \in Requests |-> NoCall]
    /\ UNCHANGED <<rows, expired, store, scene>>

-----------------------------------------------------------------------------

ChunkStep(p) ==
    \/ ChunkLock(p) \/ ChunkLockTimeout(p) \/ ChunkCreate(p) \/ ChunkPart(p) \/ ChunkPartFails(p)
    \/ ChunkCommit(p) \/ ChunkRollback(p)

CompleteStep(p) ==
    \/ CompleteParts(p) \/ Assemble(p) \/ AssembleAgain(p) \/ AssembleFails(p)
    \/ Verify(p) \/ Fail(p) \/ FinalizeRead(p) \/ Claim(p) \/ Record(p) \/ RecordFails(p)
    \/ Await(p) \/ AwaitTimeout(p) \/ DropLedger(p)

EndStep(p) == Cancel(p) \/ Expire(p) \/ ReleaseLedger(p) \/ Abort(p)

Next ==
    \/ ClockPasses \/ Crash
    \/ \E p \in Requests :
         \/ Create(p) \/ (\E o \in 0..Parts - 1 : ChunkRead(p, o)) \/ CompleteRead(p)
         \/ CancelRead(p) \/ SweepRead(p)
         \/ ChunkStep(p) \/ CompleteStep(p) \/ EndStep(p)

Spec == Init /\ [][Next]_vars

\* The event loop resumes every request; the clock runs and the timer ticks.
FairSpec ==
    /\ Spec /\ WF_vars(ClockPasses)
    /\ \A p \in Requests : /\ WF_vars(ChunkStep(p) \/ CompleteStep(p) \/ EndStep(p))
                           /\ WF_vars(SweepRead(p))

-----------------------------------------------------------------------------
(* Properties.                                                             *)

TypeOK ==
    /\ session \in [status : Statuses, offset : 0..Parts, record : BOOLEAN,
                    upload : {NoUpload} \cup DOMAIN uploads]
    /\ expired \in BOOLEAN /\ ledger \subseteq 1..Parts /\ object \subseteq 1..Parts
    /\ uploads \in Seq([state : {"open", "completed", "aborted"}, parts : SUBSET (1..Parts)])
    /\ records \in Nat
    /\ session.record <=> session.status = "COMPLETED"

\* While bytes are accepted, the offset the client resumes from stands for parts
\* that are in the ledger and in the upload the session names.
OffsetIsStored ==
    session.status \in Transferring =>
        /\ session.offset > 0 => session.upload # NoUpload
        /\ session.upload # NoUpload => 1..session.offset \subseteq uploads[session.upload].parts
        /\ 1..session.offset \subseteq ledger

\* Concurrent completions, cancellations and sweeps leave one file record of a
\* completed session, none of another, and the record's object is whole.
OneRecord ==
    /\ records = IF session.status = "COMPLETED" THEN 1 ELSE 0
    /\ session.status = "COMPLETED" => object = 1..Parts /\ scene.valid

\* A status that ends a session is never left.
EndIsFinal == [][session.status \in Terminal => session'.status = session.status]_vars

\* When a cancelled or expired session has come to rest without a crash and with
\* aborts that succeed, its ledger is empty and
\* the upload it names takes no more parts.
ReleasedAtEnd ==
    session.status \in {"CANCELLED", "EXPIRED"} /\ (\A p \in Requests : pc[p] = "idle")
      /\ scene.faults \cap {"abort", "crash"} = {} =>
        /\ ledger = {}
        /\ session.upload # NoUpload => uploads[session.upload].state # "open"

\* Completions, cancellations and sweeps leave one record of a whole object or none,
\* what a cancelled session held is released, and a session ends once.
SessionSound ==
    /\ [](session.status # "NONE" => TypeOK)
    /\ [](OneRecord /\ ReleasedAtEnd)
    /\ EndIsFinal

\* Whatever happens, a session does not stay active for ever.
EndsEventually == session.status # "NONE" ~> session.status \in Terminal

\* Where the timer ticks, a store that fails and clients that go away cannot keep
\* a session active: it ends unless the process or the database fails.
EndsUnlessCrashed ==
    session.status # "NONE" /\ "sweep" \in scene.handlers /\ scene.faults \cap {"crash", "db"} = {}
        ~> session.status \in Terminal
=============================================================================
