------------------------- MODULE UploadSessionProofs -------------------------
(***************************************************************************)
(* Proofs about UploadSession for any requests, files and faults.  The      *)
(* inductive invariant says what every request in flight may rely on: a     *)
(* chunk that holds the row sees the session as it is, a completion carries *)
(* a whole object, one request holds the claim, and what an ended session   *)
(* still holds is on some request's way to be released.                     *)
(***************************************************************************)
EXTENDS UploadSession, LocalParts, TLAPS

Labels == {"idle", "chunk", "create", "part", "commit", "parts", "assemble", "stat", "fail",
           "finalize", "claim", "record", "await", "dropLedger", "cancel", "expire", "release", "abort"}

\* Labels at which a request works on an upload that exists.
OnUpload == {"part", "commit", "parts", "assemble", "stat", "fail", "finalize", "claim",
             "record", "await", "dropLedger", "abort"}
OfChunk == {"chunk", "create", "part", "commit"}
OfCompletion == {"parts", "assemble", "stat", "fail", "finalize", "claim", "record", "await", "dropLedger"}

\* What a request's locals are at a label, with n uploads begun.
LocalFits(n, label, l) ==
    /\ label \in OnUpload => l.upload \in 1..n
    /\ label = "release" => l.upload \in {NoUpload} \cup 1..n
    /\ label \in OfChunk => l \in [offset : 0..Parts - 1, upload : {NoUpload} \cup 1..n]

LocalsFit ==
    /\ pc \in [Requests -> Labels]
    /\ DOMAIN loc = Requests
    /\ \A p \in Requests : LocalFits(Len(uploads), pc[p], loc[p])

\* A chunk that holds the row: its transaction can still commit.
HoldsRow(label) == label \in {"create", "part", "commit"} /\ scene.seconds <= TxTimeout

\* While it does, the session s is the one it read: same offset, same upload, unless
\* it has begun the first one; at its commit the part is stored.
HolderFits(s, ups, label, l) ==
    HoldsRow(label) =>
        /\ s.status \in Transferring /\ s.offset = l.offset
        /\ label = "create" => l.upload = s.upload
        /\ l.upload # s.upload => s.upload = NoUpload
        /\ label = "commit" => l.offset + 1 \in ups[l.upload].parts

OneHolder ==
    /\ \A p \in Requests : HolderFits(session, uploads, pc[p], loc[p])
    /\ \A p, q \in Requests : HoldsRow(pc[p]) /\ HoldsRow(pc[q]) => p = q

\* A completion began on a session with bytes; past its checks the object is the
\* whole, valid file; one request has the claim; only a session that has ended is
\* released, and only its ledger dropped.
StageFits(status, obj, label) ==
    /\ label \in OfCompletion => status \notin {"NONE", "INITIATED"}
    /\ label \in {"finalize", "claim", "record"} => obj = 1..Parts /\ scene.valid
    /\ label = "record" => status = "COMPLETING"
    /\ label \in {"dropLedger", "release", "abort"} => status \notin Transferring \cup {"NONE"}
    /\ label = "expire" => status # "NONE"

OneClaim ==
    /\ \A p \in Requests : StageFits(session.status, object, pc[p])
    /\ \A p, q \in Requests : pc[p] = "record" /\ pc[q] = "record" => p = q

\* What a cancelled or expired session holds, some request is about to release.
LedgerReleased == ledger = {} \/ \E p \in Requests : pc[p] = "release"
UploadReleased ==
    \/ session.upload = NoUpload
    \/ uploads[session.upload].state # "open"
    \/ \E p \in Requests : pc[p] \in {"release", "abort"} /\ loc[p].upload = session.upload
Releasing ==
    session.status \in {"CANCELLED", "EXPIRED"} /\ scene.faults \cap {"abort", "crash"} = {} =>
        LedgerReleased /\ UploadReleased

ObjectWhole == object = {} \/ object = 1..Parts

Unstarted == session.status = "NONE" => session.offset = 0 /\ session.upload = NoUpload

\* The rows: all but the requests.
RowsFit == TypeOK /\ OffsetIsStored /\ ObjectWhole /\ OneRecord /\ Unstarted

IInv == scene \in Scenes /\ RowsFit /\ LocalsFit /\ OneHolder /\ OneClaim /\ Releasing

-----------------------------------------------------------------------------
(* The rows: what keeps the type of the session.                           *)

SessionFits(s, n) ==
    /\ s \in [status : Statuses, offset : 0..Parts, record : BOOLEAN, upload : {NoUpload} \cup 1..n]
    /\ s.record <=> s.status = "COMPLETED"

\* A session that ends, or is claimed, changes its status only.
LEMMA StatusStep ==
    ASSUME NEW n, NEW s, SessionFits(s, n), s.status # "COMPLETED",
           NEW st \in Statuses \ {"COMPLETED"}, NEW t, t = [s EXCEPT !.status = st]
    PROVE  /\ SessionFits(t, n)
           /\ t.status = st /\ t.offset = s.offset /\ t.upload = s.upload
BY DEF SessionFits, Statuses

UploadType == [state : {"open", "completed", "aborted"}, parts : SUBSET (1..Parts)]
UploadsType == Seq(UploadType)

\* One upload changes.
LEMMA OneUpload ==
    ASSUME uploads \in UploadsType, NEW n \in 1..Len(uploads), NEW u \in UploadType,
           uploads' = [uploads EXCEPT ![n] = u]
    PROVE  /\ uploads[n] \in UploadType
           /\ uploads' \in UploadsType /\ Len(uploads') = Len(uploads) /\ uploads'[n] = u
           /\ \A m \in 1..Len(uploads) : m # n => uploads'[m] = uploads[m]
BY DEF UploadsType

LEMMA UploadAt ==
    ASSUME uploads \in UploadsType, NEW n \in 1..Len(uploads) PROVE uploads[n] \in UploadType
BY DEF UploadsType

LEMMA TypeParts ==
    TypeOK <=> /\ SessionFits(session, Len(uploads)) /\ uploads \in UploadsType
               /\ expired \in BOOLEAN /\ ledger \subseteq 1..Parts /\ object \subseteq 1..Parts
               /\ records \in Nat
BY DEF TypeOK, SessionFits, UploadsType, UploadType

LEMMA TypeNext ==
    ASSUME SessionFits(session', Len(uploads')), uploads' \in UploadsType, expired' \in BOOLEAN,
           ledger' \subseteq 1..Parts, object' \subseteq 1..Parts, records' \in Nat, scene' = scene
    PROVE  TypeOK'
<1>1. Parts' = Parts
  BY DEF Parts
<1> QED
  BY <1>1 DEF TypeOK, SessionFits, UploadsType, UploadType

-----------------------------------------------------------------------------
(* What the steps share.                                                   *)

LEMMA SceneFacts ==
    ASSUME scene \in Scenes
    PROVE  /\ Parts \in Nat \ {0} /\ scene.seconds \in Nat /\ TxTimeout \in Nat
           /\ NoUpload \notin Nat /\ 1..Parts # {}
<1>1. /\ Parts \in Nat \ {0} /\ scene.seconds \in Nat
  BY UploadAssumption DEF Parts
<1>2. 1 \in 1..Parts
  BY <1>1
<1> QED
  BY <1>1, <1>2, UploadAssumption

\* A free row has no holder, and a holder is alone.
LEMMA NoHolder ==
    ASSUME IInv, RowFree
    PROVE  \A q \in Requests : ~HoldsRow(pc[q])
<1>1. scene.seconds \in Nat /\ TxTimeout \in Nat
  BY SceneFacts DEF IInv
<1>2. ~(scene.seconds > TxTimeout /\ scene.seconds <= TxTimeout)
  BY <1>1
<1> QED
  BY <1>2 DEF RowFree, HoldsRow

LEMMA Alone ==
    ASSUME IInv, NEW p \in Requests, pc[p] \in {"create", "part", "commit"}
    PROVE  \A q \in Requests \ {p} : ~HoldsRow(pc[q])
BY DEF IInv, OneHolder, HoldsRow

\* One request moves; the others must still fit what the step has made of the rows.
LEMMA GotoStep ==
    ASSUME IInv, NEW p \in Requests, NEW label \in Labels, NEW l, Goto(p, label, l),
           Len(uploads) \in Nat, Len(uploads') \in Nat, Len(uploads') >= Len(uploads),
           \A q \in Requests \ {p} : HolderFits(session', uploads', pc[q], loc[q]),
           \A q \in Requests \ {p} : StageFits(session.status', object', pc[q]),
           LocalFits(Len(uploads'), label, l),
           HolderFits(session', uploads', label, l),
           StageFits(session.status', object', label),
           HoldsRow(label) => \A q \in Requests \ {p} : ~HoldsRow(pc[q]),
           label = "record" => \A q \in Requests \ {p} : pc[q] # "record"
    PROVE  LocalsFit' /\ OneHolder' /\ OneClaim' /\ scene' \in Scenes
<1>1. /\ pc \in [Requests -> Labels] /\ DOMAIN loc = Requests /\ scene' = scene
      /\ pc' = [pc EXCEPT ![p] = label] /\ loc' = [loc EXCEPT ![p] = l]
  BY DEF IInv, LocalsFit, Goto
<1>2. /\ pc' \in [Requests -> Labels] /\ DOMAIN loc' = Requests
      /\ pc'[p] = label /\ loc'[p] = l
      /\ \A q \in Requests \ {p} : pc'[q] = pc[q] /\ loc'[q] = loc[q]
  BY <1>1
<1>3. Parts' = Parts /\ \A x : HoldsRow(x)' <=> HoldsRow(x)
  BY <1>1 DEF Parts, HoldsRow
<1>4. LocalsFit'
  <2>1. ASSUME NEW q \in Requests \ {p} PROVE LocalFits(Len(uploads'), pc[q], loc[q])
    <3>1. LocalFits(Len(uploads), pc[q], loc[q])
      BY DEF IInv, LocalsFit
    <3> QED
      BY <3>1 DEF LocalFits
  <2> QED
    BY <1>2, <1>3, <2>1 DEF LocalsFit, LocalFits
<1>5. OneHolder'
  <2>1. \A q \in Requests : HolderFits(session, uploads, pc[q], loc[q])'
    BY <1>2, <1>3 DEF HolderFits
  <2>2. \A q, r \in Requests : HoldsRow(pc[q])' /\ HoldsRow(pc[r])' => q = r
    BY <1>2, <1>3 DEF IInv, OneHolder
  <2> QED
    BY <2>1, <2>2 DEF OneHolder
<1>6. OneClaim'
  <2>1. \A q \in Requests : StageFits(session.status, object, pc[q])'
    BY <1>1, <1>2, <1>3 DEF StageFits
  <2>2. \A q, r \in Requests : pc'[q] = "record" /\ pc'[r] = "record" => q = r
    BY <1>2 DEF IInv, OneClaim
  <2> QED
    BY <2>1, <2>2 DEF OneClaim
<1> QED
  BY <1>1, <1>4, <1>5, <1>6 DEF IInv

LEMMA UploadsKept == ASSUME IInv PROVE Len(uploads) \in Nat /\ DOMAIN uploads = 1..Len(uploads)
BY DEF IInv, RowsFit, TypeOK

\* What the invariant says of a request at its step.
LEMMA At ==
    ASSUME IInv, NEW p \in Requests
    PROVE  /\ LocalFits(Len(uploads), pc[p], loc[p])
           /\ HolderFits(session, uploads, pc[p], loc[p])
           /\ StageFits(session.status, object, pc[p])
           /\ SessionFits(session, Len(uploads)) /\ uploads \in UploadsType
           /\ Len(uploads) \in Nat /\ DOMAIN uploads = 1..Len(uploads)
BY TypeParts, UploadsKept DEF IInv, RowsFit, LocalsFit, OneHolder, OneClaim

\* What an upload may become: it keeps its parts, and closed it stays closed.
Grows(u, v) == u.parts \subseteq v.parts /\ (u.state # "open" => v.state # "open")

\* A step that leaves the rows alone: uploads only grow, and the object becomes the
\* whole file if it changes.  The request has to fit, and it releases nothing.
LEMMA StoreStep ==
    ASSUME IInv, NEW p \in Requests, NEW label \in Labels \ {"record"}, NEW l, Goto(p, label, l),
           UNCHANGED <<rows, expired>>, pc[p] \notin {"release", "abort"},
           uploads' \in UploadsType, Len(uploads') >= Len(uploads),
           \A n \in 1..Len(uploads) : Grows(uploads[n], uploads'[n]),
           object' \in {object, 1..Parts},
           LocalFits(Len(uploads'), label, l),
           HolderFits(session, uploads', label, l),
           StageFits(session.status, object', label),
           HoldsRow(label) => \A q \in Requests \ {p} : ~HoldsRow(pc[q])
    PROVE  IInv'
<1>1. /\ session' = session /\ ledger' = ledger /\ records' = records /\ expired' = expired
      /\ scene' = scene /\ Parts' = Parts
  BY DEF rows, Goto, Parts
<1>2. /\ Len(uploads) \in Nat /\ Len(uploads') \in Nat
      /\ DOMAIN uploads = 1..Len(uploads) /\ DOMAIN uploads' = 1..Len(uploads')
      /\ SessionFits(session, Len(uploads))
  BY UploadsKept, At DEF UploadsType
<1>3. session.upload \in {NoUpload} \cup 1..Len(uploads)
  BY <1>2 DEF SessionFits
<1>4. RowsFit'
  <2>1. SessionFits(session, Len(uploads'))
    <3>1. {NoUpload} \cup 1..Len(uploads) \subseteq {NoUpload} \cup 1..Len(uploads')
      BY <1>2
    <3> QED
      BY <1>2, <3>1 DEF SessionFits
  <2>2. TypeOK'
    <3>1. object \subseteq 1..Parts /\ ledger \subseteq 1..Parts /\ expired \in BOOLEAN /\ records \in Nat
      BY TypeParts DEF IInv, RowsFit
    <3> QED
      BY <1>1, <2>1, <3>1, TypeNext
  <2>3. OffsetIsStored'
    BY <1>1, <1>2, <1>3 DEF IInv, RowsFit, OffsetIsStored, Grows
  <2>4. ObjectWhole' /\ OneRecord' /\ Unstarted'
    BY <1>1 DEF IInv, RowsFit, ObjectWhole, OneRecord, Unstarted
  <2> QED
    BY <2>2, <2>3, <2>4 DEF RowsFit
<1>5. LocalsFit' /\ OneHolder' /\ OneClaim' /\ scene' \in Scenes
  <2>1. \A q \in Requests \ {p} : HolderFits(session', uploads', pc[q], loc[q])
    <3> SUFFICES ASSUME NEW q \in Requests PROVE HolderFits(session, uploads', pc[q], loc[q])
      BY <1>1
    <3>1. HolderFits(session, uploads, pc[q], loc[q]) /\ LocalFits(Len(uploads), pc[q], loc[q])
      BY At
    <3>2. pc[q] = "commit" => uploads[loc[q].upload].parts \subseteq uploads'[loc[q].upload].parts
      BY <3>1 DEF LocalFits, OnUpload, Grows
    <3> QED
      BY <3>1, <3>2 DEF HolderFits
  <2>2. \A q \in Requests \ {p} : StageFits(session.status', object', pc[q])
    <3> SUFFICES ASSUME NEW q \in Requests PROVE StageFits(session.status, object', pc[q])
      BY <1>1
    <3>1. StageFits(session.status, object, pc[q])
      BY At
    <3> QED
      BY <3>1 DEF StageFits
  <2> QED
    BY <1>1, <1>2, <2>1, <2>2, GotoStep
<1>6. Releasing'
  <2>1. \A q \in Requests : pc[q] \in {"release", "abort"} => pc'[q] = pc[q] /\ loc'[q] = loc[q]
    BY DEF Goto, IInv, LocalsFit
  <2>2. LedgerReleased => LedgerReleased'
    BY <1>1, <2>1 DEF LedgerReleased
  <2>3. UploadReleased => UploadReleased'
    BY <1>1, <1>3, <2>1 DEF UploadReleased, Grows
  <2> QED
    BY <1>1, <2>2, <2>3 DEF IInv, Releasing
<1> QED
  BY <1>4, <1>5, <1>6 DEF IInv

\* The rows and the store stay as they are.
LEMMA MoveStep ==
    ASSUME IInv, NEW p \in Requests, NEW label \in Labels \ {"record"}, NEW l, Goto(p, label, l),
           UNCHANGED <<rows, expired, store>>, pc[p] \notin {"release", "abort"},
           LocalFits(Len(uploads), label, l),
           HolderFits(session, uploads, label, l),
           StageFits(session.status, object, label),
           HoldsRow(label) => \A q \in Requests \ {p} : ~HoldsRow(pc[q])
    PROVE  IInv'
<1>1. uploads' = uploads /\ object' = object /\ UNCHANGED <<rows, expired>>
  BY DEF store
<1>2. uploads \in UploadsType /\ Len(uploads) \in Nat
  BY At
<1>3. \A n \in 1..Len(uploads) : Grows(uploads[n], uploads[n])
  BY DEF Grows
<1> QED
  BY <1>1, <1>2, <1>3, StoreStep

\* A request that is done, or that waits for nothing, fits whatever the rows are.
LEMMA Rests ==
    ASSUME NEW label \in {"idle", "cancel"}, NEW n, NEW s, NEW st, NEW u, NEW o, NEW l
    PROVE  /\ LocalFits(n, label, l) /\ HolderFits(s, u, label, l) /\ StageFits(st, o, label)
           /\ ~HoldsRow(label) /\ label \in Labels \ {"record"}
BY DEF LocalFits, HolderFits, StageFits, HoldsRow, OnUpload, OfChunk, OfCompletion, Labels

LEMMA FinishStep ==
    ASSUME IInv, NEW p \in Requests, Finish(p), UNCHANGED <<rows, expired, store>>,
           pc[p] \notin {"release", "abort"}
    PROVE  IInv'
BY Rests, MoveStep DEF Finish

LEMMA InitIInv == Init => IInv
<1> SUFFICES ASSUME Init PROVE IInv
  OBVIOUS
<1>1. Parts \in Nat \ {0} /\ scene \in Scenes
  BY SceneFacts DEF Init
<1>2. TypeOK
  <2>1. SessionFits(session, Len(uploads))
    BY <1>1 DEF Init, SessionFits, Statuses
  <2>2. uploads \in UploadsType
    BY DEF Init, UploadsType
  <2> QED
    BY <2>1, <2>2, TypeParts DEF Init
<1>3. OffsetIsStored /\ ObjectWhole /\ OneRecord /\ Unstarted
  BY <1>1 DEF Init, OffsetIsStored, ObjectWhole, OneRecord, Unstarted
<1>4. LocalsFit
  BY Rests DEF Init, LocalsFit, Labels
<1>5. OneHolder /\ OneClaim /\ Releasing
  BY Rests DEF Init, OneHolder, OneClaim, HoldsRow, Releasing
<1> QED
  BY <1>1, <1>2, <1>3, <1>4, <1>5 DEF IInv, RowsFit

-----------------------------------------------------------------------------
(* transferChunk.                                                          *)

LEMMA ChunkReadStep ==
    ASSUME IInv, NEW p \in Requests, NEW o \in 0..Parts - 1, ChunkRead(p, o)
    PROVE  IInv'
<1>1. /\ pc[p] = "idle" /\ Goto(p, "chunk", [offset |-> o, upload |-> NoUpload])
      /\ UNCHANGED <<rows, expired, store>>
  BY DEF ChunkRead, Begin
<1> DEFINE l == [offset |-> o, upload |-> NoUpload]
<1>2. /\ LocalFits(Len(uploads), "chunk", l) /\ HolderFits(session, uploads, "chunk", l)
      /\ StageFits(session.status, object, "chunk") /\ ~HoldsRow("chunk")
  BY DEF LocalFits, HolderFits, StageFits, HoldsRow, OnUpload, OfChunk, OfCompletion
<1> HIDE DEF l
<1> QED
  BY <1>1, <1>2, MoveStep DEF Labels, l

LEMMA ChunkLockStep ==
    ASSUME IInv, NEW p \in Requests, ChunkLock(p)
    PROVE  IInv'
<1>1. pc[p] = "chunk" /\ RowFree /\ UNCHANGED <<rows, expired, store>>
  BY DEF ChunkLock
<1>2. CASE Accepts(loc[p].offset)
  <2> DEFINE l == [loc[p] EXCEPT !.upload = session.upload]
  <2>1. Goto(p, "create", l)
    BY <1>2 DEF ChunkLock
  <2>2. /\ loc[p] \in [offset : 0..Parts - 1, upload : {NoUpload} \cup 1..Len(uploads)]
        /\ session.upload \in {NoUpload} \cup 1..Len(uploads)
    BY <1>1, At DEF LocalFits, OfChunk, SessionFits
  <2>3. /\ l \in [offset : 0..Parts - 1, upload : {NoUpload} \cup 1..Len(uploads)]
        /\ l.upload = session.upload /\ l.offset = loc[p].offset
    BY <2>2
  <2> HIDE DEF l
  <2>4. LocalFits(Len(uploads), "create", l) /\ StageFits(session.status, object, "create")
    BY <2>3 DEF LocalFits, StageFits, OnUpload, OfChunk, OfCompletion
  <2>5. HolderFits(session, uploads, "create", l)
    BY <1>2, <2>3 DEF HolderFits, Accepts
  <2> QED
    BY <1>1, <2>1, <2>4, <2>5, NoHolder, MoveStep DEF Labels
<1>3. CASE ~Accepts(loc[p].offset)
  BY <1>1, <1>3, FinishStep DEF ChunkLock
<1> QED
  BY <1>2, <1>3

\* The upload that is begun is a new one; the others keep their parts.
LEMMA ChunkCreateStep ==
    ASSUME IInv, NEW p \in Requests, ChunkCreate(p)
    PROVE  IInv'
<1> DEFINE l == [loc[p] EXCEPT !.upload = Len(uploads) + 1]
           u == [state |-> "open", parts |-> {}]
<1>1. /\ pc[p] = "create" /\ session' = session /\ ledger' = ledger /\ records' = records
      /\ object' = object /\ expired' = expired
  BY DEF ChunkCreate, rows
<1>2. /\ loc[p] \in [offset : 0..Parts - 1, upload : {NoUpload} \cup 1..Len(uploads)]
      /\ HolderFits(session, uploads, "create", loc[p]) /\ SessionFits(session, Len(uploads))
      /\ uploads \in UploadsType /\ Len(uploads) \in Nat
  BY <1>1, At DEF LocalFits, OfChunk
<1>3. \A q \in Requests \ {p} : ~HoldsRow(pc[q])
  BY <1>1, Alone
<1>4. StageFits(session.status, object, "part")
  BY DEF StageFits, OfCompletion
<1>5. CASE loc[p].upload # NoUpload
  <2>1. Goto(p, "part", loc[p]) /\ UNCHANGED <<rows, expired, store>>
    BY <1>5 DEF ChunkCreate, store
  <2>2. LocalFits(Len(uploads), "part", loc[p])
    BY <1>2, <1>5 DEF LocalFits
  <2>3. HolderFits(session, uploads, "part", loc[p])
    BY <1>2 DEF HolderFits, HoldsRow
  <2> QED
    BY <1>1, <1>3, <1>4, <2>1, <2>2, <2>3, MoveStep DEF Labels
<1>6. CASE loc[p].upload = NoUpload
  <2>1. Goto(p, "part", l) /\ uploads' = Append(uploads, u)
    BY <1>6 DEF ChunkCreate
  <2>2. /\ uploads' \in UploadsType /\ Len(uploads') = Len(uploads) + 1
        /\ \A n \in 1..Len(uploads) : uploads'[n] = uploads[n]
    <3>1. u \in UploadType
      BY DEF UploadType
    <3> HIDE DEF u
    <3> QED
      BY <1>2, <2>1, <3>1 DEF UploadsType
  <2>3. /\ l \in [offset : 0..Parts - 1, upload : {NoUpload} \cup 1..Len(uploads')]
        /\ l.upload = Len(uploads) + 1 /\ l.offset = loc[p].offset
    BY <1>2, <2>2
  <2> HIDE DEF l, u
  <2>4. LocalFits(Len(uploads'), "part", l)
    BY <1>2, <2>2, <2>3 DEF LocalFits
  <2>5. HolderFits(session, uploads', "part", l)
    BY <1>2, <1>6, <2>3 DEF HolderFits, HoldsRow
  <2>6. \A n \in 1..Len(uploads) : Grows(uploads[n], uploads'[n])
    BY <2>2 DEF Grows
  <2>7. UNCHANGED <<rows, expired>> /\ Len(uploads') >= Len(uploads)
    BY <1>1, <1>2, <2>2 DEF rows
  <2> QED
    BY <1>1, <1>3, <1>4, <2>1, <2>2, <2>4, <2>5, <2>6, <2>7, StoreStep DEF Labels
<1> QED
  BY <1>5, <1>6

\* The part is in the upload when the request comes to its commit.
LEMMA ChunkPartStep ==
    ASSUME IInv, NEW p \in Requests, ChunkPart(p)
    PROVE  IInv'
<1> DEFINE n == loc[p].upload
           part == loc[p].offset + 1
           u == [uploads[n] EXCEPT !.parts = @ \cup {part}]
<1>1. /\ pc[p] = "part" /\ Goto(p, "commit", loc[p]) /\ object' = object
      /\ UNCHANGED <<rows, expired>>
  BY DEF ChunkPart
<1>2. /\ loc[p] \in [offset : 0..Parts - 1, upload : {NoUpload} \cup 1..Len(uploads)]
      /\ n \in 1..Len(uploads) /\ uploads \in UploadsType /\ Len(uploads) \in Nat
      /\ HolderFits(session, uploads, "part", loc[p]) /\ Parts \in Nat
  BY <1>1, At, SceneFacts DEF LocalFits, OfChunk, OnUpload, IInv
<1>3. part \in 1..Parts
  BY <1>2
<1>4. uploads[n] \in UploadType
  BY <1>2, UploadAt
<1>5. /\ u \in UploadType
      /\ u.state = uploads[n].state /\ u.parts = uploads[n].parts \cup {part}
  BY <1>3, <1>4 DEF UploadType
<1>0. uploads' = [uploads EXCEPT ![n] = u]
  BY <1>2 DEF ChunkPart
<1> HIDE DEF u, part, n
<1>6. /\ uploads' \in UploadsType /\ Len(uploads') = Len(uploads) /\ uploads'[n] = u
      /\ \A m \in 1..Len(uploads) : m # n => uploads'[m] = uploads[m]
  BY <1>0, <1>2, <1>5, OneUpload
<1>7. \A m \in 1..Len(uploads) : Grows(uploads[m], uploads'[m])
  BY <1>5, <1>6 DEF Grows
<1>8. HolderFits(session, uploads', "commit", loc[p])
  BY <1>2, <1>5, <1>6 DEF HolderFits, HoldsRow, n, part
<1>9. LocalFits(Len(uploads'), "commit", loc[p]) /\ StageFits(session.status, object, "commit")
  BY <1>2, <1>6 DEF LocalFits, StageFits, OfChunk, OnUpload, OfCompletion, n
<1>10. \A q \in Requests \ {p} : ~HoldsRow(pc[q])
  BY <1>1, Alone
<1>11. Len(uploads') >= Len(uploads)
  BY <1>2, <1>6
<1>12. StageFits(session.status, object', "commit") /\ "commit" \in Labels \ {"record"}
  BY <1>1, <1>9 DEF Labels
<1> QED
  BY <1>1, <1>6, <1>7, <1>8, <1>9, <1>10, <1>11, <1>12, StoreStep

\* A holder commits: the session takes over its upload and its part.
LEMMA ChunkCommitStep ==
    ASSUME IInv, NEW p \in Requests, ChunkCommit(p)
    PROVE  IInv'
<1> DEFINE l == loc[p]
           s == [session EXCEPT !.status = "UPLOADING", !.upload = l.upload, !.offset = l.offset + 1]
<1>1. /\ pc[p] = "commit" /\ scene.seconds <= TxTimeout /\ Goto(p, "idle", NoCall)
      /\ ledger' = ledger \cup {l.offset + 1} /\ session' = s
      /\ expired' = expired /\ records' = records /\ uploads' = uploads /\ object' = object
      /\ scene' = scene
  BY DEF ChunkCommit, Finish, Goto, store
<1>2. /\ l \in [offset : 0..Parts - 1, upload : {NoUpload} \cup 1..Len(uploads)]
      /\ l.upload \in 1..Len(uploads) /\ HoldsRow("commit")
      /\ HolderFits(session, uploads, "commit", l) /\ SessionFits(session, Len(uploads))
      /\ uploads \in UploadsType /\ Len(uploads) \in Nat /\ Parts \in Nat /\ NoUpload \notin Nat
  BY <1>1, At, SceneFacts DEF LocalFits, OfChunk, OnUpload, IInv, HoldsRow
<1>3. /\ session.status \in Transferring /\ session.offset = l.offset
      /\ l.upload # session.upload => session.upload = NoUpload
      /\ l.offset + 1 \in uploads[l.upload].parts
  BY <1>2 DEF HolderFits
<1>4. l.offset \in 0..Parts - 1 /\ l.offset + 1 \in 1..Parts
  BY <1>2
<1>5. /\ s.status = "UPLOADING" /\ s.upload = l.upload /\ s.offset = l.offset + 1
      /\ SessionFits(s, Len(uploads))
  <2>1. session.status # "COMPLETED" /\ l.offset + 1 \in 0..Parts /\ l.upload \in {NoUpload} \cup 1..Len(uploads)
    BY <1>2, <1>3, <1>4 DEF Transferring
  <2>2. s = [session EXCEPT !.status = "UPLOADING", !.upload = l.upload, !.offset = l.offset + 1]
    OBVIOUS
  <2>3. SessionFits(session, Len(uploads))
    BY <1>2
  <2> HIDE DEF l, s
  <2> DEFINE o == l.offset + 1
             u == l.upload
  <2>4. o \in 0..Parts /\ u \in {NoUpload} \cup 1..Len(uploads)
    BY <2>1
  <2>5. s = [session EXCEPT !.status = "UPLOADING", !.upload = u, !.offset = o]
    BY <2>2
  <2> HIDE DEF o, u
  <2>6. SessionFits(s, Len(uploads)) /\ s.status = "UPLOADING" /\ s.upload = u /\ s.offset = o
    BY <2>1, <2>3, <2>4, <2>5 DEF SessionFits, Statuses
  <2> QED
    BY <2>6 DEF o, u
<1>6. \A q \in Requests \ {p} : ~HoldsRow(pc[q])
  BY <1>1, Alone
<1> HIDE DEF s, l
<1>7. RowsFit'
  <2>1. TypeOK'
    <3>1. /\ expired \in BOOLEAN /\ ledger \subseteq 1..Parts /\ object \subseteq 1..Parts /\ records \in Nat
      BY TypeParts DEF IInv, RowsFit
    <3> QED
      BY <1>1, <1>2, <1>4, <1>5, <3>1, TypeNext
  <2>2. OffsetIsStored'
    <3>1. /\ session.offset > 0 => session.upload # NoUpload
          /\ session.upload # NoUpload => 1..session.offset \subseteq uploads[session.upload].parts
          /\ 1..session.offset \subseteq ledger
      BY <1>3 DEF IInv, RowsFit, OffsetIsStored
    <3>2. 1..l.offset \subseteq uploads[l.upload].parts
      BY <1>3, <1>4, <3>1
    <3>3. \A n \in 1..(l.offset + 1) : n \in 1..l.offset \/ n = l.offset + 1
      BY <1>4
    <3>4. 1..(l.offset + 1) \subseteq uploads[l.upload].parts /\ 1..(l.offset + 1) \subseteq ledger'
      BY <1>1, <1>3, <3>1, <3>2, <3>3
    <3>5. l.upload # NoUpload
      BY <1>2
    <3> QED
      BY <1>1, <1>5, <3>4, <3>5 DEF OffsetIsStored
  <2>3. OneRecord' /\ ObjectWhole' /\ Unstarted'
    BY <1>1, <1>3, <1>5 DEF IInv, RowsFit, OneRecord, ObjectWhole, Unstarted, Transferring, Parts
  <2> QED
    BY <2>1, <2>2, <2>3 DEF RowsFit
<1>8. LocalsFit' /\ OneHolder' /\ OneClaim' /\ scene' \in Scenes
  <2>1. \A q \in Requests \ {p} : HolderFits(session', uploads', pc[q], loc[q])
    BY <1>6 DEF HolderFits
  <2>2. \A q \in Requests \ {p} : StageFits(session.status', object', pc[q])
    <3> SUFFICES ASSUME NEW q \in Requests PROVE StageFits("UPLOADING", object, pc[q])
      BY <1>1, <1>5
    <3>1. StageFits(session.status, object, pc[q])
      BY At
    <3> QED
      BY <1>3, <3>1 DEF StageFits, Transferring
  <2>3. /\ LocalFits(Len(uploads'), "idle", NoCall) /\ HolderFits(session', uploads', "idle", NoCall)
        /\ StageFits(session.status', object', "idle") /\ ~HoldsRow("idle")
        /\ "idle" \in Labels /\ Len(uploads') \in Nat /\ Len(uploads') >= Len(uploads)
    BY <1>1, <1>2, Rests
  <2> QED
    BY <1>1, <1>2, <2>1, <2>2, <2>3, GotoStep
<1>9. Releasing'
  BY <1>1, <1>5 DEF Releasing
<1> QED
  BY <1>7, <1>8, <1>9 DEF IInv

LEMMA ChunkIInv ==
    ASSUME IInv, NEW p \in Requests, ChunkStep(p)
    PROVE  IInv'
<1>1. CASE ChunkLockTimeout(p) \/ ChunkPartFails(p) \/ ChunkRollback(p)
  BY <1>1, FinishStep DEF ChunkLockTimeout, ChunkPartFails, ChunkRollback
<1> QED
  BY <1>1, ChunkLockStep, ChunkCreateStep, ChunkPartStep, ChunkCommitStep DEF ChunkStep

-----------------------------------------------------------------------------
(* completeUploadSession.                                                  *)

\* A completion goes on with the upload it read; the session is past INITIATED.
LEMMA CompletionMoves ==
    ASSUME IInv, NEW p \in Requests, NEW label \in OfCompletion \ {"record"}, NEW l,
           Goto(p, label, l), UNCHANGED <<rows, expired, store>>, pc[p] \notin {"release", "abort"},
           l.upload \in 1..Len(uploads), StageFits(session.status, object, label)
    PROVE  IInv'
<1>1. /\ LocalFits(Len(uploads), label, l) /\ HolderFits(session, uploads, label, l) /\ ~HoldsRow(label)
      /\ label \in Labels \ {"record"}
  BY DEF LocalFits, HolderFits, HoldsRow, OfCompletion, OfChunk, OnUpload, Labels
<1> QED
  BY <1>1, MoveStep

LEMMA CompleteReadStep ==
    ASSUME IInv, NEW p \in Requests, CompleteRead(p)
    PROVE  IInv'
<1> DEFINE l == [upload |-> session.upload]
<1>1. /\ pc[p] = "idle" /\ session.status = "UPLOADING" /\ session.upload # NoUpload
      /\ Goto(p, "parts", l) /\ UNCHANGED <<rows, expired, store>>
  BY DEF CompleteRead, Begin
<1>2. l.upload \in 1..Len(uploads)
  BY <1>1, At DEF SessionFits
<1>3. StageFits(session.status, object, "parts")
  BY <1>1 DEF StageFits
<1> HIDE DEF l
<1> QED
  BY <1>1, <1>2, <1>3, CompletionMoves DEF OfCompletion

\* The steps of a completion that change nothing but its label.
LEMMA CompletionLooks ==
    ASSUME IInv, NEW p \in Requests,
           CompleteParts(p) \/ AssembleAgain(p) \/ AssembleFails(p) \/ Verify(p)
             \/ FinalizeRead(p) \/ Await(p) \/ AwaitTimeout(p)
    PROVE  IInv'
<1>1. /\ pc[p] \in OfCompletion \ {"record", "dropLedger"} /\ UNCHANGED <<rows, expired, store>>
  BY DEF CompleteParts, AssembleAgain, AssembleFails, Verify, FinalizeRead, Await, AwaitTimeout, OfCompletion
<1>2. loc[p].upload \in 1..Len(uploads) /\ StageFits(session.status, object, pc[p])
  BY <1>1, At DEF LocalFits, OfCompletion, OnUpload
<1>3. CASE Finish(p)
  BY <1>1, <1>3, FinishStep DEF OfCompletion
<1>4. ASSUME NEW label \in OfCompletion \ {"record"}, Goto(p, label, loc[p]),
             StageFits(session.status, object, label)
      PROVE  IInv'
  BY <1>1, <1>2, <1>4, CompletionMoves DEF OfCompletion
<1>5. CASE Goto(p, "assemble", loc[p]) \/ Goto(p, "stat", loc[p]) \/ Goto(p, "fail", loc[p])
  <2>1. \A x \in {"assemble", "stat", "fail"} : StageFits(session.status, object, x)
    BY <1>1, <1>2 DEF StageFits, OfCompletion
  <2> QED
    BY <1>4, <1>5, <2>1 DEF OfCompletion
<1>6. CASE Verify(p)
  <2>1. CASE scene.valid /\ object = 1..Parts /\ Goto(p, "finalize", loc[p])
    <3>1. StageFits(session.status, object, "finalize")
      BY <1>1, <1>2, <2>1 DEF StageFits, OfCompletion
    <3> QED
      BY <1>4, <2>1, <3>1 DEF OfCompletion
  <2> QED
    BY <1>3, <1>5, <1>6, <2>1 DEF Verify
<1>7. CASE FinalizeRead(p)
  <2>1. CASE session.status = "COMPLETED" /\ Goto(p, "dropLedger", loc[p])
    <3>1. StageFits(session.status, object, "dropLedger")
      BY <2>1 DEF StageFits, Transferring
    <3> QED
      BY <1>4, <2>1, <3>1 DEF OfCompletion
  <2>2. CASE session.status = "UPLOADING" /\ Goto(p, "claim", loc[p])
    <3>1. StageFits(session.status, object, "claim")
      BY <1>2, <1>7, <2>2 DEF StageFits, FinalizeRead
    <3> QED
      BY <1>4, <2>2, <3>1 DEF OfCompletion
  <2> QED
    BY <1>3, <1>7, <2>1, <2>2 DEF FinalizeRead
<1>8. CASE Await(p)
  <2>1. CASE session.status = "COMPLETED" /\ Goto(p, "dropLedger", loc[p])
    <3>1. StageFits(session.status, object, "dropLedger")
      BY <2>1 DEF StageFits, Transferring
    <3> QED
      BY <1>4, <2>1, <3>1 DEF OfCompletion
  <2> QED
    BY <1>3, <1>8, <2>1 DEF Await
<1> QED
  BY <1>3, <1>5, <1>6, <1>7, <1>8 DEF CompleteParts, AssembleAgain, AssembleFails, AwaitTimeout

\* The store assembles the parts of an open upload, all of them.
LEMMA AssembleStep ==
    ASSUME IInv, NEW p \in Requests, Assemble(p)
    PROVE  IInv'
<1> DEFINE n == loc[p].upload
           u == [uploads[n] EXCEPT !.state = "completed"]
<1>1. /\ pc[p] = "assemble" /\ uploads[n].parts = 1..Parts /\ object' = 1..Parts
      /\ UNCHANGED <<rows, expired>>
  BY DEF Assemble
<1>2. /\ n \in 1..Len(uploads) /\ uploads \in UploadsType /\ Len(uploads) \in Nat
      /\ StageFits(session.status, object, "assemble")
  BY <1>1, At DEF LocalFits, OnUpload
<1>3. uploads[n] \in UploadType /\ uploads' = [uploads EXCEPT ![n] = u]
  BY <1>2, UploadAt DEF Assemble
<1>4. u \in UploadType /\ u.parts = uploads[n].parts /\ u.state # "open"
  BY <1>3 DEF UploadType
<1> HIDE DEF u
<1>5. /\ uploads' \in UploadsType /\ Len(uploads') = Len(uploads)
      /\ \A m \in 1..Len(uploads) : Grows(uploads[m], uploads'[m])
  BY <1>2, <1>3, <1>4, OneUpload DEF Grows
<1>6. ASSUME NEW label \in {"stat", "idle"}, NEW l, Goto(p, label, l),
             label = "stat" => l.upload \in 1..Len(uploads)
      PROVE  IInv'
  <2>1. /\ LocalFits(Len(uploads'), label, l) /\ HolderFits(session, uploads', label, l)
        /\ ~HoldsRow(label) /\ label \in Labels \ {"record"}
        /\ StageFits(session.status, object', label)
    BY <1>2, <1>5, <1>6 DEF LocalFits, HolderFits, HoldsRow, OfCompletion, OfChunk, OnUpload, Labels, StageFits
  <2>2. Len(uploads') >= Len(uploads)
    BY <1>2, <1>5
  <2> QED
    BY <1>1, <1>5, <1>6, <2>1, <2>2, StoreStep
<1>7. CASE Goto(p, "stat", loc[p])
  BY <1>2, <1>6, <1>7
<1>8. CASE Finish(p)
  BY <1>6, <1>8 DEF Finish
<1> QED
  BY <1>7, <1>8 DEF Assemble

\* A session leaves the transfer for a status to which it does not return; no chunk
\* holds the row and nobody else has the claim.
LEMMA EndingStep ==
    ASSUME IInv, NEW p \in Requests, NEW label \in Labels, NEW l, Goto(p, label, l),
           UNCHANGED <<ledger, expired, store>>, records' \in Nat,
           SessionFits(session', Len(uploads)),
           session'.status \in Statuses \ (Transferring \cup {"NONE"}),
           \A q \in Requests \ {p} : ~HoldsRow(pc[q]) /\ pc[q] # "record",
           ~HoldsRow(label), LocalFits(Len(uploads), label, l),
           StageFits(session'.status, object, label), OneRecord',
           session'.status \in {"CANCELLED", "EXPIRED"} =>
               label = "release" /\ l.upload = session'.upload
    PROVE  IInv'
<1>1. /\ ledger' = ledger /\ expired' = expired /\ uploads' = uploads /\ object' = object
      /\ scene' = scene /\ Len(uploads) \in Nat /\ uploads \in UploadsType
  BY At DEF store, Goto
<1>2. RowsFit'
  <2>1. TypeOK'
    <3>1. /\ expired \in BOOLEAN /\ ledger \subseteq 1..Parts /\ object \subseteq 1..Parts
      BY TypeParts DEF IInv, RowsFit
    <3> QED
      BY <1>1, <3>1, TypeNext
  <2>2. OffsetIsStored' /\ ObjectWhole' /\ Unstarted'
    BY <1>1 DEF IInv, RowsFit, OffsetIsStored, ObjectWhole, Unstarted, Parts
  <2> QED
    BY <2>1, <2>2 DEF RowsFit
<1>3. LocalsFit' /\ OneHolder' /\ OneClaim' /\ scene' \in Scenes
  <2>1. \A q \in Requests \ {p} : HolderFits(session', uploads', pc[q], loc[q])
    BY DEF HolderFits
  <2>2. \A q \in Requests \ {p} : StageFits(session'.status, object', pc[q])
    <3> SUFFICES ASSUME NEW q \in Requests \ {p} PROVE StageFits(session'.status, object, pc[q])
      BY <1>1
    <3>1. StageFits(session.status, object, pc[q])
      BY At
    <3> QED
      BY <3>1 DEF StageFits, Transferring
  <2>3. HolderFits(session', uploads', label, l)
    BY DEF HolderFits
  <2> QED
    BY <1>1, <2>1, <2>2, <2>3, GotoStep
<1>4. Releasing'
  <2>1. pc'[p] = label /\ loc'[p] = l
    BY DEF Goto, IInv, LocalsFit
  <2> QED
    BY <1>1, <2>1 DEF Releasing, LedgerReleased, UploadReleased
<1> QED
  BY <1>2, <1>3, <1>4 DEF IInv

\* Nobody has the claim while the session takes chunks.
LEMMA NoClaim ==
    ASSUME IInv, session.status # "COMPLETING" PROVE \A q \in Requests : pc[q] # "record"
BY DEF IInv, OneClaim, StageFits

\* The end of a session: its upload is released next.
LEMMA ReleaseNext ==
    ASSUME IInv, NEW p \in Requests, RowFree, session.status \in Transferring,
           NEW st \in {"FAILED", "CANCELLED", "EXPIRED"}, session' = [session EXCEPT !.status = st],
           Goto(p, "release", [upload |-> session.upload]),
           UNCHANGED <<ledger, records, expired, store>>
    PROVE  IInv'
<1> DEFINE l == [upload |-> session.upload]
<1>1. SessionFits(session, Len(uploads)) /\ session.status # "COMPLETED" /\ records \in Nat
  BY At, TypeParts DEF Transferring, IInv, RowsFit
<1>2. /\ SessionFits(session', Len(uploads)) /\ session'.status = st
      /\ session'.upload = session.upload
  <2>1. st \in Statuses \ {"COMPLETED"}
    BY DEF Statuses
  <2> HIDE DEF l
  <2> QED
    BY <1>1, <2>1, StatusStep
<1>3. l.upload = session.upload /\ LocalFits(Len(uploads), "release", l)
  BY <1>1 DEF SessionFits, LocalFits, OnUpload, OfChunk
<1> HIDE DEF l
<1>4. StageFits(session'.status, object, "release") /\ ~HoldsRow("release")
  BY <1>2 DEF StageFits, HoldsRow, Transferring, OfCompletion
<1>5. OneRecord'
  BY <1>1, <1>2 DEF IInv, RowsFit, OneRecord
<1>6. \A q \in Requests : ~HoldsRow(pc[q]) /\ pc[q] # "record"
  BY NoHolder, NoClaim DEF Transferring
<1>7. session'.status \in Statuses \ (Transferring \cup {"NONE"}) /\ "release" \in Labels
  BY <1>2 DEF Statuses, Transferring, Labels
<1>8. UNCHANGED <<ledger, expired, store>> /\ records' \in Nat /\ Goto(p, "release", l)
  BY <1>1 DEF l
<1> QED
  BY <1>2, <1>3, <1>4, <1>5, <1>6, <1>7, <1>8, EndingStep

\* A session that has ended already is released all the same.
LEMMA ReleaseAgain ==
    ASSUME IInv, NEW p \in Requests, session.status \notin Transferring \cup {"NONE"},
           pc[p] \notin {"release", "abort"},
           Goto(p, "release", [upload |-> session.upload]), UNCHANGED <<rows, expired, store>>
    PROVE  IInv'
<1> DEFINE l == [upload |-> session.upload]
<1>1. l.upload = session.upload /\ LocalFits(Len(uploads), "release", l)
  BY At DEF SessionFits, LocalFits, OnUpload, OfChunk
<1>2. StageFits(session.status, object, "release") /\ ~HoldsRow("release") /\ "release" \in Labels
  BY DEF StageFits, HoldsRow, OfCompletion, Labels
<1>3. HolderFits(session, uploads, "release", l)
  BY <1>2 DEF HolderFits
<1> HIDE DEF l
<1> QED
  BY <1>1, <1>2, <1>3, MoveStep DEF l

LEMMA FailStep ==
    ASSUME IInv, NEW p \in Requests, Fail(p)
    PROVE  IInv'
<1>1. /\ pc[p] = "fail" /\ RowFree /\ Goto(p, "release", [upload |-> session.upload])
      /\ UNCHANGED <<ledger, records, expired, store>>
  BY DEF Fail
<1>2. session.status \notin {"NONE", "INITIATED"}
  BY <1>1, At DEF StageFits, OfCompletion
<1>3. CASE session.status = "UPLOADING"
  BY <1>1, <1>3, ReleaseNext DEF Fail, Transferring
<1>4. CASE session.status # "UPLOADING"
  <2>1. UNCHANGED <<rows, expired, store>>
    BY <1>1, <1>4 DEF Fail, rows
  <2> QED
    BY <1>1, <1>2, <1>4, <2>1, ReleaseAgain DEF Transferring
<1> QED
  BY <1>3, <1>4

\* One request gets the claim.
LEMMA ClaimStep ==
    ASSUME IInv, NEW p \in Requests, Claim(p)
    PROVE  IInv'
<1>1. /\ pc[p] = "claim" /\ RowFree /\ UNCHANGED <<ledger, records, expired, store>>
  BY DEF Claim
<1>2. loc[p].upload \in 1..Len(uploads) /\ StageFits(session.status, object, "claim")
  BY <1>1, At DEF LocalFits, OnUpload
<1>3. CASE session.status = "UPLOADING"
  <2>1. session' = [session EXCEPT !.status = "COMPLETING"] /\ Goto(p, "record", loc[p])
    BY <1>3 DEF Claim
  <2>2. SessionFits(session, Len(uploads)) /\ records \in Nat
    BY At, TypeParts DEF IInv, RowsFit
  <2>3. SessionFits(session', Len(uploads)) /\ session'.status = "COMPLETING"
    BY <1>3, <2>1, <2>2, StatusStep DEF Statuses
  <2>4. OneRecord'
    BY <1>1, <1>3, <2>3 DEF IInv, RowsFit, OneRecord
  <2>5. \A q \in Requests : ~HoldsRow(pc[q]) /\ pc[q] # "record"
    BY <1>1, <1>3, NoHolder, NoClaim
  <2>6. /\ LocalFits(Len(uploads), "record", loc[p]) /\ ~HoldsRow("record") /\ "record" \in Labels
        /\ session'.status \in Statuses \ (Transferring \cup {"NONE"})
    BY <1>2, <2>3 DEF LocalFits, OnUpload, OfChunk, HoldsRow, Labels, Statuses, Transferring
  <2>7. StageFits(session'.status, object, "record")
    BY <1>2, <2>3 DEF StageFits
  <2>8. UNCHANGED <<ledger, expired, store>> /\ records' \in Nat
    BY <1>1, <2>2
  <2> QED
    BY <2>1, <2>3, <2>4, <2>5, <2>6, <2>7, <2>8, EndingStep
<1>4. CASE session.status # "UPLOADING"
  <2>1. Goto(p, "await", loc[p]) /\ UNCHANGED <<rows, expired, store>>
    BY <1>1, <1>4 DEF Claim, rows
  <2>2. StageFits(session.status, object, "await")
    BY <1>2 DEF StageFits, OfCompletion
  <2> QED
    BY <1>1, <1>2, <2>1, <2>2, CompletionMoves DEF OfCompletion
<1> QED
  BY <1>3, <1>4

\* Who has the claim is alone, and no chunk holds the row.
LEMMA ClaimAlone ==
    ASSUME IInv, NEW p \in Requests, pc[p] = "record"
    PROVE  /\ session.status = "COMPLETING" /\ object = 1..Parts /\ scene.valid
           /\ \A q \in Requests \ {p} : ~HoldsRow(pc[q]) /\ pc[q] # "record"
<1>1. session.status = "COMPLETING" /\ object = 1..Parts /\ scene.valid
  BY At DEF StageFits
<1>2. \A q \in Requests : ~HoldsRow(pc[q])
  BY <1>1 DEF IInv, OneHolder, HolderFits, Transferring
<1> QED
  BY <1>1, <1>2 DEF IInv, OneClaim

LEMMA RecordStep ==
    ASSUME IInv, NEW p \in Requests, Record(p) \/ RecordFails(p)
    PROVE  IInv'
<1>1. /\ pc[p] = "record" /\ UNCHANGED <<ledger, expired, store>> /\ scene' = scene
  BY DEF Record, RecordFails, Finish, Goto
<1>2. /\ session.status = "COMPLETING" /\ object = 1..Parts /\ scene.valid
      /\ \A q \in Requests \ {p} : ~HoldsRow(pc[q]) /\ pc[q] # "record"
  BY <1>1, ClaimAlone
<1>3. /\ loc[p].upload \in 1..Len(uploads) /\ SessionFits(session, Len(uploads)) /\ records \in Nat
      /\ records = 0
  BY <1>1, <1>2, At, TypeParts DEF LocalFits, OnUpload, IInv, RowsFit, OneRecord
<1>4. CASE Record(p)
  <2>1. /\ records' = 1 /\ session' = [session EXCEPT !.status = "COMPLETED", !.record = TRUE]
        /\ Goto(p, "dropLedger", loc[p])
    BY <1>3, <1>4 DEF Record
  <2>2. SessionFits(session', Len(uploads)) /\ session'.status = "COMPLETED"
    BY <1>3, <2>1 DEF SessionFits, Statuses
  <2>3. OneRecord'
    BY <1>1, <1>2, <2>1, <2>2 DEF OneRecord, store, Parts
  <2>4. /\ LocalFits(Len(uploads), "dropLedger", loc[p]) /\ ~HoldsRow("dropLedger")
        /\ "dropLedger" \in Labels /\ session'.status \in Statuses \ (Transferring \cup {"NONE"})
        /\ StageFits(session'.status, object, "dropLedger")
    BY <1>3, <2>2 DEF LocalFits, OnUpload, OfChunk, HoldsRow, Labels, Statuses, Transferring, StageFits
  <2> QED
    BY <1>1, <1>2, <2>1, <2>2, <2>3, <2>4, EndingStep
<1>5. CASE RecordFails(p) /\ session' = [session EXCEPT !.status = "FAILED"]
  <2>1. Goto(p, "idle", NoCall) /\ records' = records
    BY <1>5 DEF RecordFails, Finish
  <2>2. SessionFits(session', Len(uploads)) /\ session'.status = "FAILED"
    BY <1>2, <1>3, <1>5, StatusStep DEF Statuses
  <2>3. OneRecord'
    BY <1>3, <2>1, <2>2 DEF OneRecord
  <2>4. /\ LocalFits(Len(uploads), "idle", NoCall) /\ ~HoldsRow("idle") /\ "idle" \in Labels
        /\ StageFits("FAILED", object, "idle")
    BY Rests
  <2>5. session'.status \in Statuses \ (Transferring \cup {"NONE"})
    BY <2>2 DEF Statuses, Transferring
  <2> QED
    BY <1>1, <1>2, <1>3, <2>1, <2>2, <2>3, <2>4, <2>5, EndingStep
<1>6. CASE RecordFails(p) /\ session' = session
  BY <1>1, <1>6, FinishStep DEF RecordFails, rows
<1> QED
  BY <1>4, <1>5, <1>6 DEF RecordFails

\* The ledger of an ended session is dropped: once for its record, once to release it.
LEMMA LedgerStep ==
    ASSUME IInv, NEW p \in Requests, NEW label \in {"idle", "abort"}, NEW l, Goto(p, label, l),
           ledger' = {}, UNCHANGED <<session, records, expired, store>>,
           session.status \notin Transferring \cup {"NONE"},
           label = "abort" => l.upload \in 1..Len(uploads),
           UploadReleased => UploadReleased'
    PROVE  IInv'
<1>1. /\ session' = session /\ records' = records /\ expired' = expired /\ uploads' = uploads
      /\ object' = object /\ scene' = scene /\ Len(uploads) \in Nat /\ uploads \in UploadsType
  BY At DEF store, Goto
<1>2. RowsFit'
  <2>1. TypeOK'
    <3>1. /\ expired \in BOOLEAN /\ object \subseteq 1..Parts /\ records \in Nat
          /\ SessionFits(session, Len(uploads))
      BY TypeParts DEF IInv, RowsFit
    <3> QED
      BY <1>1, <3>1, TypeNext
  <2>2. OffsetIsStored' /\ ObjectWhole' /\ Unstarted' /\ OneRecord'
    BY <1>1 DEF IInv, RowsFit, OffsetIsStored, ObjectWhole, Unstarted, OneRecord, Parts
  <2> QED
    BY <2>1, <2>2 DEF RowsFit
<1>3. LocalsFit' /\ OneHolder' /\ OneClaim' /\ scene' \in Scenes
  <2>1. /\ \A q \in Requests : HolderFits(session, uploads, pc[q], loc[q])
        /\ \A q \in Requests : StageFits(session.status, object, pc[q])
    BY DEF IInv, OneHolder, OneClaim
  <2>2. /\ LocalFits(Len(uploads), label, l) /\ HolderFits(session, uploads, label, l)
        /\ StageFits(session.status, object, label) /\ ~HoldsRow(label)
        /\ label \in Labels \ {"record"}
    BY DEF LocalFits, HolderFits, HoldsRow, StageFits, OnUpload, OfChunk, OfCompletion, Labels
  <2> QED
    BY <1>1, <2>1, <2>2, GotoStep
<1>4. Releasing'
  BY <1>1 DEF IInv, Releasing, LedgerReleased
<1> QED
  BY <1>2, <1>3, <1>4 DEF IInv

LEMMA DropLedgerStep ==
    ASSUME IInv, NEW p \in Requests, DropLedger(p)
    PROVE  IInv'
<1>1. /\ pc[p] = "dropLedger" /\ ledger' = {} /\ Goto(p, "idle", NoCall)
      /\ UNCHANGED <<session, records, expired, store>>
  BY DEF DropLedger, Finish
<1>2. session.status \notin Transferring \cup {"NONE"}
  BY <1>1, At DEF StageFits
<1>3. UploadReleased => UploadReleased'
  <2>1. \A q \in Requests : pc[q] \in {"release", "abort"} => pc'[q] = pc[q] /\ loc'[q] = loc[q]
    BY <1>1 DEF Goto, IInv, LocalsFit
  <2> QED
    BY <1>1, <2>1 DEF UploadReleased, store
<1> QED
  BY <1>1, <1>2, <1>3, LedgerStep

LEMMA ReleaseLedgerStep ==
    ASSUME IInv, NEW p \in Requests, ReleaseLedger(p)
    PROVE  IInv'
<1>1. /\ pc[p] = "release" /\ ledger' = {} /\ UNCHANGED <<session, records, expired, store>>
      /\ IF loc[p].upload = NoUpload THEN Goto(p, "idle", NoCall) ELSE Goto(p, "abort", loc[p])
  BY DEF ReleaseLedger, Finish
<1>2. session.status \notin Transferring \cup {"NONE"}
  BY <1>1, At DEF StageFits
<1>3. loc[p].upload \in {NoUpload} \cup 1..Len(uploads)
  BY <1>1, At DEF LocalFits
<1>4. UploadReleased => UploadReleased'
  <2>1. \A q \in Requests \ {p} : pc'[q] = pc[q] /\ loc'[q] = loc[q]
    BY <1>1 DEF Goto, IInv, LocalsFit
  <2>2. loc[p].upload # NoUpload => pc'[p] = "abort" /\ loc'[p] = loc[p]
    BY <1>1 DEF Goto, IInv, LocalsFit
  <2>3. session' = session /\ uploads' = uploads
    BY <1>1 DEF store
  <2> QED
    BY <2>1, <2>2, <2>3 DEF UploadReleased
<1>5. CASE loc[p].upload = NoUpload
  BY <1>1, <1>2, <1>4, <1>5, LedgerStep
<1>6. CASE loc[p].upload # NoUpload
  BY <1>1, <1>2, <1>3, <1>4, <1>6, LedgerStep
<1> QED
  BY <1>5, <1>6

\* An aborted upload takes no more parts; where aborts fail nothing is promised.
LEMMA AbortStep ==
    ASSUME IInv, NEW p \in Requests, Abort(p)
    PROVE  IInv'
<1> DEFINE n == loc[p].upload
           v == [uploads[n] EXCEPT !.state = IF @ = "open" THEN "aborted" ELSE @]
<1>1. /\ pc[p] = "abort" /\ Goto(p, "idle", NoCall) /\ UNCHANGED <<rows, expired, object>>
      /\ uploads' = [uploads EXCEPT ![n] = v] \/ ("abort" \in scene.faults /\ uploads' = uploads)
  BY DEF Abort, Finish
<1>2. /\ n \in 1..Len(uploads) /\ uploads \in UploadsType /\ Len(uploads) \in Nat
      /\ SessionFits(session, Len(uploads))
  BY <1>1, At DEF LocalFits, OnUpload
<1>3. uploads[n] \in UploadType
  BY <1>2, UploadAt
<1>4. v \in UploadType /\ v.parts = uploads[n].parts /\ v.state # "open"
  BY <1>3 DEF UploadType
<1> HIDE DEF v, n
<1>5. /\ uploads' \in UploadsType /\ Len(uploads') = Len(uploads)
      /\ \A m \in 1..Len(uploads) : Grows(uploads[m], uploads'[m])
      /\ "abort" \in scene.faults \/ uploads'[n].state # "open"
  <2>1. CASE uploads' = [uploads EXCEPT ![n] = v]
    BY <1>2, <1>3, <1>4, <2>1, OneUpload DEF Grows
  <2>2. CASE "abort" \in scene.faults /\ uploads' = uploads
    BY <1>2, <2>2 DEF Grows
  <2> QED
    BY <1>1, <2>1, <2>2
<1>6. /\ session' = session /\ ledger' = ledger /\ records' = records /\ expired' = expired
      /\ object' = object /\ scene' = scene /\ Len(uploads') \in Nat /\ Len(uploads') >= Len(uploads)
  BY <1>1, <1>2, <1>5 DEF rows, Goto
<1>7. RowsFit'
  <2>1. TypeOK'
    <3>1. /\ expired \in BOOLEAN /\ object \subseteq 1..Parts /\ ledger \subseteq 1..Parts
          /\ records \in Nat
      BY TypeParts DEF IInv, RowsFit
    <3> QED
      BY <1>2, <1>5, <1>6, <3>1, TypeNext
  <2>2. OffsetIsStored'
    <3>1. session.upload \in {NoUpload} \cup 1..Len(uploads)
      BY <1>2 DEF SessionFits
    <3> QED
      BY <1>5, <1>6, <3>1 DEF IInv, RowsFit, OffsetIsStored, Grows
  <2>3. ObjectWhole' /\ Unstarted' /\ OneRecord'
    BY <1>6 DEF IInv, RowsFit, ObjectWhole, Unstarted, OneRecord, Parts
  <2> QED
    BY <2>1, <2>2, <2>3 DEF RowsFit
<1>8. LocalsFit' /\ OneHolder' /\ OneClaim' /\ scene' \in Scenes
  <2>1. \A q \in Requests \ {p} : HolderFits(session', uploads', pc[q], loc[q])
    <3> SUFFICES ASSUME NEW q \in Requests PROVE HolderFits(session, uploads', pc[q], loc[q])
      BY <1>6
    <3>1. HolderFits(session, uploads, pc[q], loc[q]) /\ LocalFits(Len(uploads), pc[q], loc[q])
      BY At
    <3>2. pc[q] = "commit" => uploads[loc[q].upload].parts \subseteq uploads'[loc[q].upload].parts
      BY <1>5, <3>1 DEF LocalFits, OnUpload, Grows
    <3> QED
      BY <3>1, <3>2 DEF HolderFits
  <2>2. \A q \in Requests : StageFits(session'.status, object', pc[q])
    BY <1>6 DEF IInv, OneClaim
  <2>3. /\ LocalFits(Len(uploads'), "idle", NoCall) /\ HolderFits(session', uploads', "idle", NoCall)
        /\ StageFits(session'.status, object', "idle") /\ ~HoldsRow("idle")
        /\ "idle" \in Labels
    BY Rests
  <2> QED
    BY <1>1, <1>2, <1>6, <2>1, <2>2, <2>3, GotoStep
<1>9. Releasing'
  <2> SUFFICES ASSUME session.status \in {"CANCELLED", "EXPIRED"},
                      scene.faults \cap {"abort", "crash"} = {}
               PROVE  LedgerReleased' /\ UploadReleased'
    BY <1>6 DEF Releasing
  <2>1. LedgerReleased /\ UploadReleased
    BY DEF IInv, Releasing
  <2>2. \A q \in Requests \ {p} : pc'[q] = pc[q] /\ loc'[q] = loc[q]
    BY <1>1 DEF Goto, IInv, LocalsFit
  <2>3. LedgerReleased'
    BY <1>1, <1>6, <2>1, <2>2 DEF LedgerReleased
  <2>4. UploadReleased'
    <3>1. CASE session.upload = NoUpload
      BY <1>6, <3>1 DEF UploadReleased
    <3>2. CASE session.upload # NoUpload /\ uploads[session.upload].state # "open"
      <4>1. session.upload \in 1..Len(uploads)
        BY <1>2, <3>2 DEF SessionFits
      <4> QED
        BY <1>5, <1>6, <3>2, <4>1 DEF UploadReleased, Grows
    <3>3. ASSUME NEW q \in Requests, pc[q] \in {"release", "abort"}, loc[q].upload = session.upload
          PROVE  UploadReleased'
      <4>1. CASE q = p
        <5>1. "abort" \notin scene.faults
          OBVIOUS
        <5> QED
          BY <1>5, <1>6, <3>3, <4>1, <5>1 DEF UploadReleased, n
      <4>2. CASE q # p
        BY <1>6, <2>2, <3>3, <4>2 DEF UploadReleased
      <4> QED
        BY <4>1, <4>2
    <3> QED
      BY <2>1, <3>1, <3>2, <3>3 DEF UploadReleased
  <2> QED
    BY <2>3, <2>4
<1> QED
  BY <1>7, <1>8, <1>9 DEF IInv

LEMMA CompleteIInv ==
    ASSUME IInv, NEW p \in Requests, CompleteStep(p)
    PROVE  IInv'
BY CompletionLooks, AssembleStep, FailStep, ClaimStep, RecordStep, DropLedgerStep DEF CompleteStep

-----------------------------------------------------------------------------
(* Creation, cancellation, the sweeper, the clock and crashes.             *)

LEMMA CreateStep ==
    ASSUME IInv, NEW p \in Requests, Create(p)
    PROVE  IInv'
<1>1. /\ expired' = expired /\ ledger' = ledger /\ records' = records /\ uploads' = uploads
      /\ object' = object /\ scene' = scene /\ pc' = pc /\ loc' = loc
  BY DEF Create, store
<1>2. CASE session.status # "NONE"
  <2>1. session' = session
    BY <1>2 DEF Create
  <2> QED
    BY <1>1, <2>1 DEF IInv, RowsFit, TypeOK, OffsetIsStored, ObjectWhole, OneRecord, Unstarted,
        LocalsFit, LocalFits, OneHolder, HoldsRow, HolderFits, OneClaim, StageFits,
        Releasing, LedgerReleased, UploadReleased, Parts
<1>3. CASE session.status = "NONE"
  <2>1. session' = [session EXCEPT !.status = "INITIATED"]
    BY <1>3 DEF Create
  <2>2. /\ SessionFits(session, Len(uploads)) /\ session.offset = 0 /\ session.upload = NoUpload
        /\ uploads \in UploadsType /\ expired \in BOOLEAN /\ ledger \subseteq 1..Parts
        /\ object \subseteq 1..Parts /\ records \in Nat
    BY <1>3, TypeParts DEF IInv, RowsFit, Unstarted
  <2>3. "INITIATED" \in Statuses \ {"COMPLETED"} /\ session.status # "COMPLETED"
    BY <1>3 DEF Statuses
  <2>4. /\ SessionFits(session', Len(uploads)) /\ session'.status = "INITIATED"
        /\ session'.offset = 0 /\ session'.upload = NoUpload
    BY <2>1, <2>2, <2>3, StatusStep
  <2>5. TypeOK'
    BY <1>1, <2>2, <2>4, TypeNext
  <2>6. OffsetIsStored' /\ ObjectWhole' /\ OneRecord' /\ Unstarted' /\ Releasing'
    BY <1>1, <1>3, <2>4
       DEF IInv, RowsFit, OffsetIsStored, ObjectWhole, OneRecord, Unstarted, Releasing, Parts
  <2>7. LocalsFit'
    BY <1>1 DEF IInv, LocalsFit, LocalFits, Parts
  <2>8. OneHolder'
    BY <1>1, <1>3 DEF IInv, OneHolder, HolderFits, HoldsRow, Transferring
  <2>9. OneClaim'
    <3>1. ASSUME NEW q \in Requests PROVE StageFits("INITIATED", object, pc[q])
      <4>1. StageFits("NONE", object, pc[q])
        BY <1>3, At
      <4> QED
        BY <4>1 DEF StageFits
    <3>2. ASSUME NEW q \in Requests PROVE StageFits(session.status, object, pc[q])'
      <4>1. StageFits(session'.status, object', pc'[q])
        BY <1>1, <2>4, <3>1
      <4>2. scene' = scene /\ Parts' = Parts
        BY <1>1 DEF Parts
      <4> QED
        BY <4>1, <4>2 DEF StageFits
    <3> QED
      BY <1>1, <3>2 DEF IInv, OneClaim
  <2> QED
    BY <1>1, <2>5, <2>6, <2>7, <2>8, <2>9 DEF IInv, RowsFit
<1> QED
  BY <1>2, <1>3

LEMMA CancelReadStep ==
    ASSUME IInv, NEW p \in Requests, CancelRead(p)
    PROVE  IInv'
<1>1. /\ pc[p] = "idle" /\ Goto(p, "cancel", [upload |-> session.upload])
      /\ UNCHANGED <<rows, expired, store>>
  BY DEF CancelRead, Begin
<1> QED
  BY <1>1, Rests, MoveStep

LEMMA SweepReadStep ==
    ASSUME IInv, NEW p \in Requests, SweepRead(p)
    PROVE  IInv'
<1>1. /\ pc[p] = "idle" /\ session.status \in Transferring /\ Goto(p, "expire", NoCall)
      /\ UNCHANGED <<rows, expired, store>>
  BY DEF SweepRead
<1>2. /\ LocalFits(Len(uploads), "expire", NoCall) /\ HolderFits(session, uploads, "expire", NoCall)
      /\ StageFits(session.status, object, "expire") /\ ~HoldsRow("expire")
      /\ "expire" \in Labels \ {"record"}
  BY <1>1 DEF LocalFits, HolderFits, HoldsRow, StageFits, OnUpload, OfChunk, OfCompletion, Labels, Transferring
<1> QED
  BY <1>1, <1>2, MoveStep

LEMMA EndIInv ==
    ASSUME IInv, NEW p \in Requests, EndStep(p)
    PROVE  IInv'
<1>1. CASE Cancel(p)
  <2>1. pc[p] = "cancel" /\ RowFree /\ UNCHANGED <<ledger, records, expired, store>>
    BY <1>1 DEF Cancel
  <2>2. CASE session.status \in Transferring
    BY <1>1, <2>1, <2>2, ReleaseNext DEF Cancel
  <2>3. CASE session.status \notin Transferring
    <3>1. Finish(p) /\ UNCHANGED <<rows, expired, store>>
      BY <1>1, <2>1, <2>3 DEF Cancel, rows
    <3> QED
      BY <2>1, <3>1, FinishStep
  <2> QED
    BY <2>2, <2>3
<1>2. CASE Expire(p)
  <2>1. /\ pc[p] = "expire" /\ RowFree /\ UNCHANGED <<ledger, records, expired, store>>
        /\ Goto(p, "release", [upload |-> session.upload])
    BY <1>2 DEF Expire
  <2>2. CASE session.status \in Transferring
    BY <1>2, <2>1, <2>2, ReleaseNext DEF Expire
  <2>3. CASE session.status \notin Transferring
    <3>1. UNCHANGED <<rows, expired, store>>
      BY <1>2, <2>1, <2>3 DEF Expire, rows
    <3>2. session.status # "NONE"
      BY <2>1, At DEF StageFits
    <3> QED
      BY <2>1, <2>3, <3>1, <3>2, ReleaseAgain
  <2> QED
    BY <2>2, <2>3
<1> QED
  BY <1>1, <1>2, ReleaseLedgerStep, AbortStep DEF EndStep

\* What a crash leaves behind is not promised to be released.
LEMMA CrashStep == ASSUME IInv, Crash PROVE IInv'
<1>1. /\ session' = session /\ expired' = expired /\ ledger' = ledger /\ records' = records
      /\ uploads' = uploads /\ object' = object /\ scene' = scene
      /\ pc' = [q \in Requests |-> "idle"] /\ loc' = [q \in Requests |-> NoCall]
      /\ "crash" \in scene.faults
  BY DEF Crash, rows, store
<1>2. RowsFit' /\ scene' \in Scenes
  BY <1>1 DEF IInv, RowsFit, TypeOK, OffsetIsStored, ObjectWhole, OneRecord, Unstarted, Parts
<1>3. LocalsFit' /\ OneHolder' /\ OneClaim'
  BY <1>1 DEF LocalsFit, LocalFits, OneHolder, HolderFits, HoldsRow, OneClaim, StageFits,
      OnUpload, OfChunk, OfCompletion, Labels
<1>4. Releasing'
  BY <1>1 DEF Releasing
<1> QED
  BY <1>2, <1>3, <1>4 DEF IInv

\* Nothing but the clock, or nothing at all, changes.
LEMMA ClockStep ==
    ASSUME IInv, UNCHANGED <<rows, store, scene, pc, loc>>, expired' \in BOOLEAN
    PROVE  IInv'
<1>1. /\ session' = session /\ ledger' = ledger /\ records' = records
      /\ uploads' = uploads /\ object' = object /\ scene' = scene /\ pc' = pc /\ loc' = loc
  BY DEF rows, store
<1>2. RowsFit' /\ scene' \in Scenes
  BY <1>1 DEF IInv, RowsFit, TypeOK, OffsetIsStored, ObjectWhole, OneRecord, Unstarted, Parts
<1>3. LocalsFit' /\ OneHolder' /\ OneClaim'
  BY <1>1 DEF IInv, LocalsFit, LocalFits, OneHolder, HolderFits, HoldsRow, OneClaim, StageFits, Parts
<1>4. Releasing'
  BY <1>1 DEF IInv, Releasing, LedgerReleased, UploadReleased
<1> QED
  BY <1>2, <1>3, <1>4 DEF IInv

LEMMA NextIInv == IInv /\ [Next]_vars => IInv'
<1> SUFFICES ASSUME IInv, [Next]_vars PROVE IInv'
  OBVIOUS
<1>1. CASE ClockPasses
  BY <1>1, ClockStep DEF ClockPasses
<1>2. CASE UNCHANGED vars
  BY <1>2, ClockStep DEF vars, IInv, RowsFit, TypeOK
<1> QED
  BY <1>1, <1>2, CrashStep, CreateStep, ChunkReadStep, CompleteReadStep, CancelReadStep, SweepReadStep,
     ChunkIInv, CompleteIInv, EndIInv DEF Next

LEMMA InvariantHolds == Spec => []IInv
BY InitIInv, NextIInv, PTL DEF Spec

-----------------------------------------------------------------------------
(* The results.                                                            *)

\* Who writes the status of a session that has ended?  A chunk that commits holds the
\* row of one that transfers, the claim is on one that is completing, and every other
\* update names the status it starts from.
LEMMA EndStays ==
    ASSUME IInv, [Next]_vars, session.status \in Terminal
    PROVE  session'.status = session.status
<1>1. \A p \in Requests : ~ChunkCommit(p)
  <2> SUFFICES ASSUME NEW p \in Requests, ChunkCommit(p) PROVE FALSE
    OBVIOUS
  <2>1. HoldsRow(pc[p]) /\ HolderFits(session, uploads, pc[p], loc[p])
    BY At DEF ChunkCommit, HoldsRow
  <2> QED
    BY <2>1 DEF HolderFits, Transferring, Terminal
<1>2. \A p \in Requests : ~Record(p) /\ ~RecordFails(p)
  BY ClaimAlone DEF Record, RecordFails, Terminal
<1>3. ASSUME NEW p \in Requests, ChunkStep(p) PROVE session' = session
  BY <1>1, <1>3 DEF ChunkStep, ChunkLock, ChunkLockTimeout, ChunkCreate, ChunkPart, ChunkPartFails,
      ChunkRollback, rows
<1>4. ASSUME NEW p \in Requests, CompleteStep(p) PROVE session' = session
  BY <1>2, <1>4 DEF CompleteStep, CompleteParts, Assemble, AssembleAgain, AssembleFails, Verify, Fail,
      FinalizeRead, Claim, Await, AwaitTimeout, DropLedger, rows, Terminal
<1>5. ASSUME NEW p \in Requests, EndStep(p) PROVE session' = session
  BY <1>5 DEF EndStep, Cancel, Expire, ReleaseLedger, Abort, rows, Terminal, Transferring
<1>6. ASSUME NEW p \in Requests, Create(p) PROVE session' = session
  BY <1>6 DEF Create, Terminal
<1>7. ASSUME NEW p \in Requests,
             (\E o \in 0..Parts - 1 : ChunkRead(p, o)) \/ CompleteRead(p) \/ CancelRead(p) \/ SweepRead(p)
      PROVE  session' = session
  BY <1>7 DEF ChunkRead, CompleteRead, CancelRead, SweepRead, rows
<1>8. CASE ClockPasses \/ Crash \/ UNCHANGED vars
  BY <1>8 DEF ClockPasses, Crash, vars, rows
<1> QED
  BY <1>3, <1>4, <1>5, <1>6, <1>7, <1>8 DEF Next

\* While a session takes chunks, the offset a client resumes from stands for parts that
\* are in the ledger and in the upload the session names: for any number of requests,
\* parts and calls, whatever the store, the database and the clock do.
THEOREM OffsetsAreStored == Spec => []OffsetIsStored
BY InvariantHolds, PTL DEF IInv, RowsFit

\* Racing completions, cancellations, sweeps and crashes leave one file record of a whole,
\* valid object or none; what an ended session held is released once its requests are
\* through; and a session ends once.
THEOREM SessionsAreSound == Spec => SessionSound
<1>1. IInv => TypeOK /\ OneRecord
  BY DEF IInv, RowsFit
<1>2. IInv => ReleasedAtEnd
  BY DEF IInv, Releasing, LedgerReleased, UploadReleased, ReleasedAtEnd
<1>3. IInv /\ [Next]_vars => [session.status \in Terminal => session'.status = session.status]_vars
  BY EndStays
<1> QED
  BY <1>1, <1>2, <1>3, InvariantHolds, PTL DEF Spec, SessionSound, EndIsFinal

-----------------------------------------------------------------------------
(* LocalParts, with one completion at a time: what it writes under the       *)
(* temporary name is its own, and complete when it is renamed.              *)

Contents == SUBSET (1..LastPart)

\* The temporary file t of a completion holds the parts it has copied.
AssemblyFits(t, held, label, l) ==
    /\ label = "copy" => /\ l \in [file : {t}, next : 1..LastPart]
                         /\ t # NoFile /\ held[t] = 1..l.next - 1
    /\ label \in {"size", "rename"} => t # NoFile /\ held[t] = 1..LastPart

DiskFits ==
    /\ inodes \in Seq(Contents)
    /\ tmp \in {NoFile} \cup DOMAIN inodes /\ final \in {NoFile} \cup DOMAIN inodes
    /\ tmp # NoFile => tmp # final

DiskInv ==
    /\ DiskFits /\ FinalIsWhole
    /\ DOMAIN diskPc = Completions /\ DOMAIN diskLoc = Completions
    /\ \A p \in Completions : AssemblyFits(tmp, inodes, diskPc[p], diskLoc[p])

OneAtATime == \A p, q \in Completions : p = q

\* The only completion goes on.
LEMMA Assembles ==
    ASSUME DiskInv, OneAtATime, NEW p \in Completions, NEW label, NEW l, DiskGoto(p, label, l)
    PROVE  /\ DOMAIN diskPc' = Completions /\ DOMAIN diskLoc' = Completions
           /\ \A q \in Completions : diskPc'[q] = label /\ diskLoc'[q] = l
BY DEF DiskInv, OneAtATime, DiskGoto

LEMMA PartFacts == LastPart \in Nat \ {0} /\ NoFile \notin Nat /\ 1..LastPart # {} /\ LastPart \in 1..LastPart
<1>1. LastPart \in 1..LastPart
  BY AssemblyAssumption
<1> QED
  BY <1>1, AssemblyAssumption

LEMMA OpenKeeps == ASSUME DiskInv, OneAtATime, NEW p \in Completions, Open(p) PROVE DiskInv'
<1> DEFINE l == [file |-> tmp', next |-> 1]
<1>1. DiskGoto(p, "copy", l) /\ final' = final
  BY DEF Open
<1>2. inodes \in Seq(Contents) /\ Len(inodes) \in Nat /\ {} \in Contents /\ DOMAIN inodes = 1..Len(inodes)
  BY DEF DiskInv, DiskFits, Contents
<1>3. /\ inodes' \in Seq(Contents) /\ tmp' \in DOMAIN inodes' /\ tmp' # NoFile /\ inodes'[tmp'] = {}
      /\ DOMAIN inodes \subseteq DOMAIN inodes' /\ tmp' # final
      /\ final # NoFile => inodes'[final] = inodes[final]
  <2>1. CASE tmp = NoFile
    <3>1. inodes' = Append(inodes, {}) /\ tmp' = Len(inodes) + 1
      BY <2>1 DEF Open
    <3> QED
      BY <1>2, <3>1, PartFacts DEF DiskInv, DiskFits
  <2>2. CASE tmp # NoFile
    <3>1. inodes' = [inodes EXCEPT ![tmp] = {}] /\ tmp' = tmp
      BY <2>2 DEF Open
    <3> QED
      BY <1>2, <2>2, <3>1 DEF DiskInv, DiskFits
  <2> QED
    BY <2>1, <2>2
<1>4. DiskFits' /\ FinalIsWhole'
  BY <1>1, <1>3 DEF DiskInv, DiskFits, FinalIsWhole
<1>5. 1 \in 1..LastPart /\ 1..1 - 1 = {}
  BY PartFacts
<1>6. AssemblyFits(tmp', inodes', "copy", l)
  BY <1>3, <1>5 DEF AssemblyFits
<1> HIDE DEF l
<1> QED
  BY <1>1, <1>4, <1>6, Assembles DEF DiskInv

LEMMA CopyKeeps == ASSUME DiskInv, OneAtATime, NEW p \in Completions, Copy(p) PROVE DiskInv'
<1> DEFINE l == diskLoc[p]
           m == [l EXCEPT !.next = @ + 1]
           label == IF l.next = LastPart THEN "size" ELSE "copy"
<1>1. /\ DiskGoto(p, label, m) /\ inodes' = [inodes EXCEPT ![l.file] = @ \cup {l.next}]
      /\ tmp' = tmp /\ final' = final
  BY DEF Copy
<1>2. /\ l \in [file : {tmp}, next : 1..LastPart] /\ tmp # NoFile /\ inodes[tmp] = 1..l.next - 1
  BY DEF Copy, DiskInv, AssemblyFits
<1>3. l.file = tmp /\ l.next \in 1..LastPart /\ tmp \in DOMAIN inodes /\ inodes \in Seq(Contents)
  BY <1>2 DEF DiskInv, DiskFits
<1>4. m.file = tmp /\ m.next = l.next + 1 /\ m = [file |-> tmp, next |-> l.next + 1]
  BY <1>2
<1>5. 1..l.next - 1 \cup {l.next} = 1..l.next /\ 1..l.next \in Contents
  BY <1>3, PartFacts DEF Contents
<1>6. inodes' = [inodes EXCEPT ![tmp] = 1..l.next]
  BY <1>1, <1>2, <1>3, <1>5
<1>7. /\ inodes' \in Seq(Contents) /\ DOMAIN inodes' = DOMAIN inodes /\ inodes'[tmp] = 1..l.next
      /\ \A i \in DOMAIN inodes : i # tmp => inodes'[i] = inodes[i]
  BY <1>3, <1>5, <1>6
<1>8. DiskFits' /\ FinalIsWhole'
  BY <1>1, <1>2, <1>7 DEF DiskInv, DiskFits, FinalIsWhole
<1>9. AssemblyFits(tmp', inodes', label, m)
  <2>1. CASE l.next = LastPart
    BY <1>1, <1>2, <1>7, <2>1 DEF AssemblyFits
  <2>2. CASE l.next # LastPart
    <3>1. l.next + 1 \in 1..LastPart /\ l.next + 1 - 1 = l.next
      BY <1>3, <2>2, PartFacts
    <3> QED
      BY <1>1, <1>2, <1>4, <1>7, <2>2, <3>1 DEF AssemblyFits
  <2> QED
    BY <2>1, <2>2
<1> HIDE DEF m, label
<1> QED
  BY <1>1, <1>8, <1>9, Assembles DEF DiskInv

LEMMA RenameKeeps == ASSUME DiskInv, OneAtATime, NEW p \in Completions, Rename(p) PROVE DiskInv'
<1>1. tmp # NoFile /\ inodes[tmp] = 1..LastPart
  BY DEF Rename, DiskInv, AssemblyFits
<1>2. DiskGoto(p, "remove", diskLoc[p]) /\ final' = tmp /\ tmp' = NoFile /\ inodes' = inodes
  BY <1>1 DEF Rename
<1>3. DiskFits' /\ FinalIsWhole'
  BY <1>1, <1>2 DEF DiskInv, DiskFits, FinalIsWhole
<1> QED
  BY <1>2, <1>3, Assembles DEF DiskInv, AssemblyFits

\* The steps that write nothing.
LEMMA OtherStepsKeep ==
    ASSUME DiskInv, OneAtATime, NEW p \in Completions,
           Stat(p) \/ StatParts(p) \/ CopyFails(p) \/ CheckSize(p) \/ RemoveStaged(p)
    PROVE  DiskInv'
<1>1. /\ UNCHANGED <<inodes, final>> /\ tmp' \in {tmp, NoFile}
      /\ \E label, l :
            /\ label \in {"idle", "parts", "open", "rename"} /\ DiskGoto(p, label, l)
            /\ label = "rename" => diskPc[p] = "size" /\ tmp' = tmp
  BY DEF Stat, StatParts, CopyFails, CheckSize, RemoveStaged, DiskFinish
<1>2. PICK label, l :
            /\ label \in {"idle", "parts", "open", "rename"} /\ DiskGoto(p, label, l)
            /\ label = "rename" => diskPc[p] = "size" /\ tmp' = tmp
  BY <1>1
<1>3. DiskFits' /\ FinalIsWhole'
  BY <1>1 DEF DiskInv, DiskFits, FinalIsWhole
<1>4. AssemblyFits(tmp', inodes', label, l)
  BY <1>1, <1>2 DEF DiskInv, AssemblyFits
<1> QED
  BY <1>2, <1>3, <1>4, Assembles DEF DiskInv

LEMMA DiskInvNext == ASSUME DiskInv, OneAtATime, [DiskNext]_diskVars PROVE DiskInv'
<1>1. CASE \E p \in Completions :
             \/ Stat(p) \/ StatParts(p) \/ Open(p) \/ Copy(p) \/ CopyFails(p)
             \/ CheckSize(p) \/ Rename(p) \/ RemoveStaged(p)
  BY <1>1, OpenKeeps, CopyKeeps, RenameKeeps, OtherStepsKeep
<1>2. CASE DiskCrash
  BY <1>2 DEF DiskCrash, DiskInv, DiskFits, FinalIsWhole, AssemblyFits
<1>3. CASE Stage \/ AbortDisk \/ UNCHANGED diskVars
  BY <1>3 DEF Stage, AbortDisk, diskVars, DiskInv, DiskFits, FinalIsWhole, AssemblyFits
<1> QED
  BY <1>1, <1>2, <1>3 DEF DiskNext

\* While one completion runs at a time, what stands under the final name is the whole file,
\* whichever parts are gone when they are copied, whatever is cancelled and wherever the
\* process stops (LocalMultipartStorage).
THEOREM AssembledIsWhole == ASSUME OneAtATime PROVE DiskSpec => []FinalIsWhole
<1>1. DiskInit => DiskInv
  BY DEF DiskInit, DiskInv, DiskFits, FinalIsWhole, AssemblyFits
<1>2. DiskInv /\ [DiskNext]_diskVars => DiskInv'
  BY DiskInvNext
<1>3. DiskInv => FinalIsWhole
  BY DEF DiskInv
<1> QED
  BY <1>1, <1>2, <1>3, PTL DEF DiskSpec
=============================================================================
