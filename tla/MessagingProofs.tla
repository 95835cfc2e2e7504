--------------------------- MODULE MessagingProofs ----------------------------
(***************************************************************************)
(* Proofs about what carries a message and its files: MediaJobs,             *)
(* ChatMessages and ServerLifecycle, one after the other.                   *)
(***************************************************************************)
EXTENDS MediaJobs, ChatMessages, ServerLifecycle, TLAPS, FiniteSetTheorems, SequenceTheorems

-----------------------------------------------------------------------------
(***************************************************************************)
(* MediaJobs, for any uploads, attempts and careful files.  Where the bytes  *)
(* are depends on which attempt has come how far: nobody takes an object     *)
(* away that the row names, because the only attempt that cleans up is the  *)
(* only one there is, and a deletion that took it takes the row too.        *)
(***************************************************************************)

Holding(w) == mediaPc[w] \notin {"idle", "claim"}
Intact == Exists /\ \A p \in Uploaders : mediaPc[p] # "deleteRow"

\* Where an upload and an attempt may be.
Places ==
    /\ DOMAIN mediaPc = Uploaders \cup Workers /\ DOMAIN mediaLoc = Uploaders \cup Workers
    /\ \A p \in Uploaders :
          mediaPc[p] \in {"idle", "create", "mark", "trigger", "deleteObject", "deleteRow"}
    /\ \A w \in Workers : mediaPc[w] # "idle" => mediaLoc[w] \in [left : 1..Attempts, key : {"original", "derived"}]

\* Nothing is known of a file that has no row, and there is one upload of it.
Uploading ==
    /\ row.status = "NONE" =>
          /\ row = NoRow /\ ~known /\ jobs = <<>>
          /\ \A p \in Uploaders : mediaPc[p] \in {"idle", "create"}
          /\ \A w \in Workers : mediaPc[w] = "idle"
    /\ \A p \in Uploaders :
          /\ mediaPc[p] = "create" => file.route = "direct" /\ row = NoRow /\ objects = {"original"}
          /\ mediaPc[p] \in {"deleteObject", "deleteRow"} => "delete" \in file.handlers
    /\ \A p, q \in Uploaders : mediaPc[p] = "create" /\ mediaPc[q] = "create" => p = q
    /\ file.encoded /\ (row.status # "NONE" \/ \E p \in Uploaders : mediaPc[p] = "create") => file.good
    /\ attached # <<>> => "attach" \in file.handlers

\* Without a repeated completion the file is marked once and one attempt holds it.
OneAttempt ==
    "repeat" \notin file.handlers =>
        /\ \A p \in Uploaders : mediaPc[p] = "mark" => row.status \in {"READY", "GONE"} /\ ~row.processed
        /\ \A p, q \in Uploaders : mediaPc[p] = "mark" /\ mediaPc[q] = "mark" => p = q
        /\ row.processed => row.status \in {"READY", "GONE"}
        /\ \A w \in Workers : Holding(w) => row.status \in {"PROCESSING", "GONE"}
        /\ \A v, w \in Workers : Holding(v) /\ Holding(w) => v = w

\* What an attempt has found out.
FoundOut ==
    /\ row.processed => file.good
    /\ \A w \in Workers :
          /\ mediaPc[w] \in {"derive", "verify", "drop", "ready"} => file.good
          /\ mediaPc[w] \in {"derive", "verify", "drop"} => file.kind = "image"
          /\ mediaPc[w] \in {"reject", "rejectRow"} => ~file.good

\* An image that came re-encoded is never processed.
EncodedRests ==
    file.encoded =>
        /\ row.status \in {"NONE", "READY", "GONE"} /\ jobs = <<>>
        /\ \A p \in Uploaders : mediaPc[p] # "trigger"
        /\ \A w \in Workers : mediaPc[w] = "idle"

\* Where the bytes are, unless a deletion has taken them.
InStore ==
    file.good /\ Intact =>
        IF file.kind = "sound" \/ file.encoded
        THEN row.key = "original" /\ "original" \in objects
        ELSE /\ row.processed => row.key = "derived" /\ "derived" \in objects
             /\ \A w \in Workers : mediaPc[w] \in {"drop", "ready"} => "derived" \in objects

\* A client that knows a file may attach it, and then it was told after the mark.
ToldLate ==
    /\ UnmarkedBriefly
    /\ NamedLate(file) =>
          /\ AttachedWasProcessed
          /\ "attach" \in file.handlers /\ ~file.encoded =>
                /\ known /\ row.status = "READY" => row.processed
                /\ \A p \in Uploaders : mediaPc[p] = "mark" => ~known

MediaInv ==
    /\ file \in Files /\ Careful(file) /\ MediaTypeOK
    /\ Places /\ Uploading /\ OneAttempt /\ FoundOut /\ EncodedRests /\ InStore /\ ToldLate

-----------------------------------------------------------------------------

LEMMA Moves ==
    ASSUME MediaInv, NEW p \in Uploaders \cup Workers, NEW label, NEW l, MediaGoto(p, label, l)
    PROVE  /\ DOMAIN mediaPc' = Uploaders \cup Workers /\ DOMAIN mediaLoc' = Uploaders \cup Workers
           /\ mediaPc'[p] = label /\ mediaLoc'[p] = l
           /\ \A q \in Uploaders \cup Workers : q # p => mediaPc'[q] = mediaPc[q] /\ mediaLoc'[q] = mediaLoc[q]
           /\ file' = file
BY MediaAssumption DEF MediaInv, Places, MediaGoto

LEMMA FileFacts ==
    ASSUME MediaInv
    PROVE  /\ file.kind \in {"image", "sound"} /\ file.route \in {"session", "direct"}
           /\ file.good \in BOOLEAN /\ file.encoded \in BOOLEAN
           /\ Uploaders \cap Workers = {} /\ Attempts \in Nat \ {0}
           /\ file \in Files /\ Careful(file)
BY MediaAssumption DEF MediaInv

Rows == [status : {"NONE", "GONE", "READY", "PENDING", "PROCESSING", "FAILED", "REJECTED"},
         processed : BOOLEAN, key : {"original", "derived"}]
Claims == [left : 1..Attempts, key : {"original", "derived"}]

\* The step of an attempt, of a file that is processed.
WorkerFrame(w, label, l) ==
    /\ MediaGoto(w, label, l) /\ UNCHANGED <<attached, known>>
    /\ row.status # "NONE" /\ ~file.encoded
    /\ mediaFaults' \in Nat /\ jobs' \in Seq(1..Attempts)
    /\ row' \in Rows /\ objects' \subseteq {"original", "derived"}
    /\ label # "idle" => l \in Claims
    /\ \/ row' = row
       \/ Exists /\ row'.status \notin {"NONE", "GONE"} /\ (row'.status = "READY" => row'.processed)
WorkerAlone(w, label) ==
    "repeat" \notin file.handlers =>
        /\ row' # row => row.status \notin {"READY", "GONE"} /\ (row'.processed => row'.status = "READY")
        /\ row' # row \/ label \notin {"idle", "claim"} => \A v \in Workers : Holding(v) => v = w
        /\ label \notin {"idle", "claim"} => row'.status \in {"PROCESSING", "GONE"}
WorkerFinds(label) ==
    /\ row'.processed => file.good
    /\ label \in {"derive", "verify", "drop", "ready"} => file.good
    /\ label \in {"derive", "verify", "drop"} => file.kind = "image"
    /\ label \in {"reject", "rejectRow"} => ~file.good

LEMMA WorkerStep ==
    ASSUME MediaInv, NEW w \in Workers, NEW label, NEW l,
           WorkerFrame(w, label, l), WorkerAlone(w, label), WorkerFinds(label), InStore'
    PROVE  MediaInv'
<1>0. MediaGoto(w, label, l) /\ w \in Uploaders \cup Workers /\ w \notin Uploaders
  BY FileFacts DEF WorkerFrame
<1>1. /\ mediaPc'[w] = label /\ mediaLoc'[w] = l /\ file' = file
      /\ DOMAIN mediaPc' = Uploaders \cup Workers /\ DOMAIN mediaLoc' = Uploaders \cup Workers
      /\ \A v \in Workers : v # w => mediaPc'[v] = mediaPc[v] /\ mediaLoc'[v] = mediaLoc[v]
      /\ \A p \in Uploaders : mediaPc'[p] = mediaPc[p]
  BY <1>0, Moves
<1>2. file' \in Files /\ Careful(file)' /\ MediaTypeOK'
  BY <1>1 DEF MediaInv, MediaTypeOK, Careful, WorkerFrame, Rows
<1>3. Places'
  BY <1>1 DEF MediaInv, Places, WorkerFrame, Claims
<1>4. row'.status # "NONE" /\ (row' = NoRow => row = NoRow)
  BY DEF WorkerFrame, NoRow
<1>5. Uploading'
  <2>1. \A p \in Uploaders : mediaPc[p] # "create"
    BY DEF MediaInv, Uploading, WorkerFrame, NoRow
  <2> QED
    BY <1>1, <1>4, <2>1 DEF MediaInv, Uploading, WorkerFrame
<1>6. OneAttempt'
  BY <1>1, <1>4 DEF MediaInv, OneAttempt, WorkerAlone, WorkerFrame, Exists, Holding
<1>7. FoundOut'
  BY <1>1 DEF MediaInv, FoundOut, WorkerFinds
<1>8. EncodedRests'
  BY <1>1 DEF EncodedRests, WorkerFrame
<1>9. ToldLate'
  BY <1>1, <1>4 DEF MediaInv, ToldLate, NamedLate, AttachedWasProcessed, UnmarkedBriefly, WorkerFrame
<1> QED
  BY <1>2, <1>3, <1>5, <1>6, <1>7, <1>8, <1>9 DEF MediaInv

LEMMA WorkerStores ==
    ASSUME MediaInv, NEW w \in Workers, NEW label, NEW l, MediaGoto(w, label, l),
           row'.processed = row.processed, row'.key = row.key, Exists' => Exists, objects \subseteq objects',
           label \in {"drop", "ready"} => file.kind = "sound" \/ "derived" \in objects'
    PROVE  InStore'
<1>1. /\ mediaPc'[w] = label /\ file' = file
      /\ \A v \in Workers : v # w => mediaPc'[v] = mediaPc[v]
      /\ \A p \in Uploaders : mediaPc'[p] = mediaPc[p]
  BY Moves, FileFacts
<1> QED
  BY <1>1, FileFacts DEF MediaInv, InStore, Intact

\* A busy attempt, or a job, is one of a file with a row that is not re-encoded.
LEMMA Working ==
    ASSUME MediaInv, NEW w \in Workers, mediaPc[w] # "idle" \/ jobs # <<>>
    PROVE  /\ row.status # "NONE" /\ ~file.encoded /\ row \in Rows /\ objects \subseteq {"original", "derived"}
           /\ mediaFaults \in Nat /\ \A f : MediaFault(f) => mediaFaults' \in Nat /\ f \in file.faults
           /\ mediaPc[w] # "idle" => mediaLoc[w] \in Claims
           /\ jobs \in Seq(1..Attempts)
BY FileFacts DEF MediaInv, MediaTypeOK, Places, Uploading, EncodedRests, MediaFault, Rows, Claims

LEMMA JobFacts ==
    ASSUME NEW S, NEW q \in Seq(S)
    PROVE  /\ q # <<>> => Head(q) \in S /\ Tail(q) \in Seq(S)
           /\ \A x \in S : Append(q, x) \in Seq(S)
OBVIOUS

\* A job that is handed back keeps its count.
LEMMA AgainKeeps ==
    ASSUME MediaInv, NEW w \in Workers, mediaPc[w] # "idle", Again(w)
    PROVE  jobs' \in Seq(1..Attempts) /\ MediaGoto(w, "idle", NoWork)
<1>1. mediaLoc[w].left \in 1..Attempts /\ Attempts \in Nat /\ jobs \in Seq(1..Attempts)
  BY Working, FileFacts DEF Claims
<1>2. mediaLoc[w].left > 1 => mediaLoc[w].left - 1 \in 1..Attempts
  BY <1>1
<1>3. mediaLoc[w].left > 1 => Append(jobs, mediaLoc[w].left - 1) \in Seq(1..Attempts)
  BY <1>1, <1>2, JobFacts
<1> QED
  BY <1>1, <1>3 DEF Again, MediaFinish

LEMMA TakeKeeps == ASSUME MediaInv, NEW w \in Workers, Take(w) PROVE MediaInv'
<1> DEFINE done == ~Exists \/ row.status = "REJECTED" \/ (row.status = "READY" /\ row.processed)
           label == IF done THEN "idle" ELSE "claim"
           l == IF done THEN NoWork ELSE [left |-> Head(jobs), key |-> row.key]
<1>1. MediaGoto(w, label, l)
  BY DEF Take, MediaFinish
<1>2. Head(jobs) \in 1..Attempts /\ Tail(jobs) \in Seq(1..Attempts) /\ row.key \in {"original", "derived"}
  <2>1. jobs \in Seq(1..Attempts) /\ jobs # <<>> /\ row \in Rows
    BY Working DEF Take
  <2> QED
    BY <2>1, JobFacts DEF Rows
<1>3. WorkerFrame(w, label, l)
  <2>1. /\ row.status # "NONE" /\ ~file.encoded /\ row \in Rows /\ objects \subseteq {"original", "derived"}
        /\ mediaFaults \in Nat
    BY Working DEF Take
  <2>2. label # "idle" => l \in Claims
    BY <1>2 DEF Claims
  <2> QED
    BY <1>1, <1>2, <2>1, <2>2 DEF Take, WorkerFrame, NoMediaFault
<1>4. WorkerAlone(w, label) /\ WorkerFinds(label)
  BY DEF Take, WorkerAlone, WorkerFinds, MediaInv, FoundOut
<1>5. InStore'
  BY <1>1, WorkerStores DEF Take, Exists
<1> QED
  BY <1>3, <1>4, <1>5, WorkerStep

LEMMA ClaimFileKeeps == ASSUME MediaInv, NEW w \in Workers, ClaimFile(w) PROVE MediaInv'
<1>1. CASE /\ row.status \in {"PENDING", "FAILED"} /\ NoMediaFault
           /\ row' = [row EXCEPT !.status = "PROCESSING"]
           /\ MediaGoto(w, "check", mediaLoc[w]) /\ UNCHANGED jobs
  <2>1. WorkerFrame(w, "check", mediaLoc[w])
    BY <1>1, Working DEF ClaimFile, WorkerFrame, Rows, Exists, NoMediaFault
  <2>2. WorkerAlone(w, "check")
    BY <1>1, Working DEF WorkerAlone, MediaInv, OneAttempt, Rows
  <2>3. WorkerFinds("check")
    BY <1>1, Working DEF ClaimFile, WorkerFinds, MediaInv, FoundOut, Rows
  <2>4. InStore'
    BY <1>1, Working, WorkerStores DEF ClaimFile, Exists, Rows
  <2> QED
    BY <2>1, <2>2, <2>3, <2>4, WorkerStep
<1>2. CASE /\ \/ row.status \notin {"PENDING", "FAILED"} /\ NoMediaFault
              \/ MediaFault("db")
           /\ IF row.status \in {"READY", "REJECTED"} THEN MediaFinish(w) /\ UNCHANGED jobs ELSE Again(w)
           /\ UNCHANGED row
  <2>1. /\ MediaGoto(w, "idle", NoWork) /\ jobs' \in Seq(1..Attempts) /\ mediaFaults' \in Nat
        /\ UNCHANGED <<row, objects, attached, known>>
    BY <1>2, Working, AgainKeeps DEF ClaimFile, MediaFinish, NoMediaFault
  <2>2. WorkerFrame(w, "idle", NoWork)
    <3>1. /\ row.status # "NONE" /\ ~file.encoded /\ row \in Rows /\ objects \subseteq {"original", "derived"}
      BY Working DEF ClaimFile
    <3> QED
      BY <2>1, <3>1 DEF WorkerFrame
  <2>4. WorkerAlone(w, "idle") /\ WorkerFinds("idle")
    BY <2>1 DEF WorkerAlone, WorkerFinds, MediaInv, FoundOut
  <2>3. InStore'
    BY <2>1, WorkerStores DEF Exists
  <2> QED
    BY <2>2, <2>3, <2>4, WorkerStep
<1> QED
  BY <1>1, <1>2 DEF ClaimFile

\* An attempt goes on, and the row stays as it is.
LEMMA AttemptGoes ==
    ASSUME MediaInv, NEW w \in Workers, Holding(w), NEW label, MediaGoto(w, label, mediaLoc[w]),
           UNCHANGED <<row, attached, known, jobs>>, mediaFaults' \in Nat,
           objects' \subseteq {"original", "derived"}, WorkerFinds(label), InStore'
    PROVE  MediaInv'
<1>1. WorkerFrame(w, label, mediaLoc[w])
  BY Working DEF WorkerFrame, Holding
<1>2. WorkerAlone(w, label)
  BY DEF WorkerAlone, MediaInv, OneAttempt
<1> QED
  BY <1>1, <1>2, WorkerStep

\* Its row changes its status, and the attempt ends.
LEMMA AttemptEnds ==
    ASSUME MediaInv, NEW w \in Workers, Holding(w), MediaGoto(w, "idle", NoWork),
           UNCHANGED <<attached, known, objects>>, mediaFaults' \in Nat, jobs' \in Seq(1..Attempts),
           NEW verdict \in {"FAILED", "REJECTED"}, row' = row \/ row' = Marked(verdict)
    PROVE  MediaInv'
<1>1. row \in Rows /\ row.status # "NONE" /\ ~file.encoded /\ objects \subseteq {"original", "derived"}
  BY Working DEF Holding
<1>2. \/ row' = row
      \/ Exists /\ row' = [row EXCEPT !.status = verdict]
  BY DEF Marked
<1>3. WorkerFrame(w, "idle", NoWork)
  BY <1>1, <1>2 DEF WorkerFrame, Rows
<1>4. WorkerAlone(w, "idle")
  BY <1>1, <1>2 DEF WorkerAlone, MediaInv, OneAttempt, Rows, Exists
<1>5. WorkerFinds("idle")
  BY <1>1, <1>2 DEF WorkerFinds, MediaInv, FoundOut, Rows
<1>6. InStore'
  BY <1>1, <1>2, WorkerStores DEF Exists, Rows
<1> QED
  BY <1>3, <1>4, <1>5, <1>6, WorkerStep

LEMMA InspectKeeps == ASSUME MediaInv, NEW w \in Workers, Inspect(w) PROVE MediaInv'
<1>1. PICK label \in {"ready", "reject", "fail"} :
         /\ MediaGoto(w, label, mediaLoc[w])
         /\ label = "ready" => file.good
         /\ label = "reject" => ~file.good
  BY FileFacts DEF Inspect
<1>2. /\ Holding(w) /\ file.kind = "sound" /\ UNCHANGED <<row, objects, attached, known, jobs>>
      /\ mediaFaults' \in Nat /\ objects' \subseteq {"original", "derived"}
  BY Working DEF Inspect, Holding, NoMediaFault
<1>3. WorkerFinds(label)
  BY <1>1, <1>2 DEF WorkerFinds, MediaInv, FoundOut
<1>4. InStore'
  BY <1>1, <1>2, WorkerStores DEF Exists
<1> QED
  BY <1>1, <1>2, <1>3, <1>4, AttemptGoes

LEMMA DownloadKeeps == ASSUME MediaInv, NEW w \in Workers, Download(w) PROVE MediaInv'
<1>1. PICK label \in {"derive", "reject", "fail"} :
         /\ MediaGoto(w, label, mediaLoc[w])
         /\ label = "derive" => file.good
         /\ label = "reject" => ~file.good
  BY FileFacts DEF Download
<1>2. /\ Holding(w) /\ file.kind = "image" /\ UNCHANGED <<row, objects, attached, known, jobs>>
      /\ mediaFaults' \in Nat /\ objects' \subseteq {"original", "derived"}
  BY Working DEF Download, Holding, NoMediaFault
<1>3. WorkerFinds(label)
  BY <1>1, <1>2 DEF WorkerFinds, MediaInv, FoundOut
<1>4. InStore'
  BY <1>1, <1>2, WorkerStores DEF Exists
<1> QED
  BY <1>1, <1>2, <1>3, <1>4, AttemptGoes

LEMMA DeriveKeeps == ASSUME MediaInv, NEW w \in Workers, Derive(w) PROVE MediaInv'
<1>1. PICK label \in {"verify", "fail"} : MediaGoto(w, label, mediaLoc[w])
  BY DEF Derive
<1>2. /\ Holding(w) /\ UNCHANGED <<row, attached, known, jobs>>
      /\ mediaFaults' \in Nat /\ objects' \subseteq {"original", "derived"} /\ objects \subseteq objects'
  BY Working DEF Derive, Holding, NoMediaFault
<1>3. WorkerFinds(label)
  BY <1>1, <1>2 DEF Derive, WorkerFinds, MediaInv, FoundOut
<1>4. InStore'
  BY <1>1, <1>2, WorkerStores DEF Exists
<1> QED
  BY <1>1, <1>2, <1>3, <1>4, AttemptGoes

\* The derived object is taken away again only by the one attempt there is, before the
\* row names it.
LEMMA VerifyDerivedKeeps == ASSUME MediaInv, NEW w \in Workers, VerifyDerived(w) PROVE MediaInv'
<1>1. PICK label \in {"drop", "fail"} :
         /\ MediaGoto(w, label, mediaLoc[w])
         /\ \/ objects' = objects /\ (label = "drop" => "derived" \in objects)
            \/ label = "fail" /\ "store" \in file.faults /\ objects' = objects \ {"derived"}
  BY Working DEF VerifyDerived
<1>2. /\ Holding(w) /\ UNCHANGED <<row, attached, known, jobs>>
      /\ mediaFaults' \in Nat /\ objects' \subseteq {"original", "derived"}
  BY Working DEF VerifyDerived, Holding, NoMediaFault
<1>3. WorkerFinds(label)
  BY <1>1, <1>2 DEF VerifyDerived, WorkerFinds, MediaInv, FoundOut
<1>4. InStore'
  <2>1. CASE objects' = objects /\ (label = "drop" => "derived" \in objects)
    BY <1>1, <1>2, <2>1, WorkerStores DEF Exists
  <2>2. CASE label = "fail" /\ "store" \in file.faults /\ objects' = objects \ {"derived"}
    <3>1. "repeat" \notin file.handlers /\ file.kind = "image" /\ ~file.encoded
      BY <2>2, Working DEF VerifyDerived, MediaInv, Careful, FoundOut
    <3>2. mediaPc'[w] = "fail" /\ file' = file /\ \A v \in Workers : v # w => mediaPc'[v] = mediaPc[v]
      BY <1>1, <2>2, Moves
    <3>3. Intact' => ~row'.processed /\ \A v \in Workers : mediaPc'[v] \notin {"drop", "ready"}
      BY <1>2, <3>1, <3>2 DEF MediaInv, OneAttempt, Intact, Exists, Holding
    <3> QED
      BY <3>1, <3>2, <3>3 DEF InStore
  <2> QED
    BY <1>1, <2>1, <2>2
<1> QED
  BY <1>1, <1>2, <1>3, <1>4, AttemptGoes

LEMMA DropSourceKeeps == ASSUME MediaInv, NEW w \in Workers, DropSource(w) PROVE MediaInv'
<1>1. MediaGoto(w, "ready", mediaLoc[w]) /\ "derived" \in objects => "derived" \in objects'
  BY DEF DropSource
<1>2. /\ Holding(w) /\ UNCHANGED <<row, attached, known, jobs>> /\ MediaGoto(w, "ready", mediaLoc[w])
      /\ mediaFaults' \in Nat /\ objects' \subseteq {"original", "derived"}
  BY Working DEF DropSource, Holding, NoMediaFault
<1>3. WorkerFinds("ready") /\ file.kind = "image" /\ file.good /\ ~file.encoded
  BY <1>2, Working DEF DropSource, WorkerFinds, MediaInv, FoundOut
<1>4. InStore'
  <2>1. /\ mediaPc'[w] = "ready" /\ file' = file /\ \A v \in Workers : v # w => mediaPc'[v] = mediaPc[v]
        /\ \A p \in Uploaders : mediaPc'[p] = mediaPc[p]
    BY <1>2, Moves, FileFacts
  <2> QED
    BY <1>1, <1>2, <1>3, <2>1 DEF DropSource, MediaInv, InStore, Intact, Exists
<1> QED
  BY <1>2, <1>3, <1>4, AttemptGoes

LEMMA ReadyKeeps == ASSUME MediaInv, NEW w \in Workers, Ready(w) PROVE MediaInv'
<1>1. Holding(w) /\ row \in Rows /\ file.good /\ ~file.encoded /\ objects \subseteq {"original", "derived"}
  BY Working DEF Ready, Holding, MediaInv, FoundOut
<1>2. CASE UNCHANGED row /\ MediaGoto(w, "fail", mediaLoc[w])
  <2>1. WorkerFinds("fail") /\ UNCHANGED <<row, objects, attached, known, jobs>> /\ mediaFaults' \in Nat
    BY <1>1, <1>2, Working DEF Ready, NoMediaFault, WorkerFinds, MediaInv, FoundOut
  <2>2. InStore'
    BY <1>2, <2>1, WorkerStores DEF Exists
  <2> QED
    BY <1>1, <1>2, <2>1, <2>2, AttemptGoes
<1>3. CASE /\ Exists /\ NoMediaFault
           /\ row' = [status |-> "READY", processed |-> TRUE,
                      key |-> IF file.kind = "image" THEN "derived" ELSE row.key]
           /\ MediaFinish(w)
  <2>1. MediaGoto(w, "idle", NoWork) /\ UNCHANGED <<objects, attached, known, jobs>>
    BY <1>3 DEF Ready, MediaFinish
  <2>2. WorkerFrame(w, "idle", NoWork)
    BY <1>1, <1>3, <2>1, Working DEF Ready, WorkerFrame, Rows, NoMediaFault
  <2>3. WorkerAlone(w, "idle") /\ WorkerFinds("idle")
    BY <1>1, <1>3 DEF WorkerAlone, WorkerFinds, MediaInv, OneAttempt, Exists
  <2>4. InStore'
    <3>1. /\ mediaPc'[w] = "idle" /\ file' = file /\ \A v \in Workers : v # w => mediaPc'[v] = mediaPc[v]
          /\ \A p \in Uploaders : mediaPc'[p] = mediaPc[p]
      BY <2>1, Moves, FileFacts
    <3>2. Intact' => Intact
      BY <1>3, <3>1 DEF Intact, Exists
    <3> QED
      BY <1>1, <1>3, <2>1, <3>1, <3>2, FileFacts DEF Ready, MediaInv, InStore
  <2> QED
    BY <2>2, <2>3, <2>4, WorkerStep
<1> QED
  BY <1>2, <1>3 DEF Ready

LEMMA RejectObjectKeeps == ASSUME MediaInv, NEW w \in Workers, RejectObject(w) PROVE MediaInv'
<1>1. /\ Holding(w) /\ ~file.good /\ MediaGoto(w, "rejectRow", mediaLoc[w])
      /\ UNCHANGED <<row, attached, known, jobs>>
      /\ mediaFaults' \in Nat /\ objects' \subseteq {"original", "derived"}
  BY Working DEF RejectObject, Holding, NoMediaFault, MediaInv, FoundOut
<1>2. WorkerFinds("rejectRow")
  BY <1>1 DEF WorkerFinds, MediaInv, FoundOut
<1>3. InStore'
  BY <1>1, Moves DEF InStore
<1> QED
  BY <1>1, <1>2, <1>3, AttemptGoes

LEMMA RejectKeeps == ASSUME MediaInv, NEW w \in Workers, Reject(w) PROVE MediaInv'
<1>1. /\ Holding(w) /\ MediaGoto(w, "idle", NoWork) /\ UNCHANGED <<attached, known, objects>>
      /\ mediaFaults' \in Nat /\ jobs' \in Seq(1..Attempts)
  BY Working DEF Reject, Holding, MediaFinish, NoMediaFault
<1> QED
  BY <1>1, AttemptEnds DEF Reject

LEMMA FailAttemptKeeps == ASSUME MediaInv, NEW w \in Workers, FailAttempt(w) PROVE MediaInv'
<1>1. /\ Holding(w) /\ MediaGoto(w, "idle", NoWork) /\ UNCHANGED <<attached, known, objects>>
      /\ mediaFaults' \in Nat /\ jobs' \in Seq(1..Attempts)
  BY Working, AgainKeeps DEF FailAttempt, Holding, NoMediaFault
<1> QED
  BY <1>1, AttemptEnds DEF FailAttempt

-----------------------------------------------------------------------------
(* The steps of an upload, an attachment or a deletion.                    *)

UploadPlaces == {"idle", "create", "mark", "trigger", "deleteObject", "deleteRow"}

LEMMA UploadMoves ==
    ASSUME MediaInv, NEW p \in Uploaders, NEW label \in UploadPlaces, NEW l, MediaGoto(p, label, l)
    PROVE  /\ Places' /\ file' = file /\ file' \in Files /\ Careful(file)'
           /\ mediaPc'[p] = label
           /\ \A q \in Uploaders : q # p => mediaPc'[q] = mediaPc[q]
           /\ \A w \in Workers : mediaPc'[w] = mediaPc[w]
<1>1. /\ DOMAIN mediaPc' = Uploaders \cup Workers /\ DOMAIN mediaLoc' = Uploaders \cup Workers
      /\ mediaPc'[p] = label /\ file' = file
      /\ \A q \in Uploaders \cup Workers : q # p => mediaPc'[q] = mediaPc[q] /\ mediaLoc'[q] = mediaLoc[q]
  BY Moves
<1>2. \A w \in Workers : w # p
  BY FileFacts
<1>3. Places'
  BY <1>1, <1>2 DEF MediaInv, Places, UploadPlaces
<1> QED
  BY <1>1, <1>2, <1>3 DEF MediaInv, Careful

LEMMA StateFacts ==
    ASSUME MediaInv
    PROVE  /\ row \in Rows /\ objects \subseteq {"original", "derived"} /\ attached \in Seq(BOOLEAN)
           /\ known \in BOOLEAN /\ jobs \in Seq(1..Attempts) /\ mediaFaults \in Nat
           /\ \A f : MediaFault(f) => mediaFaults' \in Nat /\ f \in file.faults
BY DEF MediaInv, MediaTypeOK, MediaFault, Rows

\* What remains to be shown of a step that is at a proper place.
LEMMA UploadStep ==
    ASSUME MediaInv, NEW p \in Uploaders, NEW label \in UploadPlaces, NEW l, MediaGoto(p, label, l),
           MediaTypeOK', Uploading', OneAttempt', FoundOut', EncodedRests', InStore', ToldLate'
    PROVE  MediaInv'
BY UploadMoves DEF MediaInv

\* The first row: nobody has marked, taken or deleted anything yet.
LEMMA RowIsCreated ==
    ASSUME MediaInv, NEW p \in Uploaders, row = NoRow, MediaGoto(p, "mark", NoWork),
           row' = [NoRow EXCEPT !.status = "READY"], objects' = {"original"},
           UNCHANGED <<attached, jobs, mediaFaults>>, known' \in BOOLEAN,
           \A q \in Uploaders : mediaPc[q] = "create" => q = p,
           file.encoded => file.good, file.route = "session" => known' = known
    PROVE  MediaInv'
<1>1. /\ mediaPc'[p] = "mark" /\ file' = file /\ Careful(file)
      /\ \A q \in Uploaders : q # p => mediaPc'[q] = mediaPc[q]
      /\ \A w \in Workers : mediaPc'[w] = mediaPc[w]
  BY UploadMoves, FileFacts DEF UploadPlaces
<1>2. row' = [status |-> "READY", processed |-> FALSE, key |-> "original"] /\ row.status = "NONE"
  BY DEF NoRow
<1>3. /\ ~known /\ jobs = <<>>
      /\ \A q \in Uploaders : mediaPc[q] \in {"idle", "create"} /\ (q # p => mediaPc[q] = "idle")
      /\ \A w \in Workers : mediaPc[w] = "idle"
  BY <1>2 DEF MediaInv, Uploading
<1>4. MediaTypeOK'
  BY <1>2 DEF MediaInv, MediaTypeOK
<1>5. Uploading'
  BY <1>1, <1>2, <1>3 DEF MediaInv, Uploading
<1>6. OneAttempt' /\ FoundOut' /\ EncodedRests'
  BY <1>1, <1>2, <1>3 DEF OneAttempt, Holding, FoundOut, EncodedRests
<1>7. InStore'
  BY <1>1, <1>2, <1>3 DEF InStore
<1>8. ToldLate'
  BY <1>1, <1>2, <1>3 DEF MediaInv, ToldLate, NamedLate, AttachedWasProcessed, UnmarkedBriefly, Careful
<1> QED
  BY <1>4, <1>5, <1>6, <1>7, <1>8, UploadStep DEF UploadPlaces

\* The place of an upload or a deletion changes, and nothing else that matters.
LEMMA UploadGoes ==
    ASSUME MediaInv, NEW p \in Uploaders, NEW label \in UploadPlaces, NEW l, MediaGoto(p, label, l),
           UNCHANGED <<row, objects, attached, known>>, mediaFaults' \in Nat, jobs' \in Seq(1..Attempts),
           row.status # "NONE" \/ (label = "idle" /\ jobs' = jobs),
           label = "deleteObject" => "delete" \in file.handlers,
           label = "mark" => "repeat" \in file.handlers, mediaPc[p] # "mark",
           file.encoded => jobs' = jobs /\ label # "trigger",
           label # "create", label # "deleteRow", mediaPc[p] # "deleteRow"
    PROVE  MediaInv'
<1>1. /\ mediaPc'[p] = label /\ file' = file
      /\ \A q \in Uploaders : q # p => mediaPc'[q] = mediaPc[q]
      /\ \A w \in Workers : mediaPc'[w] = mediaPc[w]
  BY UploadMoves
<1>2. MediaTypeOK'
  BY DEF MediaInv, MediaTypeOK
<1>3. Uploading'
  BY <1>1 DEF MediaInv, Uploading
<1>4. OneAttempt'
  BY <1>1 DEF MediaInv, OneAttempt, Holding
<1>5. FoundOut' /\ EncodedRests'
  BY <1>1 DEF MediaInv, FoundOut, EncodedRests
<1>6. InStore'
  BY <1>1 DEF MediaInv, InStore, Intact, Exists
<1>7. ToldLate'
  BY <1>1 DEF MediaInv, ToldLate, NamedLate, AttachedWasProcessed, UnmarkedBriefly
<1> QED
  BY <1>2, <1>3, <1>4, <1>5, <1>6, <1>7, UploadStep

LEMMA CompleteUploadKeeps == ASSUME MediaInv, NEW p \in Uploaders, CompleteUpload(p) PROVE MediaInv'
<1>1. file.route = "session" /\ ~file.encoded /\ UNCHANGED <<attached, jobs, mediaFaults>>
  BY FileFacts DEF CompleteUpload, NoMediaFault, Careful
<1>2. CASE row = NoRow
  BY <1>1, <1>2, RowIsCreated, StateFacts DEF CompleteUpload, MediaInv, Uploading
<1>3. CASE row # NoRow
  <2>1. /\ row.status # "NONE" /\ UNCHANGED <<row, objects>>
        /\ "repeat" \in file.handlers
    BY <1>1, <1>3, FileFacts DEF CompleteUpload, Exists, MediaBegin
  <2>2. CASE MediaGoto(p, "mark", NoWork) /\ UNCHANGED known
    <3>1. mediaPc[p] = "idle" /\ mediaFaults' \in Nat /\ jobs' \in Seq(1..Attempts)
      BY <1>1, StateFacts DEF CompleteUpload, MediaBegin
    <3> QED
      BY <1>1, <2>1, <2>2, <3>1, UploadGoes DEF UploadPlaces
  <2>3. CASE known' = TRUE /\ UNCHANGED <<file, mediaPc, mediaLoc>>
    BY <1>1, <2>1, <2>3 DEF MediaInv, MediaTypeOK, Places, Uploading, OneAttempt, Holding, FoundOut, EncodedRests,
         InStore, Intact, Exists, ToldLate, NamedLate, AttachedWasProcessed, UnmarkedBriefly, Careful
  <2> QED
    BY <1>3, <2>2, <2>3 DEF CompleteUpload
<1> QED
  BY <1>2, <1>3

LEMMA QuerySessionKeeps == ASSUME MediaInv, NEW p \in Uploaders, QuerySession(p) PROVE MediaInv'
<1>1. /\ "query" \in file.handlers /\ row.status # "NONE" /\ ~file.encoded /\ known' = TRUE
      /\ UNCHANGED <<row, objects, attached, jobs, mediaFaults, file, mediaPc, mediaLoc>>
  BY FileFacts DEF QuerySession, MediaBegin, Exists, NoMediaFault, Careful
<1> QED
  BY <1>1 DEF MediaInv, MediaTypeOK, Places, Uploading, OneAttempt, Holding, FoundOut, EncodedRests,
       InStore, Intact, Exists, ToldLate, NamedLate, AttachedWasProcessed, UnmarkedBriefly, Careful

LEMMA DirectSaveKeeps == ASSUME MediaInv, NEW p \in Uploaders, DirectSave(p) PROVE MediaInv'
<1>1. /\ MediaGoto(p, "create", NoWork) /\ "create" \in UploadPlaces
      /\ row = NoRow /\ row.status = "NONE" /\ objects = {} /\ objects' = {"original"}
      /\ UNCHANGED <<row, attached, known, jobs, mediaFaults>>
      /\ file.route = "direct" /\ (file.encoded => file.good)
  BY DEF DirectSave, UploadPlaces, NoMediaFault, NoRow
<1>2. /\ mediaPc'[p] = "create" /\ file' = file
      /\ \A q \in Uploaders : q # p => mediaPc'[q] = mediaPc[q]
      /\ \A w \in Workers : mediaPc'[w] = mediaPc[w]
  BY <1>1, UploadMoves
<1>3. \A q \in Uploaders : mediaPc[q] = "idle"
  BY <1>1 DEF MediaInv, Uploading
<1>4. \A w \in Workers : mediaPc[w] = "idle"
  BY <1>1 DEF MediaInv, Uploading
<1>5. MediaTypeOK'
  BY <1>1 DEF MediaInv, MediaTypeOK
<1>6. Uploading'
  BY <1>1, <1>2, <1>3, <1>4 DEF MediaInv, Uploading
<1>7. OneAttempt' /\ FoundOut' /\ EncodedRests'
  BY <1>1, <1>2, <1>3, <1>4 DEF MediaInv, OneAttempt, Holding, FoundOut, EncodedRests
<1>8. InStore' /\ ToldLate'
  BY <1>1, <1>2, <1>3 DEF MediaInv, InStore, Intact, Exists, ToldLate, NamedLate, AttachedWasProcessed, UnmarkedBriefly
<1> QED
  BY <1>1, <1>5, <1>6, <1>7, <1>8, UploadStep

LEMMA DirectCreateKeeps == ASSUME MediaInv, NEW p \in Uploaders, DirectCreate(p) PROVE MediaInv'
<1>1. /\ mediaPc[p] = "create" /\ row = NoRow /\ row.status = "NONE" /\ objects = {"original"} /\ file.route = "direct"
      /\ (file.encoded => file.good) /\ UNCHANGED <<attached, jobs>>
      /\ \A q \in Uploaders : mediaPc[q] = "create" => q = p
  BY DEF DirectCreate, MediaInv, Uploading, NoRow
<1>2. CASE row' = [NoRow EXCEPT !.status = "READY"]
  BY <1>1, <1>2, RowIsCreated, StateFacts DEF DirectCreate, NoMediaFault, NoRow
<1>3. CASE /\ MediaFault("db") /\ UNCHANGED <<row, known>> /\ objects' \in {objects, {}} /\ MediaFinish(p)
  <2>1. MediaGoto(p, "idle", NoWork) /\ "idle" \in UploadPlaces /\ mediaFaults' \in Nat /\ UNCHANGED <<row, known>>
    BY <1>3, StateFacts DEF MediaFinish, UploadPlaces
  <2>2. /\ mediaPc'[p] = "idle" /\ file' = file
        /\ \A q \in Uploaders : q # p => mediaPc'[q] = mediaPc[q]
        /\ \A w \in Workers : mediaPc'[w] = mediaPc[w]
    BY <2>1, UploadMoves
  <2>3. MediaTypeOK'
    BY <1>1, <1>3, <2>1 DEF MediaInv, MediaTypeOK
  <2>4. Uploading'
    BY <1>1, <2>1, <2>2 DEF MediaInv, Uploading
  <2>5. OneAttempt' /\ FoundOut' /\ EncodedRests'
    BY <1>1, <2>1, <2>2 DEF MediaInv, OneAttempt, Holding, FoundOut, EncodedRests
  <2>6. InStore' /\ ToldLate'
    BY <1>1, <2>1, <2>2 DEF MediaInv, InStore, Intact, Exists, ToldLate, NamedLate, AttachedWasProcessed, UnmarkedBriefly
  <2> QED
    BY <2>1, <2>3, <2>4, <2>5, <2>6, UploadStep
<1> QED
  BY <1>2, <1>3 DEF DirectCreate

LEMMA MarkPendingKeeps == ASSUME MediaInv, NEW p \in Uploaders, MarkPending(p) PROVE MediaInv'
<1>1. /\ mediaPc[p] = "mark" /\ row.status # "NONE" /\ row \in Rows /\ (file.encoded => file.good)
      /\ known' = TRUE /\ UNCHANGED <<objects, attached, jobs>> /\ mediaFaults' \in Nat
  BY StateFacts DEF MarkPending, NoMediaFault, MediaInv, Uploading
<1>2. PICK label \in {"trigger", "idle"} :
         /\ MediaGoto(p, label, NoWork)
         /\ \/ /\ Exists /\ ~file.encoded /\ row' = [row EXCEPT !.status = "PENDING"]
            \/ /\ Exists /\ file.encoded /\ label = "idle"
               /\ row' = [row EXCEPT !.status = "READY", !.processed = TRUE]
            \/ /\ ~Exists /\ row' = row /\ label = "idle"
            \/ /\ "db" \in file.faults /\ row' = row /\ label = "idle"
  BY StateFacts DEF MarkPending, MediaFinish
<1>3. /\ mediaPc'[p] = label /\ file' = file /\ Careful(file)
      /\ \A q \in Uploaders : q # p => mediaPc'[q] = mediaPc[q]
      /\ \A w \in Workers : mediaPc'[w] = mediaPc[w]
  BY <1>2, UploadMoves, FileFacts DEF UploadPlaces
<1>4. /\ row' \in Rows /\ row'.status # "NONE" /\ (row'.status # "GONE" <=> row.status # "GONE")
      /\ row'.key = row.key /\ (row'.processed => row.processed \/ file.encoded)
      /\ file.encoded => row'.status \in {"READY", row.status}
  <2>1. CASE row' = row
    BY <1>1, <2>1
  <2>2. CASE Exists /\ ~file.encoded /\ row' = [row EXCEPT !.status = "PENDING"]
    BY <1>1, <2>2 DEF Rows, Exists
  <2>3. CASE Exists /\ file.encoded /\ row' = [row EXCEPT !.status = "READY", !.processed = TRUE]
    BY <1>1, <2>3 DEF Rows, Exists
  <2> QED
    BY <1>2, <2>1, <2>2, <2>3
<1>5. MediaTypeOK'
  BY <1>1, <1>4 DEF MediaInv, MediaTypeOK, Rows
<1>6. Uploading'
  <2>1. \A q \in Uploaders : mediaPc'[q] # "create"
    BY <1>1, <1>2, <1>3 DEF MediaInv, Uploading, NoRow
  <2> QED
    BY <1>1, <1>2, <1>3, <1>4, <2>1 DEF MediaInv, Uploading
<1>7. OneAttempt'
  <2>1. SUFFICES ASSUME "repeat" \notin file.handlers
                 PROVE OneAttempt'
    BY <1>3 DEF OneAttempt
  <2>2. /\ row.status \in {"READY", "GONE"} /\ ~row.processed
        /\ \A q \in Uploaders : q # p => mediaPc[q] # "mark"
    BY <1>1, <2>1 DEF MediaInv, OneAttempt
  <2>3. Exists => \A w \in Workers : ~Holding(w)
    BY <2>1, <2>2 DEF MediaInv, OneAttempt, Exists
  <2>4. /\ row'.processed => row'.status \in {"READY", "GONE"}
        /\ \A q \in Uploaders : mediaPc'[q] # "mark"
        /\ ~Exists => row' = row
    BY <1>1, <1>2, <1>3, <2>2 DEF Rows
  <2> QED
    BY <1>3, <1>4, <2>1, <2>3, <2>4 DEF MediaInv, OneAttempt, Holding, Exists
<1>8. FoundOut'
  BY <1>1, <1>3, <1>4 DEF MediaInv, FoundOut
<1>9. EncodedRests'
  BY <1>1, <1>2, <1>3, <1>4 DEF MediaInv, EncodedRests
<1>10. InStore'
  <2>1. Intact' => Intact
    BY <1>1, <1>3, <1>4 DEF Intact, Exists
  <2> QED
    BY <1>1, <1>3, <1>4, <2>1 DEF MediaInv, InStore
<1>11. UnmarkedBriefly'
  <2>1. SUFFICES ASSUME row'.status = "READY", ~row'.processed, ~file.encoded, "db" \notin file.faults,
                        "crash" \notin file.faults
                 PROVE  \E q \in Uploaders : mediaPc'[q] = "mark"
    BY <1>3 DEF UnmarkedBriefly
  <2>2. row.status = "READY" /\ ~Exists
    BY <1>1, <1>2, <2>1 DEF Rows
  <2> QED
    BY <2>2 DEF Exists
<1>12. ToldLate'
  <2>1. SUFFICES ASSUME NamedLate(file)
                 PROVE  "attach" \in file.handlers /\ ~file.encoded =>
                          /\ row'.status = "READY" => row'.processed
                          /\ \A q \in Uploaders : mediaPc'[q] # "mark"
    BY <1>1, <1>3, <1>11 DEF MediaInv, ToldLate, NamedLate, AttachedWasProcessed
  <2>2. SUFFICES ASSUME "attach" \in file.handlers, ~file.encoded
                 PROVE  /\ row'.status = "READY" => row'.processed
                        /\ \A q \in Uploaders : mediaPc'[q] # "mark"
    OBVIOUS
  <2>3. "repeat" \notin file.handlers /\ "db" \notin file.faults
    BY <2>1, <2>2 DEF NamedLate
  <2>4. \A q \in Uploaders : q # p => mediaPc[q] # "mark"
    BY <1>1, <2>3 DEF MediaInv, OneAttempt
  <2> QED
    BY <1>1, <1>2, <1>3, <2>2, <2>3, <2>4 DEF Rows, Exists
<1> QED
  BY <1>2, <1>5, <1>6, <1>7, <1>8, <1>9, <1>10, <1>12, UploadStep DEF UploadPlaces

LEMMA TriggerKeeps == ASSUME MediaInv, NEW p \in Uploaders, Trigger(p) PROVE MediaInv'
<1>1. /\ mediaPc[p] = "trigger" /\ row.status # "NONE" /\ ~file.encoded
      /\ UNCHANGED <<row, objects, attached, known>> /\ mediaFaults' \in Nat
      /\ MediaGoto(p, "idle", NoWork) /\ "idle" \in UploadPlaces
  BY StateFacts DEF Trigger, MediaFinish, NoMediaFault, MediaInv, Uploading, EncodedRests, UploadPlaces
<1>2. Job \in 1..Attempts
  BY FileFacts DEF Job
<1>3. jobs' \in Seq(1..Attempts)
  BY <1>2, StateFacts, JobFacts DEF Trigger
<1> QED
  BY <1>1, <1>3, UploadGoes

LEMMA AttachKeeps == ASSUME MediaInv, NEW p \in Uploaders, Attach(p) PROVE MediaInv'
<1>1. /\ "attach" \in file.handlers /\ known /\ row.status = "READY" /\ row \in Rows /\ file.encoded \in BOOLEAN
      /\ attached' = Append(attached, row.processed \/ file.encoded) /\ attached \in Seq(BOOLEAN)
      /\ UNCHANGED <<row, objects, known, jobs, mediaFaults, file, mediaPc, mediaLoc>>
  BY StateFacts, FileFacts DEF Attach, MediaBegin, NoMediaFault
<1>2. attached' \in Seq(BOOLEAN)
  BY <1>1, AppendProperties DEF Rows
<1>4. ASSUME NamedLate(file) PROVE AttachedWasProcessed'
  <2>0. row.processed \/ file.encoded
    BY <1>1, <1>4 DEF MediaInv, ToldLate
  <2>1. TRUE \in BOOLEAN /\ attached \in Seq(BOOLEAN) /\ attached' = Append(attached, TRUE)
    BY <1>1, <2>0 DEF Rows
  <2>2. /\ attached' \in Seq(BOOLEAN) /\ Len(attached') = Len(attached) + 1
        /\ \A i \in 1..Len(attached) : attached'[i] = attached[i]
        /\ attached'[Len(attached) + 1] = TRUE
    BY <2>1, AppendProperties
  <2>3. DOMAIN attached = 1..Len(attached) /\ Len(attached) \in Nat /\ DOMAIN attached' = 1..Len(attached) + 1
    BY <2>1, <2>2, LenProperties
  <2>4. \A i \in DOMAIN attached : attached[i]
    BY <1>4 DEF MediaInv, ToldLate, AttachedWasProcessed
  <2>5. \A i \in DOMAIN attached' : i \in 1..Len(attached) \/ i = Len(attached) + 1
    BY <2>3
  <2> QED
    BY <2>2, <2>3, <2>4, <2>5, Zenon DEF AttachedWasProcessed
<1> QED
  BY <1>1, <1>2, <1>4 DEF MediaInv, MediaTypeOK, Places, Uploading, OneAttempt, Holding, FoundOut, EncodedRests,
       InStore, Intact, Exists, ToldLate, NamedLate, UnmarkedBriefly, Careful

LEMMA DeleteReadKeeps == ASSUME MediaInv, NEW p \in Uploaders, DeleteRead(p) PROVE MediaInv'
<1>1. /\ mediaPc[p] = "idle" /\ row.status # "NONE" /\ "delete" \in file.handlers
      /\ UNCHANGED <<row, objects, attached, known, jobs>> /\ mediaFaults' \in Nat
      /\ MediaGoto(p, "deleteObject", [key |-> row.key]) /\ "deleteObject" \in UploadPlaces
  BY StateFacts DEF DeleteRead, MediaBegin, Exists, NoMediaFault, UploadPlaces
<1>2. jobs' \in Seq(1..Attempts)
  BY <1>1, StateFacts
<1> QED
  BY <1>1, <1>2, UploadGoes

\* From the object's deletion on the bytes may be gone.
LEMMA DeleteObjectKeeps == ASSUME MediaInv, NEW p \in Uploaders, DeleteObject(p) PROVE MediaInv'
<1>1. /\ mediaPc[p] = "deleteObject" /\ "delete" \in file.handlers /\ row.status # "NONE"
      /\ UNCHANGED <<row, attached, known, jobs>> /\ mediaFaults' \in Nat /\ objects' \subseteq {"original", "derived"}
      /\ MediaGoto(p, "deleteRow", mediaLoc[p]) /\ "deleteRow" \in UploadPlaces
  BY StateFacts DEF DeleteObject, NoMediaFault, UploadPlaces, MediaInv, Uploading
<1>2. /\ mediaPc'[p] = "deleteRow" /\ file' = file
      /\ \A q \in Uploaders : q # p => mediaPc'[q] = mediaPc[q]
      /\ \A w \in Workers : mediaPc'[w] = mediaPc[w]
  BY <1>1, UploadMoves
<1>3. MediaTypeOK'
  BY <1>1 DEF MediaInv, MediaTypeOK
<1>4. Uploading'
  <2>1. \A q \in Uploaders : mediaPc'[q] # "create"
    BY <1>1, <1>2 DEF MediaInv, Uploading, NoRow
  <2> QED
    BY <1>1, <1>2, <2>1 DEF MediaInv, Uploading
<1>5. OneAttempt' /\ FoundOut' /\ EncodedRests'
  BY <1>1, <1>2 DEF MediaInv, OneAttempt, Holding, FoundOut, EncodedRests
<1>6. InStore' /\ ToldLate'
  BY <1>1, <1>2 DEF MediaInv, InStore, Intact, ToldLate, NamedLate, AttachedWasProcessed, UnmarkedBriefly
<1> QED
  BY <1>1, <1>3, <1>4, <1>5, <1>6, UploadStep

\* Nothing is attached to a file that is deleted, so the row goes.
LEMMA DeleteRowKeeps == ASSUME MediaInv, NEW p \in Uploaders, DeleteRow(p) PROVE MediaInv'
<1>1. /\ mediaPc[p] = "deleteRow" /\ "delete" \in file.handlers /\ row.status # "NONE" /\ row \in Rows
      /\ "attach" \notin file.handlers /\ attached = <<>> /\ row' = [row EXCEPT !.status = "GONE"]
      /\ UNCHANGED <<objects, attached, known, jobs, mediaFaults>>
      /\ MediaGoto(p, "idle", NoWork) /\ "idle" \in UploadPlaces
  BY StateFacts, FileFacts DEF DeleteRow, MediaFinish, NoMediaFault, UploadPlaces, MediaInv, Uploading, Careful
<1>2. /\ mediaPc'[p] = "idle" /\ file' = file
      /\ \A q \in Uploaders : q # p => mediaPc'[q] = mediaPc[q]
      /\ \A w \in Workers : mediaPc'[w] = mediaPc[w]
  BY <1>1, UploadMoves
<1>3. row' \in Rows /\ row'.status = "GONE" /\ row'.processed = row.processed
  BY <1>1 DEF Rows
<1>4. MediaTypeOK'
  BY <1>1, <1>3 DEF MediaInv, MediaTypeOK, Rows
<1>5. Uploading'
  <2>1. \A q \in Uploaders : mediaPc'[q] # "create"
    BY <1>1, <1>2 DEF MediaInv, Uploading, NoRow
  <2> QED
    BY <1>1, <1>2, <1>3, <2>1 DEF MediaInv, Uploading
<1>6. OneAttempt' /\ FoundOut' /\ EncodedRests'
  BY <1>1, <1>2, <1>3 DEF MediaInv, OneAttempt, Holding, FoundOut, EncodedRests
<1>7. InStore' /\ ToldLate'
  BY <1>1, <1>2, <1>3 DEF MediaInv, InStore, Intact, Exists, ToldLate, NamedLate, AttachedWasProcessed, UnmarkedBriefly
<1> QED
  BY <1>1, <1>4, <1>5, <1>6, <1>7, UploadStep

-----------------------------------------------------------------------------
(* The sweeper, and a process that stops.                                  *)

LEMMA SweepMediaKeeps == ASSUME MediaInv, SweepMedia PROVE MediaInv'
<1>1. /\ row.status # "NONE" /\ ~file.encoded /\ jobs' = <<Job>>
      /\ UNCHANGED <<row, objects, attached, known, mediaFaults, file, mediaPc, mediaLoc>>
  BY DEF SweepMedia, MediaInv, EncodedRests
<1>2. jobs' \in Seq(1..Attempts)
  BY <1>1, FileFacts DEF Job
<1> QED
  BY <1>1, <1>2 DEF MediaInv, MediaTypeOK, Places, Uploading, OneAttempt, Holding, FoundOut, EncodedRests,
       InStore, Intact, Exists, ToldLate, NamedLate, AttachedWasProcessed, UnmarkedBriefly, Careful

LEMMA SetToSeqFacts ==
    ASSUME NEW S, IsFiniteSet(S)
    PROVE  \E n \in Nat : SetToSeq(S) \in [1..n -> S]
<1>1. Cardinality(S) \in Nat /\ ExistsBijection(1..Cardinality(S), S)
  BY FS_CardinalityType
<1>2. \E f \in [1..Cardinality(S) -> S] : IsInjective(f)
  BY <1>1 DEF ExistsBijection, Bijection, Injection, IsInjective
<1>3. SetToSeq(S) \in [1..Cardinality(S) -> S]
  BY <1>2 DEF SetToSeq
<1> QED
  BY <1>1, <1>3

LEMMA MediaCrashKeeps == ASSUME MediaInv, MediaCrash PROVE MediaInv'
<1>1. /\ "crash" \in file.faults /\ "delete" \notin file.handlers /\ mediaFaults' \in Nat
      /\ UNCHANGED <<row, objects, attached, known, file>>
      /\ DOMAIN mediaPc' = Uploaders \cup Workers /\ DOMAIN mediaLoc' = Uploaders \cup Workers
      /\ \A q \in Uploaders \cup Workers : mediaPc'[q] = "idle"
  BY StateFacts, FileFacts DEF MediaCrash, Careful
<1> DEFINE busy == {w \in Workers : mediaPc[w] # "idle"}
           stalled == SetToSeq(busy)
           handed == [i \in DOMAIN stalled |-> mediaLoc[stalled[i]].left]
<1>2. jobs' = IF file.redis THEN jobs \o handed ELSE <<>>
  BY DEF MediaCrash
<1>3. PICK n \in Nat : stalled \in [1..n -> busy]
  <2>1. IsFiniteSet(busy)
    BY FS_Subset, MediaAssumption
  <2> QED
    BY <2>1, SetToSeqFacts
<1>4. handed \in Seq(1..Attempts)
  <2>1. \A i \in 1..n : mediaLoc[stalled[i]].left \in 1..Attempts
    BY <1>3, Working DEF Claims
  <2>2. handed \in [1..n -> 1..Attempts]
    BY <1>3, <2>1
  <2> QED
    BY <2>2, SeqDef
<1>5. jobs' \in Seq(1..Attempts)
  <2>1. jobs \in Seq(1..Attempts) /\ <<>> \in Seq(1..Attempts)
    BY StateFacts
  <2>2. jobs \o handed \in Seq(1..Attempts)
    BY <1>4, <2>1, ConcatProperties
  <2> QED
    BY <1>2, <2>1, <2>2
<1>6. busy = {} => handed = <<>>
  <2>1. SUFFICES ASSUME busy = {}
                 PROVE  handed = <<>>
    OBVIOUS
  <2>2. DOMAIN stalled = 1..n /\ \A i \in 1..n : stalled[i] \in busy
    BY <1>3
  <2>3. DOMAIN handed = {}
    BY <2>1, <2>2
  <2> QED
    BY <1>4, <2>3, EmptySeq, LenProperties
<1>7. file.encoded => jobs' = <<>>
  <2>1. file.encoded => jobs = <<>> /\ busy = {}
    BY DEF MediaInv, EncodedRests
  <2> QED
    BY <1>2, <1>6, <2>1
<1>8. row.status = "NONE" => jobs' = <<>>
  <2>1. row.status = "NONE" => jobs = <<>> /\ busy = {}
    BY DEF MediaInv, Uploading
  <2> QED
    BY <1>2, <1>6, <2>1
<1>9. MediaTypeOK' /\ Places' /\ Careful(file)' /\ file' \in Files
  BY <1>1, <1>5 DEF MediaInv, MediaTypeOK, Places, Careful
<1>10. Uploading'
  BY <1>1, <1>8 DEF MediaInv, Uploading
<1>11. OneAttempt' /\ FoundOut' /\ EncodedRests'
  BY <1>1, <1>7 DEF MediaInv, OneAttempt, Holding, FoundOut, EncodedRests
<1>12. InStore'
  <2>1. Intact' => Intact
    BY <1>1 DEF MediaInv, Uploading, Intact, Exists
  <2> QED
    BY <1>1, <2>1 DEF MediaInv, InStore
<1>13. ToldLate'
  BY <1>1 DEF MediaInv, ToldLate, NamedLate, AttachedWasProcessed, UnmarkedBriefly
<1> QED
  BY <1>9, <1>10, <1>11, <1>12, <1>13 DEF MediaInv

-----------------------------------------------------------------------------

LEMMA MediaInvInit == MediaInit /\ (\A f \in Files : Careful(f)) => MediaInv
<1> SUFFICES ASSUME MediaInit, \A f \in Files : Careful(f)
             PROVE  MediaInv
  OBVIOUS
<1>1. MediaTypeOK
  <2>1. row \in Rows
    BY DEF MediaInit, NoRow, Rows
  <2>2. <<>> \in Seq(BOOLEAN) /\ <<>> \in Seq(1..Attempts)
    BY EmptySeq
  <2> QED
    BY <2>1, <2>2 DEF MediaInit, MediaTypeOK, Rows
<1>2. Places /\ Uploading
  BY DEF MediaInit, Places, Uploading, NoRow
<1>3. OneAttempt /\ FoundOut /\ EncodedRests
  BY DEF MediaInit, OneAttempt, Holding, FoundOut, EncodedRests, NoRow
<1>4. InStore /\ ToldLate
  BY DEF MediaInit, InStore, Intact, Exists, ToldLate, NamedLate, AttachedWasProcessed, UnmarkedBriefly, NoRow
<1> QED
  BY <1>1, <1>2, <1>3, <1>4 DEF MediaInit, MediaInv

LEMMA MediaInvNext == MediaInv /\ [MediaNext]_mediaVars => MediaInv'
<1> SUFFICES ASSUME MediaInv, [MediaNext]_mediaVars
             PROVE  MediaInv'
  OBVIOUS
<1>1. CASE UNCHANGED mediaVars
  BY <1>1 DEF mediaVars, MediaInv, MediaTypeOK, Places, Uploading, OneAttempt, Holding, FoundOut, EncodedRests,
       InStore, Intact, Exists, ToldLate, NamedLate, AttachedWasProcessed, UnmarkedBriefly, Careful
<1>2. ASSUME NEW p \in Uploaders, ArriveFile(p) PROVE MediaInv'
  BY <1>2, CompleteUploadKeeps, QuerySessionKeeps, DirectSaveKeeps, DirectCreateKeeps, MarkPendingKeeps, TriggerKeeps DEF ArriveFile
<1>3. ASSUME NEW p \in Uploaders, UseFile(p) PROVE MediaInv'
  BY <1>3, AttachKeeps, DeleteReadKeeps, DeleteObjectKeeps, DeleteRowKeeps DEF UseFile
<1>4. ASSUME NEW w \in Workers, Process(w) PROVE MediaInv'
  BY <1>4, TakeKeeps, ClaimFileKeeps, InspectKeeps, DownloadKeeps, DeriveKeeps, VerifyDerivedKeeps,
       DropSourceKeeps, ReadyKeeps, RejectObjectKeeps, RejectKeeps, FailAttemptKeeps DEF Process
<1> QED
  BY <1>1, <1>2, <1>3, <1>4, SweepMediaKeeps, MediaCrashKeeps DEF MediaNext

LEMMA MediaInvIsSound == MediaInv => MediaSound
<1> SUFFICES ASSUME MediaInv, row.status = "READY", row.processed,
                    \A p \in Uploaders : mediaPc[p] # "deleteRow"
             PROVE  file.good /\ row.key \in objects
  BY DEF MediaInv, MediaSound, ToldLate, NamedLate, UnmarkedBriefly, ReadyIsSound
<1>1. file.good /\ Intact
  BY DEF MediaInv, FoundOut, Intact, Exists
<1> QED
  BY <1>1 DEF MediaInv, InStore

\* A file that is READY and processed has passed its checks and is in the store; one that
\* is READY unprocessed is about to be marked; and no message carries a file that was not
\* processed, unless its client could name it before the mark; however many uploads,
\* queries, deletions and attempts race over whichever careful files (processMediaFile,
\* completeUpload, getSession, authorizeChatMedia, deleteFile).
THEOREM ReadyMediaIsSound ==
    ASSUME \A f \in Files : Careful(f)
    PROVE  MediaSpec => []MediaSound
<1>1. MediaInit => MediaInv
  BY MediaInvInit
<1>2. MediaSpec => []MediaInv
  BY <1>1, MediaInvNext, PTL DEF MediaSpec
<1> QED
  BY <1>2, MediaInvIsSound, PTL

-----------------------------------------------------------------------------
(***************************************************************************)
(* Proofs about ChatMessages for any clients, keys, texts and faults.  A     *)
(* send finds its key taken either when it looks or when it inserts; what   *)
(* it then follows is the one message under the key, which keeps its text   *)
(* unless it is edited.                                                     *)
(***************************************************************************)

SendLabels == {"idle", "look", "post", "insert", "emit", "enqueue", "enqueue_lost", "lost", "refused"}
Answering == {"emit", "enqueue", "enqueue_lost"}
MaybeKeys == Keys \cup {NoKey}
SendType == [key : MaybeKeys, text : Texts, msg : Nat]
MessageType == [key : MaybeKeys, from : Clients, text : Texts, deleted : BOOLEAN]

\* The message i was sent as key and text say.
Stands(rows, i, key, text) ==
    /\ i \in DOMAIN rows /\ rows[i].key = key
    /\ room.edits \/ rows[i].text = text

\* Under an honest key there is one text.
Honestly(key, text) == room.collide \/ key = NoKey \/ text = KeyText[key]

\* What a client holds at a label.
SendFits(rows, label, l) ==
    /\ label # "idle" => l \in SendType /\ Honestly(l.key, l.text)
    /\ label \in Answering => Stands(rows, l.msg, l.key, l.text)

SendsFit ==
    /\ sendPc \in [Clients -> SendLabels] /\ DOMAIN sendLoc = Clients
    /\ \A c \in Clients : SendFits(msgs, sendPc[c], sendLoc[c])

OneRowPerKey(rows) ==
    \A i, j \in DOMAIN rows : rows[i].key # NoKey /\ rows[i].key = rows[j].key => i = j
RowsHonest(rows) ==
    \A i \in DOMAIN rows : ~room.edits => Honestly(rows[i].key, rows[i].text)
AcksStand(answers, rows) ==
    \A a \in answers : Stands(rows, a.msg, a.key, a.text)
RightsKept == ~room.rights => mayPost = Clients

\* The rows of the room: all but the sends under way.
RoomFits ==
    /\ msgs \in Seq(MessageType) /\ OneRowPerKey(msgs) /\ RowsHonest(msgs)
    /\ readAt \in [Readers -> Nat] /\ screen \in [Readers -> SUBSET Nat]
    /\ mayPost \subseteq Clients /\ RightsKept
    /\ AcksStand(acks, msgs)

RoomInv == room \in Rooms /\ RoomFits /\ SendsFit /\ RetryNeverRefused

-----------------------------------------------------------------------------
(* What the steps share.                                                   *)

\* Messages are appended and edited, never removed: what stood under a key stands.
Keeps ==
    /\ DOMAIN msgs \subseteq DOMAIN msgs'
    /\ \A i \in DOMAIN msgs : /\ msgs'[i].key = msgs[i].key
                              /\ room.edits \/ msgs'[i].text = msgs[i].text

LEMMA StandsStill ==
    ASSUME Keeps, room' = room, NEW i, NEW key, NEW text, Stands(msgs, i, key, text)
    PROVE  Stands(msgs, i, key, text)' /\ Stands(msgs', i, key, text)
BY DEF Keeps, Stands

\* A send moves one client on, the others keep what they hold.
LEMMA SendMoves ==
    ASSUME RoomInv, Keeps, NEW c \in Clients, NEW label \in SendLabels, NEW l,
           SendGoto(c, label, l),
           label # "idle" => l \in SendType /\ Honestly(l.key, l.text),
           label \in Answering => Stands(msgs', l.msg, l.key, l.text),
           label = "refused" => room.collide \/ room.edits \/ room.rights
    PROVE  SendsFit' /\ RetryNeverRefused' /\ room' \in Rooms
<1>1. /\ room' = room /\ room \in Rooms
      /\ sendPc' \in [Clients -> SendLabels] /\ DOMAIN sendLoc' = Clients
      /\ sendPc'[c] = label /\ sendLoc'[c] = l
      /\ \A d \in Clients : d # c => sendPc'[d] = sendPc[d] /\ sendLoc'[d] = sendLoc[d]
  BY DEF RoomInv, SendsFit, SendGoto
<1>2. ASSUME NEW d \in Clients PROVE SendFits(msgs, sendPc[d], sendLoc[d])'
  <2>1. CASE d = c
    BY <1>1, <2>1 DEF SendFits, Honestly, Stands
  <2>2. CASE d # c
    <3>1. SendFits(msgs, sendPc[d], sendLoc[d])
      BY DEF RoomInv, SendsFit
    <3> QED
      BY <1>1, <2>2, <3>1, StandsStill DEF SendFits, Honestly, Stands
  <2> QED
    BY <2>1, <2>2
<1>3. RetryNeverRefused'
  BY <1>1 DEF RoomInv, RetryNeverRefused
<1> QED
  BY <1>1, <1>2, <1>3 DEF SendsFit

LEMMA SendsStay ==
    ASSUME RoomInv, Keeps, UNCHANGED <<room, sendPc, sendLoc>>
    PROVE  SendsFit' /\ RetryNeverRefused' /\ room' \in Rooms
<1>1. ASSUME NEW d \in Clients PROVE SendFits(msgs, sendPc[d], sendLoc[d])'
  <2>1. SendFits(msgs, sendPc[d], sendLoc[d])
    BY DEF RoomInv, SendsFit
  <2> QED
    BY <2>1, StandsStill DEF SendFits, Honestly, Stands
<1> QED
  BY <1>1 DEF RoomInv, SendsFit, RetryNeverRefused

\* Rows, marks and acknowledgements that stay as they are.
LEMMA RoomStays ==
    ASSUME RoomInv, room' = room, UNCHANGED <<Stored, Seen, acks>>
    PROVE  RoomFits' /\ Keeps
BY DEF RoomInv, RoomFits, Stored, Seen, Keeps, OneRowPerKey, RowsHonest, Honestly, AcksStand, Stands, RightsKept

\* What a client that is not idle holds.
LEMMA Holds ==
    ASSUME RoomInv, NEW c \in Clients, sendPc[c] # "idle"
    PROVE  /\ sendLoc[c] \in SendType /\ Honestly(sendLoc[c].key, sendLoc[c].text)
           /\ sendPc[c] \in Answering => Stands(msgs, sendLoc[c].msg, sendLoc[c].key, sendLoc[c].text)
BY DEF RoomInv, SendsFit, SendFits

\* Following the message under a key: it is the same send, or it is refused.
LEMMA FollowMoves ==
    ASSUME RoomInv, NEW c \in Clients, sendPc[c] # "idle", msgs' = msgs,
           WithKey(sendLoc[c].key) # {}, Follow(c, CHOOSE i \in WithKey(sendLoc[c].key) : TRUE)
    PROVE  SendsFit' /\ RetryNeverRefused' /\ room' \in Rooms /\ room' = room
<1> DEFINE k == CHOOSE i \in WithKey(sendLoc[c].key) : TRUE
           l == sendLoc[c]
           m == [l EXCEPT !.msg = k]
<1>1. k \in DOMAIN msgs /\ msgs[k].key = l.key /\ l.key # NoKey
  BY DEF WithKey
<1>2. l \in SendType /\ Honestly(l.key, l.text)
  BY Holds
<1>3. k \in Nat /\ Keeps
  BY <1>1 DEF RoomInv, RoomFits, Keeps
<1>4. m \in SendType /\ m.key = l.key /\ m.text = l.text /\ m.msg = k
  BY <1>2, <1>3 DEF SendType
<1>5. CASE SameLogicalSend(msgs[k], l.text)
  <2>1. SendGoto(c, "emit", m)
    BY <1>5 DEF Follow
  <2>2. Stands(msgs', m.msg, m.key, m.text) /\ Honestly(m.key, m.text)
    BY <1>1, <1>2, <1>4, <1>5 DEF Stands, SameLogicalSend
  <2> QED
    BY <1>3, <1>4, <2>1, <2>2, SendMoves DEF SendLabels, Answering, SendGoto
<1>6. CASE ~SameLogicalSend(msgs[k], l.text)
  <2>1. SendGoto(c, "refused", l)
    BY <1>6 DEF Follow
  <2>2. room.collide \/ room.edits
    <3>1. RowsHonest(msgs)
      BY DEF RoomInv, RoomFits
    <3> QED
      BY <1>1, <1>2, <1>6, <3>1 DEF RowsHonest, Honestly, SameLogicalSend
  <2> QED
    BY <1>2, <1>3, <2>1, <2>2, SendMoves DEF SendLabels, Answering, SendGoto
<1> QED
  BY <1>5, <1>6

-----------------------------------------------------------------------------
(* One step per action.                                                    *)

LEMMA SendKeeps == ASSUME RoomInv, NEW c \in Clients, Send(c) PROVE RoomInv'
<1>1. RoomFits' /\ Keeps
  BY RoomStays DEF Send, SendGoto
<1>2. CASE sendPc[c] = "idle"
  <2>1. PICK k \in Keys, text \in Texts :
          /\ room.collide \/ text = KeyText[k]
          /\ SendGoto(c, "look", [key |-> IF room.keyed THEN k ELSE NoKey, text |-> text, msg |-> 0])
    BY <1>2 DEF Send
  <2> DEFINE l == [key |-> IF room.keyed THEN k ELSE NoKey, text |-> text, msg |-> 0]
  <2>2. l \in SendType /\ Honestly(l.key, l.text)
    BY <2>1 DEF SendType, MaybeKeys, Honestly
  <2> HIDE DEF l
  <2>3. SendGoto(c, "look", l)
    BY <2>1 DEF l
  <2> QED
    BY <1>1, <2>2, <2>3, SendMoves DEF SendLabels, Answering, RoomInv
<1>3. CASE sendPc[c] # "idle"
  <2> DEFINE l == [sendLoc[c] EXCEPT !.msg = 0]
  <2>1. SendGoto(c, "look", l)
    BY <1>3 DEF Send
  <2>2. l \in SendType /\ Honestly(l.key, l.text)
    BY <1>3, Holds DEF SendType, Honestly
  <2> HIDE DEF l
  <2> QED
    BY <1>1, <2>1, <2>2, SendMoves DEF SendLabels, Answering, RoomInv
<1> QED
  BY <1>2, <1>3

LEMMA LookKeeps == ASSUME RoomInv, NEW c \in Clients, Look(c) PROVE RoomInv'
<1>1. sendPc[c] # "idle" /\ UNCHANGED <<Stored, Seen, acks>> /\ msgs' = msgs
  BY DEF Look, Stored
<1>2. CASE WithKey(sendLoc[c].key) # {}
  <2>1. Follow(c, CHOOSE i \in WithKey(sendLoc[c].key) : TRUE)
    BY <1>2 DEF Look
  <2> QED
    BY <1>1, <1>2, <2>1, FollowMoves, RoomStays DEF RoomInv
<1>3. CASE WithKey(sendLoc[c].key) = {}
  <2>1. SendGoto(c, "post", sendLoc[c])
    BY <1>3 DEF Look
  <2>2. RoomFits' /\ Keeps
    BY <1>1, <2>1, RoomStays DEF SendGoto
  <2> QED
    BY <1>1, <2>1, <2>2, Holds, SendMoves DEF SendLabels, Answering, RoomInv
<1> QED
  BY <1>2, <1>3

LEMMA PostKeeps == ASSUME RoomInv, NEW c \in Clients, Post(c) PROVE RoomInv'
<1>1. RoomFits' /\ Keeps
  BY RoomStays DEF Post, SendGoto
<1>2. sendPc[c] # "idle" /\ SendGoto(c, IF c \in mayPost THEN "insert" ELSE "refused", sendLoc[c])
  BY DEF Post
<1>3. c \in mayPost \/ room.rights
  BY DEF RoomInv, RoomFits, RightsKept
<1>4. CASE c \in mayPost
  BY <1>1, <1>2, <1>4, Holds, SendMoves DEF SendLabels, Answering, RoomInv
<1>5. CASE c \notin mayPost
  BY <1>1, <1>2, <1>3, <1>5, Holds, SendMoves DEF SendLabels, Answering, RoomInv
<1> QED
  BY <1>4, <1>5

LEMMA InsertKeeps == ASSUME RoomInv, NEW c \in Clients, Insert(c) PROVE RoomInv'
<1> DEFINE l == sendLoc[c]
           m == NewMessage(c)
           n == Len(msgs) + 1
           e == [l EXCEPT !.msg = n]
<1>1. /\ sendPc[c] = "insert" /\ UNCHANGED <<mayPost, Seen, acks>> /\ mayPost' = mayPost
  BY DEF Insert
<1>2. l \in SendType /\ Honestly(l.key, l.text)
  BY <1>1, Holds
<1>3. CASE WithKey(l.key) = {}
  <2>1. msgs' = Append(msgs, m) /\ SendGoto(c, "emit", e) /\ room' = room
    BY <1>3 DEF Insert, SendGoto
  <2>2. m \in MessageType /\ m.key = l.key /\ m.text = l.text
    BY <1>2 DEF NewMessage, SendType, MessageType
  <2>3. msgs \in Seq(MessageType) /\ n \in Nat
    BY DEF RoomInv, RoomFits
  <2> HIDE DEF m, l
  <2>4. /\ msgs' \in Seq(MessageType) /\ DOMAIN msgs' = DOMAIN msgs \cup {n} /\ n \notin DOMAIN msgs
        /\ msgs'[n] = m /\ \A i \in DOMAIN msgs : msgs'[i] = msgs[i]
    BY <2>1, <2>2, <2>3
  <2>5. Keeps
    BY <2>4 DEF Keeps
  <2>6. e \in SendType /\ e.key = l.key /\ e.text = l.text /\ e.msg = n
    BY <1>2, <2>3 DEF SendType
  <2>7. OneRowPerKey(msgs')
    <3>1. \A i \in DOMAIN msgs : l.key # NoKey => msgs[i].key # l.key
      BY <1>3 DEF WithKey
    <3> QED
      BY <2>2, <2>4, <3>1 DEF OneRowPerKey, RoomInv, RoomFits
  <2>8. RowsHonest(msgs')
    BY <1>2, <2>2, <2>4 DEF RowsHonest, RoomInv, RoomFits
  <2>9. AcksStand(acks, msgs')
    BY <2>5, <2>1, StandsStill DEF AcksStand, RoomInv, RoomFits
  <2>10. RoomFits'
    BY <1>1, <2>1, <2>4, <2>7, <2>8, <2>9
       DEF RoomInv, RoomFits, OneRowPerKey, RowsHonest, Honestly, AcksStand, Stands, RightsKept, Seen
  <2>11. Stands(msgs', e.msg, e.key, e.text) /\ Honestly(e.key, e.text)
    BY <1>2, <2>2, <2>4, <2>6 DEF Stands, Honestly
  <2> HIDE DEF e
  <2> QED
    BY <2>1, <2>5, <2>6, <2>10, <2>11, SendMoves DEF SendLabels, Answering, RoomInv
<1>4. CASE WithKey(l.key) # {}
  <2>1. msgs' = msgs /\ Follow(c, CHOOSE i \in WithKey(l.key) : TRUE)
    BY <1>4 DEF Insert
  <2> QED
    BY <1>1, <1>4, <2>1, FollowMoves, RoomStays DEF RoomInv, Stored
<1> QED
  BY <1>3, <1>4

LEMMA EmitKeeps == ASSUME RoomInv, NEW c \in Clients, Emit(c) PROVE RoomInv'
<1> DEFINE l == sendLoc[c]
<1>1. /\ sendPc[c] = "emit" /\ msgs' = msgs /\ mayPost' = mayPost /\ readAt' = readAt
      /\ screen' = [r \in Readers |-> screen[r] \cup {l.msg}]
      /\ \E label \in {"enqueue", "enqueue_lost"} : SendGoto(c, label, l)
      /\ acks' \subseteq acks \cup {Answered(c)}
  BY DEF Emit, Stored
<1>2. l \in SendType /\ Honestly(l.key, l.text) /\ Stands(msgs, l.msg, l.key, l.text)
  BY <1>1, Holds DEF Answering
<1>3. Keeps /\ room' = room
  BY <1>1 DEF Keeps, SendGoto
<1>4. screen' \in [Readers -> SUBSET Nat]
  BY <1>1, <1>2 DEF RoomInv, RoomFits, SendType
<1>5. AcksStand(acks', msgs)
  <2>1. Answered(c).msg = l.msg /\ Answered(c).key = l.key /\ Answered(c).text = l.text
    BY DEF Answered
  <2> QED
    BY <1>1, <1>2, <2>1 DEF AcksStand, RoomInv, RoomFits
<1>6. RoomFits'
  BY <1>1, <1>3, <1>4, <1>5 DEF RoomInv, RoomFits, OneRowPerKey, RowsHonest, Honestly, AcksStand, Stands, RightsKept
<1>7. PICK label \in {"enqueue", "enqueue_lost"} : SendGoto(c, label, l)
  BY <1>1
<1>8. Stands(msgs', l.msg, l.key, l.text)
  BY <1>1, <1>2 DEF Stands
<1> QED
  BY <1>2, <1>3, <1>6, <1>7, <1>8, SendMoves DEF SendLabels, Answering, RoomInv

LEMMA QueueKeeps == ASSUME RoomInv, NEW c \in Clients, EnqueuePush(c) PROVE RoomInv'
<1>1. sendPc[c] # "idle" /\ (SendGoto(c, "idle", NoSend) \/ SendGoto(c, "lost", sendLoc[c]))
  BY DEF EnqueuePush
<1>2. RoomFits' /\ Keeps
  BY <1>1, RoomStays DEF EnqueuePush, SendGoto
<1> QED
  BY <1>1, <1>2, Holds, SendMoves DEF SendLabels, Answering, RoomInv

LEMMA BreakKeeps == ASSUME RoomInv, NEW c \in Clients, Break(c) PROVE RoomInv'
<1>1. sendPc[c] # "idle" /\ SendGoto(c, "lost", sendLoc[c])
  BY DEF Break
<1>2. RoomFits' /\ Keeps
  BY <1>1, RoomStays DEF Break, SendGoto
<1> QED
  BY <1>1, <1>2, Holds, SendMoves DEF SendLabels, Answering, RoomInv

LEMMA GiveUpKeeps == ASSUME RoomInv, NEW c \in Clients, GiveUp(c) PROVE RoomInv'
<1>1. SendGoto(c, "idle", NoSend)
  BY DEF GiveUp
<1>2. RoomFits' /\ Keeps
  BY <1>1, RoomStays DEF GiveUp, SendGoto
<1> QED
  BY <1>1, <1>2, SendMoves DEF SendLabels, Answering, RoomInv

\* An edit or a deletion changes the text or the mark of one message.
LEMMA RowChanges ==
    ASSUME RoomInv, room.edits, NEW i \in DOMAIN msgs, NEW m \in MessageType, m.key = msgs[i].key,
           msgs' = [msgs EXCEPT ![i] = m],
           UNCHANGED <<mayPost, Seen, acks, room, sendPc, sendLoc>>
    PROVE  RoomInv'
<1>1. /\ msgs' \in Seq(MessageType) /\ DOMAIN msgs' = DOMAIN msgs
      /\ \A j \in DOMAIN msgs : msgs'[j].key = msgs[j].key
  BY DEF RoomInv, RoomFits
<1>2. Keeps
  BY <1>1 DEF Keeps
<1>3. OneRowPerKey(msgs') /\ RowsHonest(msgs')
  BY <1>1 DEF OneRowPerKey, RowsHonest, RoomInv, RoomFits
<1>4. AcksStand(acks, msgs')
  BY <1>2, StandsStill DEF AcksStand, RoomInv, RoomFits
<1>5. RoomFits'
  BY <1>1, <1>3, <1>4 DEF RoomInv, RoomFits, OneRowPerKey, RowsHonest, Honestly, AcksStand, Stands, RightsKept, Seen
<1> QED
  BY <1>2, <1>5, SendsStay DEF RoomInv

LEMMA EditKeeps == ASSUME RoomInv, NEW c \in Clients, Edit(c) PROVE RoomInv'
<1>1. PICK i \in DOMAIN msgs, text \in Texts : msgs' = [msgs EXCEPT ![i].text = text]
  BY DEF Edit
<1> DEFINE m == [msgs[i] EXCEPT !.text = text]
<1>2. msgs[i] \in MessageType
  BY DEF RoomInv, RoomFits
<1>3. m \in MessageType /\ m.key = msgs[i].key
  BY <1>2 DEF MessageType
<1>4. msgs' = [msgs EXCEPT ![i] = m]
  BY <1>1
<1> HIDE DEF m
<1> QED
  BY <1>3, <1>4, RowChanges DEF Edit

LEMMA DeleteKeeps == ASSUME RoomInv, NEW c \in Clients, Delete(c) PROVE RoomInv'
<1>1. PICK i \in DOMAIN msgs : msgs' = [msgs EXCEPT ![i].deleted = TRUE]
  BY DEF Delete
<1> DEFINE m == [msgs[i] EXCEPT !.deleted = TRUE]
<1>2. msgs[i] \in MessageType
  BY DEF RoomInv, RoomFits
<1>3. m \in MessageType /\ m.key = msgs[i].key
  BY <1>2 DEF MessageType
<1>4. msgs' = [msgs EXCEPT ![i] = m]
  BY <1>1
<1> HIDE DEF m
<1> QED
  BY <1>3, <1>4, RowChanges DEF Delete

LEMMA ReadKeeps == ASSUME RoomInv, NEW r \in Readers, MarkRead(r) PROVE RoomInv'
<1>1. /\ readAt' = [readAt EXCEPT ![r] = Len(msgs)]
      /\ msgs' = msgs /\ UNCHANGED <<mayPost, screen, acks, room, sendPc, sendLoc>>
  BY DEF MarkRead, Stored
<1>2. Keeps
  BY <1>1 DEF Keeps
<1>3. readAt' \in [Readers -> Nat]
  BY <1>1 DEF RoomInv, RoomFits
<1>4. RoomFits'
  BY <1>1, <1>3 DEF RoomInv, RoomFits, OneRowPerKey, RowsHonest, Honestly, AcksStand, Stands, RightsKept
<1> QED
  BY <1>1, <1>2, <1>4, SendsStay DEF RoomInv

LEMMA EntitleKeeps == ASSUME RoomInv, NEW c \in Clients, Entitle(c) PROVE RoomInv'
<1>1. /\ room.rights /\ mayPost' \subseteq Clients
      /\ UNCHANGED <<msgs, readAt, screen, acks, room, sendPc, sendLoc>>
  BY DEF Entitle, RoomInv, RoomFits, Seen
<1>2. Keeps
  BY <1>1 DEF Keeps
<1>3. RoomFits'
  BY <1>1 DEF RoomInv, RoomFits, OneRowPerKey, RowsHonest, Honestly, AcksStand, Stands, RightsKept
<1> QED
  BY <1>1, <1>2, <1>3, SendsStay DEF RoomInv

LEMMA PushKeeps == ASSUME RoomInv, Push \/ UNCHANGED roomVars PROVE RoomInv'
<1>1. UNCHANGED <<Stored, Seen, acks>> /\ UNCHANGED <<room, sendPc, sendLoc>>
  BY DEF Push, roomVars, Stored, Seen
<1>2. RoomFits' /\ Keeps
  BY <1>1, RoomStays
<1> QED
  BY <1>1, <1>2, SendsStay DEF RoomInv

-----------------------------------------------------------------------------
(* The theorems.                                                           *)

LEMMA RoomInvInit == ASSUME RoomInit PROVE RoomInv
<1>1. /\ room \in Rooms /\ msgs = <<>> /\ mayPost = Clients /\ acks = {}
      /\ readAt = [r \in Readers |-> 0] /\ screen = [r \in Readers |-> {}]
      /\ sendPc = [c \in Clients |-> "idle"] /\ sendLoc = [c \in Clients |-> NoSend]
  BY DEF RoomInit
<1>2. RoomFits
  BY <1>1 DEF RoomFits, OneRowPerKey, RowsHonest, AcksStand, RightsKept
<1>3. SendsFit /\ RetryNeverRefused
  BY <1>1 DEF SendsFit, SendFits, SendLabels, Answering, RetryNeverRefused
<1> QED
  BY <1>1, <1>2, <1>3 DEF RoomInv

LEMMA RoomInvNext == ASSUME RoomInv, [RoomNext]_roomVars PROVE RoomInv'
<1>1. CASE \E c \in Clients : Sending(c) \/ Break(c) \/ Edit(c) \/ Delete(c) \/ Entitle(c)
  <2>1. PICK c \in Clients : Sending(c) \/ Break(c) \/ Edit(c) \/ Delete(c) \/ Entitle(c)
    BY <1>1
  <2>2. CASE Sending(c)
    BY <2>2, SendKeeps, LookKeeps, PostKeeps, InsertKeeps, EmitKeeps, QueueKeeps, GiveUpKeeps DEF Sending
  <2> QED
    BY <2>1, <2>2, BreakKeeps, EditKeeps, DeleteKeeps, EntitleKeeps
<1>2. CASE \E r \in Readers : MarkRead(r)
  BY <1>2, ReadKeeps
<1>3. CASE Push \/ UNCHANGED roomVars
  BY <1>3, PushKeeps
<1> QED
  BY <1>1, <1>2, <1>3 DEF RoomNext

LEMMA RoomInvSound == ASSUME RoomInv PROVE SendsSound
<1>1. RoomTypeOK
  BY DEF RoomInv, RoomFits, RoomTypeOK, MessageType, MaybeKeys
<1>2. OneMessagePerKey
  <2>1. \A a \in acks : Stands(msgs, a.msg, a.key, a.text)
    BY DEF RoomInv, RoomFits, AcksStand
  <2>2. OneRowPerKey(msgs)
    BY DEF RoomInv, RoomFits
  <2> QED
    BY <2>1, <2>2 DEF OneMessagePerKey, Stands, OneRowPerKey
<1> QED
  BY <1>1, <1>2 DEF SendsSound, RoomInv

\* A key stands for one message and every acknowledgement names it, whoever sends, repeats,
\* edits or loses the right to write; and an honest repetition is never refused
\* (createRoomMessage, sameLogicalSend).
THEOREM SendsAreSound == RoomSpec => []SendsSound
<1>1. RoomInit => RoomInv
  BY RoomInvInit
<1>2. RoomInv /\ [RoomNext]_roomVars => RoomInv'
  BY RoomInvNext
<1>3. RoomInv => SendsSound
  BY RoomInvSound
<1> QED
  BY <1>1, <1>2, <1>3, PTL DEF RoomSpec

-----------------------------------------------------------------------------
(***************************************************************************)
(* Proofs about ServerLifecycle for any configurations.  A shutdown that     *)
(* has passed a step may rely on what the step waited for, because nothing   *)
(* that runs during a shutdown opens again what it has closed: the server    *)
(* accepts nobody, a worker once closed takes no job.                        *)
(***************************************************************************)

Typed == ServerTypeOK /\ \A q \in Queues : errors[q] <= mishaps

\* What main() has done at each point of the start.
Started ==
    /\ boot \in {"rest", "tcp", "banner"} => status["database"] \in {"ready", "down"}
    /\ boot \in {"socket", "listen", "running"} => status["database"] = "ready"
    /\ boot # "running" => server = "none" /\ arrivals = 0 /\ teardown = <<>> /\ \A q \in Queues : ~job[q]
    /\ boot = "running" => server # "none"
    /\ teardown # <<>> => server # "open"

\* What a shutdown that has passed n steps may rely on, now and after a step.
Emptied(s, c) == s = "closed" /\ \A k \in DOMAIN c : c[k] = 0
Relies(n, s, c, w, o) ==
    /\ n > 0 => Emptied(s, c)
    /\ "step" \notin config.faults =>
          /\ n > 1 => w["chat"] = "none"
          /\ n > 2 => w["media"] = "none"
          /\ n > 5 => "socket" \notin o
Passed(n) == Relies(n, server, conns, worker, open)
PassedNext(n) == Relies(n, server', conns', worker', open')

Draining ==
    /\ \A q \in Queues : worker[q] = "none" => ~job[q]
    /\ \A i \in DOMAIN teardown : Passed(teardown[i])

\* How it ended.
Ended ==
    /\ exit = "failed" => server = "none" /\ arrivals = 0
    /\ CleanExitDrains

ServerInv == Typed /\ Started /\ Draining /\ Ended /\ WorkersReported

-----------------------------------------------------------------------------
(* What the steps share.                                                   *)

LEMMA QueueFacts ==
    /\ Queues = {"chat", "media"}
    /\ WorkerOf["chat"] = "chatWorker" /\ WorkerOf["media"] = "mediaWorker"
    /\ QueueOf["chat"] = "chatQueue" /\ QueueOf["media"] = "mediaQueue"
    /\ \A q \in Queues : WorkerOf[q] \in Components /\ WorkerOf[q] # "database"
    /\ \A q \in Queues : QueueOf[q] \in {"mediaQueue", "chatQueue"}
    /\ \A q, r \in Queues : WorkerOf[q] = WorkerOf[r] => q = r
BY DEF Queues, WorkerOf, QueueOf, Components

LEMMA StepFacts ==
    ASSUME NEW n \in 1..7
    PROVE  /\ n = 1 <=> Steps[n] = "chatWorker"
           /\ n = 2 <=> Steps[n] = "mediaWorker"
           /\ n = 3 <=> Steps[n] = "mediaQueue"
           /\ n = 4 <=> Steps[n] = "chatQueue"
           /\ n = 5 <=> Steps[n] = "socket"
           /\ n = 6 <=> Steps[n] = "blacklist"
           /\ n = 7 <=> Steps[n] = "prisma"
<1>1. n = 1 \/ n = 2 \/ n = 3 \/ n = 4 \/ n = 5 \/ n = 6 \/ n = 7
  OBVIOUS
<1> QED
  BY <1>1 DEF Steps

LEMMA ConfigFacts ==
    ASSUME Typed
    PROVE  /\ config \in Configs /\ config.maxCalls \in Nat /\ config.maxFaults \in Nat
           /\ arrivals \in Nat /\ mishaps \in Nat /\ mishaps <= config.maxFaults
           /\ errors \in [Queues -> Nat]
BY ConfigsAssumption DEF Typed, ServerTypeOK

LEMMA TrafficCounted ==
    ASSUME Typed, NEW kind, Traffic(kind) PROVE arrivals' \in 0..config.maxCalls
BY ConfigFacts DEF Traffic

LEMMA MishapCounted ==
    ASSUME Typed, NEW kind, Mishap(kind) \/ UNCHANGED mishaps
    PROVE  mishaps' \in 0..config.maxFaults /\ mishaps <= mishaps'
BY ConfigFacts DEF Mishap

LEMMA NoMishap ==
    ASSUME Typed, UNCHANGED mishaps PROVE mishaps' \in 0..config.maxFaults /\ mishaps <= mishaps'
BY ConfigFacts

\* Nothing that has ended runs, and nothing ends by itself.
LEMMA EndedStays ==
    ASSUME exit = "no", exit' \in {"no", "killed", "crashed", "forced"} PROVE Ended'
BY DEF Ended, CleanExitDrains

\* A process that serves: the start is over.
LEMMA StartedRunning ==
    ASSUME Started, boot = "running", boot' = boot, status'["database"] = status["database"],
           server' # "none", teardown' # <<>> => server' # "open"
    PROVE  Started'
BY DEF Started

LEMMA DrainingNext ==
    ASSUME config' = config, \A q \in Queues : worker'[q] = "none" => ~job'[q],
           \A i \in DOMAIN teardown' : PassedNext(teardown'[i])
    PROVE  Draining'
BY DEF Draining, Passed, PassedNext, Relies, Emptied

\* Steps that leave the server, the workers and the shutdown alone.
LEMMA DrainingStays ==
    ASSUME Draining, UNCHANGED <<config, server, worker, teardown>>,
           server # "closed" \/ conns' = conns,
           \A q \in Queues : worker[q] = "none" => job'[q] = job[q],
           "socket" \in open' => "socket" \in open
    PROVE  Draining'
<1>1. ASSUME NEW i \in DOMAIN teardown PROVE PassedNext(teardown'[i])
  BY DEF Draining, Passed, PassedNext, Relies, Emptied
<1> QED
  BY <1>1, DrainingNext DEF Draining

LEMMA ReportedStays ==
    ASSUME WorkersReported, UNCHANGED errors, \A q \in Queues : status'[WorkerOf[q]] = status[WorkerOf[q]]
    PROVE  WorkersReported'
BY DEF WorkersReported

-----------------------------------------------------------------------------
(* The start.                                                              *)

LEMMA LoadEnvKeeps == ASSUME ServerInv, LoadEnv PROVE ServerInv'
<1>0. /\ UNCHANGED <<config, arrivals, up, status, server, conns, open, worker, job, waiting, errors, late, teardown>>
      /\ boot' \in {boot, "database"} /\ exit' \in {exit, "failed"}
      /\ Mishap("boot") \/ UNCHANGED mishaps
  BY DEF LoadEnv, Exit, workVars
<1>1. Typed'
  BY <1>0, MishapCounted, ConfigFacts DEF ServerInv, Typed, ServerTypeOK
<1>2. Started'
  BY DEF ServerInv, LoadEnv, Exit, Started, workVars
<1>3. Draining'
  BY DrainingStays DEF ServerInv, LoadEnv, Exit, workVars
<1>4. Ended'
  BY DEF ServerInv, LoadEnv, Exit, Ended, Started, CleanExitDrains, Alive
<1>5. WorkersReported'
  BY ReportedStays DEF ServerInv, LoadEnv, Exit, workVars
<1> QED
  BY <1>1, <1>2, <1>3, <1>4, <1>5 DEF ServerInv

\* A check marks its component, which is none of the workers.
LEMMA CheckedKeeps ==
    ASSUME ServerInv, NEW here, NEW c \in Components, NEW answers, NEW bad, NEW next,
           Checked(here, c, answers, bad, next),
           bad \in {"down", "degraded"},
           \/ here = "database" /\ c = "database" /\ bad = "down" /\ next = "rest"
           \/ here = "rest" /\ c = "upstashRedis" /\ next = "tcp"
           \/ here = "tcp" /\ c = "tcpRedis" /\ next = "banner"
    PROVE  ServerInv'
<1>1. PICK s \in {"ready", bad} : status' = [status EXCEPT ![c] = s]
  BY DEF Checked, Report
<1>2. /\ exit = "no" /\ boot = here /\ boot' = next
      /\ UNCHANGED <<config, arrivals, mishaps, up, server, conns, open, worker, job, waiting, errors, late, teardown, exit>>
  BY DEF Checked, Alive, workVars
<1>3. Typed'
  BY <1>1, <1>2 DEF ServerInv, Typed, ServerTypeOK
<1>4. status \in [Components -> {"starting", "ready", "degraded", "down"}]
  BY DEF ServerInv, Typed, ServerTypeOK
<1>5. Started'
  BY <1>1, <1>2, <1>4 DEF ServerInv, Started
<1>6. Draining' /\ Ended'
  BY <1>2, DrainingStays, EndedStays DEF ServerInv
<1>7. WorkersReported'
  <2>1. \A q \in Queues : WorkerOf[q] # c
    BY DEF Queues, WorkerOf
  <2> QED
    BY <1>1, <1>2, <1>4, <2>1, QueueFacts, ReportedStays DEF ServerInv
<1> QED
  BY <1>3, <1>5, <1>6, <1>7 DEF ServerInv

LEMMA ChecksKeep == ASSUME ServerInv, CheckDatabase \/ CheckRest \/ CheckTcp PROVE ServerInv'
<1>1. {"database", "upstashRedis", "tcpRedis"} \subseteq Components
  BY DEF Components
<1> QED
  BY <1>1, CheckedKeeps DEF CheckDatabase, CheckRest, CheckTcp

LEMMA BannerKeeps == ASSUME ServerInv, Banner PROVE ServerInv'
<1>1. Typed'
  BY DEF ServerInv, Banner, Exit, Typed, ServerTypeOK, workVars, Alive
<1>2. Started'
  BY DEF ServerInv, Banner, Exit, Started, workVars
<1>3. Draining'
  BY DrainingStays DEF ServerInv, Banner, Exit, workVars
<1>4. Ended'
  BY DEF ServerInv, Banner, Exit, Ended, Started, CleanExitDrains, Alive
<1>5. WorkersReported'
  BY ReportedStays DEF ServerInv, Banner, Exit, workVars
<1> QED
  BY <1>1, <1>2, <1>3, <1>4, <1>5 DEF ServerInv

LEMMA OpenSocketKeeps == ASSUME ServerInv, OpenSocket PROVE ServerInv'
<1>1. /\ exit = "no" /\ boot = "socket" /\ boot' = "listen" /\ open' = open \cup {"socket", "prisma"}
      /\ status' = [status EXCEPT !["socketIo"] = "ready"]
      /\ UNCHANGED <<config, arrivals, mishaps, up, server, conns, worker, job, waiting, errors, late, teardown, exit>>
  BY DEF OpenSocket, Alive, Report
<1>2. Typed'
  BY <1>1 DEF ServerInv, Typed, ServerTypeOK
<1>3. status \in [Components -> {"starting", "ready", "degraded", "down"}]
  BY DEF ServerInv, Typed, ServerTypeOK
<1>4. Started'
  BY <1>1, <1>3 DEF ServerInv, Started, Components
<1>5. Draining'
  BY <1>1 DEF ServerInv, Started, Draining
<1>6. WorkersReported'
  BY <1>1, <1>3, QueueFacts, ReportedStays DEF ServerInv, Queues, WorkerOf
<1> QED
  BY <1>1, <1>2, <1>4, <1>5, <1>6, EndedStays DEF ServerInv

LEMMA ListenKeeps == ASSUME ServerInv, Listen PROVE ServerInv'
<1>1. /\ exit = "no" /\ boot = "listen" /\ server = "none" /\ arrivals = 0 /\ teardown = <<>>
      /\ \A q \in Queues : ~job[q]
      /\ UNCHANGED <<config, arrivals>>
  BY DEF Listen, Alive, ServerInv, Started
<1>2. CASE Mishap("boot") /\ UNCHANGED bootVars /\ Exit("failed")
  <2>1. /\ UNCHANGED <<boot, up, status, server, conns, open, worker, job, waiting, errors, late, teardown>>
        /\ exit' = "failed"
    BY <1>2 DEF bootVars, Exit, workVars
  <2>2. Typed'
    BY <1>1, <1>2, <2>1, MishapCounted, ConfigFacts DEF ServerInv, Typed, ServerTypeOK
  <2>3. Started' /\ Ended'
    BY <1>1, <2>1 DEF ServerInv, Started, Ended, CleanExitDrains
  <2> QED
    BY <1>1, <2>1, <2>2, <2>3, DrainingStays, ReportedStays DEF ServerInv
<1>3. CASE /\ boot' = "running" /\ server' = "open" /\ StartWorkers
           /\ UNCHANGED <<mishaps, up, status, conns, open, job, waiting, errors, late, teardown, exit>>
  <2>1. worker' \in [Queues -> {"none", "open", "closing"}]
    BY <1>3 DEF StartWorkers
  <2>2. Typed'
    BY <1>1, <1>3, <2>1 DEF ServerInv, Typed, ServerTypeOK
  <2>3. Started'
    BY <1>1, <1>3 DEF ServerInv, Started
  <2>4. Draining'
    BY <1>1, <1>3 DEF ServerInv, Draining
  <2> QED
    BY <1>1, <1>3, <2>2, <2>3, <2>4, EndedStays, ReportedStays DEF ServerInv
<1> QED
  BY <1>2, <1>3 DEF Listen

-----------------------------------------------------------------------------
(* Traffic, jobs and timers.                                               *)

\* What runs while the process serves and is not about its end.
Serves ==
    /\ exit = "no" /\ boot = "running"
    /\ UNCHANGED <<config, boot, up, status, server, worker, errors, teardown, exit>>

LEMMA ServesKeeps ==
    ASSUME ServerInv, Serves, Typed',
           server = "open" \/ \A k \in DOMAIN conns : conns[k] = 0 => conns'[k] = 0,
           \A q \in Queues : worker[q] = "none" => job'[q] = job[q],
           "socket" \in open' => "socket" \in open
    PROVE  ServerInv'
<1>1. Started'
  BY StartedRunning DEF ServerInv, Started, Serves
<1>2. DOMAIN conns' = DOMAIN conns
  BY DEF ServerInv, Typed, ServerTypeOK
<1>3. ASSUME NEW i \in DOMAIN teardown PROVE PassedNext(teardown'[i])
  <2>1. server # "open"
    BY DEF ServerInv, Started, Typed, ServerTypeOK
  <2> QED
    BY <1>2, <2>1 DEF ServerInv, Draining, Passed, PassedNext, Relies, Emptied, Serves
<1>4. Draining'
  <2>1. \A q \in Queues : worker'[q] = "none" => ~job'[q]
    BY DEF ServerInv, Draining, Serves
  <2> QED
    BY <1>3, <2>1, DrainingNext DEF Serves
<1> QED
  BY <1>1, <1>4, EndedStays, ReportedStays DEF ServerInv, Serves

LEMMA ConnectKeeps ==
    ASSUME ServerInv, NEW kind \in {"request", "client"}, Connect(kind) PROVE ServerInv'
<1>1. /\ Serves /\ server = "open" /\ conns' = [conns EXCEPT ![kind] = 1]
      /\ open' \in {open, open \cup {"blacklist"}}
      /\ UNCHANGED <<mishaps, job, waiting, late>> /\ Traffic(kind)
  BY DEF Connect, Serves, Running, Alive, bootVars
<1>2. Typed'
  BY <1>1, TrafficCounted DEF ServerInv, Serves, Typed, ServerTypeOK
<1> QED
  BY <1>1, <1>2, ServesKeeps

LEMMA LeaveKeeps ==
    ASSUME ServerInv, NEW kind \in {"request", "client"}, Leave(kind) PROVE ServerInv'
<1>1. /\ Serves /\ conns' = [conns EXCEPT ![kind] = 0] /\ late' \subseteq late \cup {"handler"}
      /\ UNCHANGED <<arrivals, mishaps, open, job, waiting>>
  BY DEF Leave, Serves, Running, Alive, bootVars
<1>2. Typed'
  BY <1>1 DEF ServerInv, Serves, Typed, ServerTypeOK
<1>3. \A k \in DOMAIN conns : conns[k] = 0 => conns'[k] = 0
  BY <1>1 DEF ServerInv, Typed, ServerTypeOK
<1> QED
  BY <1>1, <1>2, <1>3, ServesKeeps

\* A job opens its queue, and waits there.
LEMMA AddFits ==
    ASSUME Typed, NEW q \in Queues, Add(q) \/ UNCHANGED <<open, waiting>>
    PROVE  /\ open' \subseteq {"mediaQueue", "chatQueue", "socket", "blacklist", "prisma"}
           /\ waiting' \in [Queues -> BOOLEAN]
           /\ "socket" \in open' => "socket" \in open
<1>1. QueueOf[q] \in {"mediaQueue", "chatQueue"}
  BY QueueFacts
<1>2. \/ open' = open \cup {QueueOf[q]} /\ waiting' = [waiting EXCEPT ![q] = TRUE]
      \/ UNCHANGED <<open, waiting>>
  BY DEF Add
<1>3. /\ open \subseteq {"mediaQueue", "chatQueue", "socket", "blacklist", "prisma"}
      /\ waiting \in [Queues -> BOOLEAN]
  BY DEF Typed, ServerTypeOK
<1> QED
  BY <1>1, <1>2, <1>3

LEMMA AddJobKeeps == ASSUME ServerInv, NEW q \in Queues, AddJob(q) PROVE ServerInv'
<1>1. Serves /\ Add(q) /\ Traffic(q) /\ UNCHANGED <<mishaps, conns, job, late>>
  BY DEF AddJob, Serves, Running, Alive, bootVars
<1>2. Typed'
  BY <1>1, TrafficCounted, AddFits DEF ServerInv, Serves, Typed, ServerTypeOK
<1> QED
  BY <1>1, <1>2, AddFits, ServesKeeps DEF ServerInv

LEMMA TickKeeps == ASSUME ServerInv, Tick PROVE ServerInv'
<1>1. /\ Serves /\ late' = late \cup {"sweep"} /\ Traffic("sweep")
      /\ UNCHANGED <<mishaps, conns, open, job, waiting>>
  BY DEF Tick, Serves, Running, Alive, bootVars
<1>2. Typed'
  BY <1>1, TrafficCounted DEF ServerInv, Serves, Typed, ServerTypeOK
<1> QED
  BY <1>1, <1>2, ServesKeeps

LEMMA LateEndsKeeps == ASSUME ServerInv, NEW what \in late, LateEnds(what) PROVE ServerInv'
<1>1. /\ Serves /\ late' = late \ {what} /\ UNCHANGED <<arrivals, mishaps, conns, job>>
      /\ \E q \in Queues : Add(q) \/ UNCHANGED <<open, waiting>>
  BY DEF LateEnds, Serves, Running, Alive, bootVars, Queues
<1>2. PICK q \in Queues : Add(q) \/ UNCHANGED <<open, waiting>>
  BY <1>1
<1>3. Typed'
  BY <1>1, <1>2, AddFits DEF ServerInv, Serves, Typed, ServerTypeOK
<1> QED
  BY <1>1, <1>2, <1>3, AddFits, ServesKeeps DEF ServerInv

LEMMA JobKeeps == ASSUME ServerInv, NEW q \in Queues, TakeJob(q) \/ EndJob(q) PROVE ServerInv'
<1>1. /\ Serves /\ UNCHANGED <<arrivals, mishaps, conns, open, late>>
      /\ waiting' \in [Queues -> BOOLEAN]
      /\ \E b \in BOOLEAN : job' = [job EXCEPT ![q] = b] /\ (worker[q] = "open" \/ ~b)
  BY DEF TakeJob, EndJob, Serves, Running, Alive, bootVars, ServerInv, Typed, ServerTypeOK
<1>2. Typed'
  BY <1>1 DEF ServerInv, Serves, Typed, ServerTypeOK
<1>3. \A r \in Queues : worker[r] = "none" => job'[r] = job[r]
  BY <1>1 DEF ServerInv, Typed, ServerTypeOK, Draining
<1> QED
  BY <1>1, <1>2, <1>3, ServesKeeps

LEMMA WorkerErrorKeeps == ASSUME ServerInv, NEW q \in Queues, WorkerError(q) PROVE ServerInv'
<1>1. /\ exit = "no" /\ boot = "running" /\ Mishap("line")
      /\ errors' = [errors EXCEPT ![q] = @ + 1]
      /\ status' = IF errors[q] = 0 THEN [status EXCEPT ![WorkerOf[q]] = "degraded"] ELSE status
      /\ UNCHANGED <<config, arrivals, boot, up, server, conns, open, worker, job, waiting, late, teardown, exit>>
  BY DEF WorkerError, Running, Alive, Report
<1>2. /\ status \in [Components -> {"starting", "ready", "degraded", "down"}]
      /\ errors \in [Queues -> Nat] /\ mishaps \in Nat /\ mishaps' = mishaps + 1
      /\ WorkerOf[q] \in Components /\ WorkerOf[q] # "database"
      /\ errors[q] <= mishaps
  BY <1>1, ConfigFacts, QueueFacts DEF ServerInv, Typed, ServerTypeOK, Mishap
<1>3. /\ status' \in [Components -> {"starting", "ready", "degraded", "down"}]
      /\ status'["database"] = status["database"]
  BY <1>1, <1>2 DEF Components
<1>4. /\ errors' \in [Queues -> 0..config.maxFaults]
      /\ \A r \in Queues : errors'[r] <= mishaps'
  <2>1. \A r \in Queues : errors[r] \in Nat /\ errors[r] <= mishaps
    BY <1>2 DEF ServerInv, Typed
  <2>2. mishaps' <= config.maxFaults /\ config.maxFaults \in Nat
    BY <1>1, MishapCounted, ConfigFacts DEF ServerInv
  <2>3. ASSUME NEW r \in Queues PROVE errors'[r] \in Nat /\ errors'[r] <= mishaps'
    BY <1>1, <1>2, <2>1
  <2> QED
    BY <1>1, <1>2, <2>2, <2>3
<1>5. Typed'
  BY <1>1, <1>3, <1>4, MishapCounted DEF ServerInv, Typed, ServerTypeOK
<1>6. Started'
  BY <1>1, <1>3, StartedRunning DEF ServerInv, Started
<1>7. WorkersReported'
  <2>1. ASSUME NEW r \in Queues, r # q
        PROVE  errors'[r] = errors[r] /\ status'[WorkerOf[r]] = status[WorkerOf[r]]
    BY <1>1, <1>2, <2>1, QueueFacts
  <2>2. errors'[q] > 0 /\ status'[WorkerOf[q]] = "degraded"
    BY <1>1, <1>2 DEF ServerInv, WorkersReported
  <2> QED
    BY <2>1, <2>2 DEF ServerInv, WorkersReported
<1> QED
  BY <1>1, <1>5, <1>6, <1>7, DrainingStays, EndedStays DEF ServerInv

LEMMA WorkerReadyKeeps == ASSUME ServerInv, NEW q \in Queues, WorkerReady(q) PROVE ServerInv'
<1>1. /\ exit = "no" /\ boot = "running"
      /\ errors' = [errors EXCEPT ![q] = 0] /\ status' = [status EXCEPT ![WorkerOf[q]] = "ready"]
      /\ UNCHANGED <<config, arrivals, mishaps, boot, up, server, conns, open, worker, job, waiting, late, teardown, exit>>
  BY DEF WorkerReady, Running, Alive, Report
<1>2. /\ status \in [Components -> {"starting", "ready", "degraded", "down"}]
      /\ errors \in [Queues -> Nat] /\ mishaps \in Nat /\ config.maxFaults \in Nat
      /\ WorkerOf[q] \in Components /\ WorkerOf[q] # "database"
  BY ConfigFacts, QueueFacts DEF ServerInv, Typed, ServerTypeOK
<1>3. /\ status' \in [Components -> {"starting", "ready", "degraded", "down"}]
      /\ status'["database"] = status["database"]
  BY <1>1, <1>2 DEF Components
<1>4. /\ errors' \in [Queues -> 0..config.maxFaults]
      /\ \A r \in Queues : errors'[r] <= mishaps'
  BY <1>1, <1>2 DEF ServerInv, Typed, ServerTypeOK
<1>5. Typed'
  BY <1>1, <1>3, <1>4 DEF ServerInv, Typed, ServerTypeOK
<1>6. Started'
  BY <1>1, <1>3, StartedRunning DEF ServerInv, Started
<1>7. WorkersReported'
  <2>1. ASSUME NEW r \in Queues, r # q
        PROVE  errors'[r] = errors[r] /\ status'[WorkerOf[r]] = status[WorkerOf[r]]
    BY <1>1, <1>2, <2>1, QueueFacts
  <2>2. errors'[q] = 0 /\ status'[WorkerOf[q]] = "ready"
    BY <1>1, <1>2
  <2> QED
    BY <2>1, <2>2 DEF ServerInv, WorkersReported
<1> QED
  BY <1>1, <1>5, <1>6, <1>7, DrainingStays, EndedStays DEF ServerInv

LEMMA DatabaseKeeps == ASSUME ServerInv, Database PROVE ServerInv'
<1>1. /\ exit = "no" /\ up' = ~up /\ (Mishap("db") \/ UNCHANGED mishaps)
      /\ UNCHANGED <<config, arrivals, boot, status, server, conns, open, worker, job, waiting, errors, late, teardown, exit>>
  BY DEF Database, Running, Alive, workVars
<1>2. Typed'
  BY <1>1, MishapCounted, ConfigFacts DEF ServerInv, Typed, ServerTypeOK
<1>3. Started'
  BY <1>1 DEF ServerInv, Started
<1> QED
  BY <1>1, <1>2, <1>3, DrainingStays, EndedStays, ReportedStays DEF ServerInv

-----------------------------------------------------------------------------
(* The shutdown.                                                           *)

\* A new shutdown is at its beginning.
LEMMA SignalKeeps == ASSUME ServerInv, Signal PROVE ServerInv'
<1>1. exit = "no" /\ UNCHANGED <<config, arrivals, mishaps, boot, up, status, conns, open, worker, job, waiting, errors, late>>
  BY DEF Signal, Alive, Exit, workVars
<1>2. CASE boot = "running"
  <2>1. /\ server' = IF server = "open" THEN "closing" ELSE server
        /\ teardown' = Append(teardown, 0) /\ exit' = exit
    BY <1>2 DEF Signal
  <2>2. /\ teardown' \in Seq(0..7) /\ server' \in {"none", "open", "closing", "closed"}
        /\ server' # "open"
    BY <2>1 DEF ServerInv, Typed, ServerTypeOK
  <2>3. Typed'
    BY <1>1, <2>1, <2>2 DEF ServerInv, Typed, ServerTypeOK
  <2>4. Started'
    BY <1>1, <1>2, <2>1, <2>2, StartedRunning DEF ServerInv, Started
  <2>5. teardown \in Seq(0..7) /\ Len(teardown) \in Nat
    BY DEF ServerInv, Typed, ServerTypeOK
  <2>6. ASSUME NEW i \in DOMAIN teardown' PROVE PassedNext(teardown'[i])
    <3>1. CASE i \in DOMAIN teardown
      <4>1. teardown'[i] = teardown[i] /\ Passed(teardown[i])
        BY <2>1, <2>5, <3>1 DEF ServerInv, Draining
      <4> QED
        BY <1>1, <2>1, <4>1 DEF Passed, PassedNext, Relies, Emptied
    <3>2. CASE i \notin DOMAIN teardown
      <4>1. teardown'[i] = 0
        BY <2>1, <2>5, <3>2
      <4> QED
        BY <4>1 DEF Passed, PassedNext, Relies
    <3> QED
      BY <3>1, <3>2
  <2>7. Draining'
    <3>1. \A q \in Queues : worker'[q] = "none" => ~job'[q]
      BY <1>1 DEF ServerInv, Draining
    <3> QED
      BY <1>1, <2>6, <3>1, DrainingNext
  <2> QED
    BY <1>1, <2>1, <2>3, <2>4, <2>7, EndedStays, ReportedStays DEF ServerInv
<1>3. CASE boot # "running"
  <2>1. exit' = "killed" /\ UNCHANGED <<server, teardown>>
    BY <1>3 DEF Signal, Exit
  <2>2. Typed'
    BY <1>1, <2>1 DEF ServerInv, Typed, ServerTypeOK
  <2>3. Started'
    BY <1>1, <2>1 DEF ServerInv, Started
  <2> QED
    BY <1>1, <2>1, <2>2, <2>3, DrainingStays, EndedStays, ReportedStays DEF ServerInv
<1> QED
  BY <1>2, <1>3

\* One shutdown goes on; the others have passed what they had passed.
LEMMA Advances ==
    ASSUME ServerInv, exit = "no", boot = "running", NEW i \in DOMAIN teardown, NEW n \in 0..7,
           teardown' = [teardown EXCEPT ![i] = n],
           UNCHANGED <<config, arrivals, boot, up, status, conns, job, waiting, errors, late, exit>>,
           server' \in {server, "closed"}, worker' \in [Queues -> {"none", "open", "closing"}],
           mishaps' \in 0..config.maxFaults, mishaps <= mishaps',
           open' \subseteq open,
           \A q \in Queues : worker[q] = "none" => worker'[q] = "none",
           \A q \in Queues : worker'[q] = "none" => ~job[q],
           PassedNext(n)
    PROVE  ServerInv'
<1>1. /\ teardown \in Seq(0..7) /\ teardown # <<>>
      /\ \A q \in Queues : errors[q] \in Nat /\ errors[q] <= mishaps
      /\ mishaps \in Nat /\ mishaps' \in Nat
  BY ConfigFacts DEF ServerInv, Typed, ServerTypeOK
<1>2. teardown' \in Seq(0..7) /\ DOMAIN teardown' = DOMAIN teardown
  BY <1>1
<1>3. \A q \in Queues : errors[q] <= mishaps'
  BY <1>1
<1>4. Typed'
  BY <1>2, <1>3 DEF ServerInv, Typed, ServerTypeOK
<1>5. Started'
  BY <1>1, StartedRunning DEF ServerInv, Started
<1>6. ASSUME NEW j \in DOMAIN teardown PROVE PassedNext(teardown'[j])
  <2>1. CASE j = i
    BY <1>1, <2>1
  <2>2. CASE j # i
    <3>1. teardown'[j] = teardown[j] /\ Passed(teardown[j])
      BY <1>1, <2>2 DEF ServerInv, Draining
    <3>2. Emptied(server, conns) => Emptied(server', conns')
      BY DEF Emptied
    <3> QED
      BY <3>1, <3>2, QueueFacts DEF Passed, PassedNext, Relies
  <2> QED
    BY <2>1, <2>2
<1>7. Draining'
  BY <1>2, <1>6, DrainingNext
<1> QED
  BY <1>4, <1>5, <1>7, EndedStays, ReportedStays DEF ServerInv

LEMMA DrainedKeeps == ASSUME ServerInv, NEW i \in DOMAIN teardown, Drained(i) PROVE ServerInv'
<1>1. /\ exit = "no" /\ boot = "running" /\ \A k \in DOMAIN conns : conns[k] = 0
      /\ server' = "closed" /\ teardown' = [teardown EXCEPT ![i] = 1]
      /\ UNCHANGED <<config, arrivals, mishaps, boot, up, status, conns, open, worker, job, waiting, errors, late, exit>>
  BY DEF Drained, Running, Alive, workVars
<1>2. PassedNext(1)
  BY <1>1 DEF Passed, PassedNext, Relies, Emptied
<1>3. /\ worker \in [Queues -> {"none", "open", "closing"}] /\ mishaps \in 0..config.maxFaults
      /\ mishaps \in Nat /\ \A q \in Queues : worker[q] = "none" => ~job[q]
  BY ConfigFacts DEF ServerInv, Typed, ServerTypeOK, Draining
<1>4. mishaps' \in 0..config.maxFaults /\ mishaps <= mishaps' /\ 1 \in 0..7
  BY <1>1, NoMishap DEF ServerInv
<1> QED
  BY <1>1, <1>2, <1>3, <1>4, Advances

\* The number of the step a shutdown is at, and what it has passed.
LEMMA AtStep ==
    ASSUME ServerInv, NEW i \in DOMAIN teardown, NEW step, At(i, step)
    PROVE  /\ exit = "no" /\ boot = "running" /\ teardown[i] \in 1..7 /\ Steps[teardown[i]] = step
           /\ Passed(teardown[i])
BY DEF At, Running, Alive, ServerInv, Typed, ServerTypeOK, Draining

LEMMA StopWorkerKeeps ==
    ASSUME ServerInv, NEW i \in DOMAIN teardown, NEW q \in Queues, StopWorker(i, q) PROVE ServerInv'
<1> DEFINE n == teardown[i]
<1>1. /\ exit = "no" /\ boot = "running" /\ n \in 1..7 /\ Steps[n] = WorkerOf[q] /\ Passed(n)
      /\ UNCHANGED <<config, arrivals, mishaps, boot, up, status, server, conns, open, job, waiting, errors, late, exit>>
  BY AtStep DEF StopWorker, bootVars
<1>2. \/ q = "chat" /\ n = 1
      \/ q = "media" /\ n = 2
  BY <1>1, StepFacts, QueueFacts
<1>3. /\ worker \in [Queues -> {"none", "open", "closing"}] /\ mishaps \in 0..config.maxFaults
      /\ mishaps \in Nat /\ (\A r \in Queues : worker[r] = "none" => ~job[r])
      /\ teardown \in Seq(0..7)
  BY ConfigFacts DEF ServerInv, Typed, ServerTypeOK, Draining
<1>4. mishaps' \in 0..config.maxFaults /\ mishaps <= mishaps'
  BY <1>1, NoMishap DEF ServerInv
<1>5. CASE worker[q] = "open" /\ worker' = [worker EXCEPT ![q] = "closing"] /\ UNCHANGED teardown
  <2>1. teardown' = [teardown EXCEPT ![i] = n]
    BY <1>3, <1>5
  <2>2. \A r \in Queues : worker'[r] = "none" <=> worker[r] = "none"
    BY <1>3, <1>5
  <2>3. PassedNext(n)
    BY <1>1, <2>2, QueueFacts DEF Passed, PassedNext, Relies, Emptied
  <2>4. worker' \in [Queues -> {"none", "open", "closing"}] /\ n \in 0..7
    BY <1>1, <1>3, <1>5
  <2> HIDE DEF n
  <2> QED
    BY <1>1, <1>3, <1>4, <2>1, <2>2, <2>3, <2>4, Advances
<1>6. CASE /\ worker' \in {worker, [worker EXCEPT ![q] = "none"]} /\ worker'[q] = "none" /\ ~job[q]
           /\ NextStep(i)
  <2>1. teardown' = [teardown EXCEPT ![i] = n + 1] /\ n + 1 \in 0..7
    BY <1>2, <1>6 DEF NextStep
  <2>2. /\ worker' \in [Queues -> {"none", "open", "closing"}]
        /\ \A r \in Queues : worker[r] = "none" => worker'[r] = "none"
        /\ \A r \in Queues : worker'[r] = "none" => ~job[r]
    BY <1>3, <1>6
  <2>3. PassedNext(n + 1)
    BY <1>1, <1>2, <1>6, <2>2, QueueFacts DEF Passed, PassedNext, Relies, Emptied
  <2> HIDE DEF n
  <2> QED
    BY <1>1, <1>3, <1>4, <2>1, <2>2, <2>3, Advances
<1>7. worker[q] = "none" => ~job[q]
  BY <1>3
<1>8. \/ worker[q] = "open" /\ worker' = [worker EXCEPT ![q] = "closing"] /\ UNCHANGED teardown
      \/ ~job[q] /\ worker' = [worker EXCEPT ![q] = "none"] /\ NextStep(i)
      \/ worker[q] = "none" /\ UNCHANGED worker /\ NextStep(i)
  BY DEF StopWorker
<1> QED
  BY <1>3, <1>5, <1>6, <1>7, <1>8

LEMMA CloseKeeps ==
    ASSUME ServerInv, NEW i \in DOMAIN teardown, NEW step \in {"mediaQueue", "chatQueue", "socket", "blacklist"},
           Close(i, step)
    PROVE  ServerInv'
<1> DEFINE n == teardown[i]
<1>1. /\ exit = "no" /\ boot = "running" /\ n \in 1..7 /\ Steps[n] = step /\ Passed(n)
      /\ open' = open \ {step} /\ NextStep(i)
      /\ UNCHANGED <<config, arrivals, mishaps, boot, up, status, server, conns, worker, job, waiting, errors, late, exit>>
  BY AtStep DEF Close, bootVars
<1>2. n \in 3..6 /\ (n = 5 => step = "socket")
  BY <1>1, StepFacts
<1>3. /\ worker \in [Queues -> {"none", "open", "closing"}] /\ mishaps \in 0..config.maxFaults
      /\ mishaps \in Nat /\ (\A q \in Queues : worker[q] = "none" => ~job[q])
  BY ConfigFacts DEF ServerInv, Typed, ServerTypeOK, Draining
<1>4. teardown' = [teardown EXCEPT ![i] = n + 1] /\ n + 1 \in 0..7
  BY <1>1, <1>2 DEF NextStep
<1>5. PassedNext(n + 1)
  BY <1>1, <1>2 DEF Passed, PassedNext, Relies, Emptied
<1>6. mishaps' \in 0..config.maxFaults /\ mishaps <= mishaps'
  BY <1>1, NoMishap DEF ServerInv
<1> HIDE DEF n
<1> QED
  BY <1>1, <1>3, <1>4, <1>5, <1>6, Advances

\* Where a step may throw, a shutdown may rely on the connections only.
LEMMA StepFailsKeeps ==
    ASSUME ServerInv, NEW i \in DOMAIN teardown, StepFails(i) PROVE ServerInv'
<1> DEFINE n == teardown[i]
<1>1. /\ exit = "no" /\ boot = "running" /\ n \in 1..6 /\ Mishap("step") /\ NextStep(i)
      /\ worker' = [q \in Queues |-> IF At(i, WorkerOf[q]) /\ worker[q] = "open" THEN "closing" ELSE worker[q]]
      /\ UNCHANGED <<config, arrivals, boot, up, status, server, conns, open, job, waiting, errors, late, exit>>
  BY DEF StepFails, Running, Alive, bootVars
<1>2. /\ worker \in [Queues -> {"none", "open", "closing"}] /\ mishaps' \in 0..config.maxFaults
      /\ mishaps <= mishaps' /\ (\A q \in Queues : worker[q] = "none" => ~job[q]) /\ Passed(n)
  BY <1>1, MishapCounted DEF ServerInv, Typed, ServerTypeOK, Draining
<1>3. /\ worker' \in [Queues -> {"none", "open", "closing"}]
      /\ \A q \in Queues : worker[q] = "none" <=> worker'[q] = "none"
  BY <1>1, <1>2
<1>4. teardown' = [teardown EXCEPT ![i] = n + 1] /\ n + 1 \in 0..7
  BY <1>1 DEF NextStep
<1>5. PassedNext(n + 1)
  BY <1>1, <1>2 DEF Passed, PassedNext, Relies, Emptied, Mishap
<1> HIDE DEF n
<1> QED
  BY <1>1, <1>2, <1>3, <1>4, <1>5, Advances

\* The last step: all that was to be closed is closed.
LEMMA DisconnectKeeps == ASSUME ServerInv, NEW i \in DOMAIN teardown, Disconnect(i) PROVE ServerInv'
<1>1. /\ exit = "no" /\ boot = "running" /\ teardown[i] \in 1..7 /\ Steps[teardown[i]] = "prisma" /\ Passed(teardown[i])
      /\ open' = open \ {"prisma"} /\ exit' = "clean"
      /\ UNCHANGED <<config, arrivals, mishaps, boot, up, status, server, conns, worker, job, waiting, errors, late, teardown>>
  BY AtStep DEF Disconnect, bootVars
<1>2. teardown[i] = 7
  BY <1>1, StepFacts
<1>3. Ended'
  BY <1>1, <1>2, QueueFacts DEF Ended, CleanExitDrains, Passed, PassedNext, Relies, Emptied, ServerInv, Draining
<1>4. Typed'
  BY <1>1 DEF ServerInv, Typed, ServerTypeOK
<1>5. Started'
  BY <1>1 DEF ServerInv, Started
<1> QED
  BY <1>1, <1>3, <1>4, <1>5, DrainingStays, ReportedStays DEF ServerInv

\* The process is ended from outside the shutdown.
LEMMA KilledKeeps == ASSUME ServerInv, Forced \/ Uncaught PROVE ServerInv'
<1>1. /\ exit = "no" /\ exit' \in {"forced", "crashed"} /\ (Mishap("bug") \/ UNCHANGED mishaps)
      /\ UNCHANGED <<config, arrivals, boot, up, status, server, conns, open, worker, job, waiting, errors, late, teardown>>
  BY DEF Forced, Uncaught, Exit, Running, Alive, bootVars, workVars
<1>2. Typed'
  BY <1>1, MishapCounted, ConfigFacts DEF ServerInv, Typed, ServerTypeOK
<1>3. Started'
  BY <1>1 DEF ServerInv, Started
<1> QED
  BY <1>1, <1>2, <1>3, DrainingStays, EndedStays, ReportedStays DEF ServerInv

LEMMA TeardownKeeps ==
    ASSUME ServerInv, NEW i \in DOMAIN teardown, Teardown(i) \/ StepFails(i) PROVE ServerInv'
<1>1. CASE \E q \in Queues : StopWorker(i, q) \/ CloseQueue(i, q)
  <2>1. PICK q \in Queues : StopWorker(i, q) \/ CloseQueue(i, q)
    BY <1>1
  <2>2. QueueOf[q] \in {"mediaQueue", "chatQueue"}
    BY QueueFacts
  <2> QED
    BY <2>1, <2>2, StopWorkerKeeps, CloseKeeps DEF CloseQueue
<1>2. CASE CloseSocket(i) \/ CloseBlacklist(i)
  BY <1>2, CloseKeeps DEF CloseSocket, CloseBlacklist
<1> QED
  BY <1>1, <1>2, DrainedKeeps, DisconnectKeeps, StepFailsKeeps DEF Teardown

-----------------------------------------------------------------------------
(* The theorems.                                                           *)

LEMMA ServerInvInit == ASSUME ServerInit PROVE ServerInv
<1>1. config \in Configs /\ config.maxCalls \in Nat /\ config.maxFaults \in Nat
  BY ConfigsAssumption DEF ServerInit
<1>2. Typed
  BY <1>1 DEF ServerInit, Typed, ServerTypeOK
<1>3. Started /\ Draining /\ Ended
  BY DEF ServerInit, Started, Draining, Ended, CleanExitDrains
<1>4. WorkersReported
  BY QueueFacts DEF ServerInit, WorkersReported
<1> QED
  BY <1>2, <1>3, <1>4 DEF ServerInv

LEMMA ServerInvStutter == ASSUME ServerInv, UNCHANGED serverVars PROVE ServerInv'
BY DEF ServerInv, serverVars, Typed, ServerTypeOK, Started, Draining, Passed, PassedNext, Relies, Emptied, Ended, CleanExitDrains,
       WorkersReported

LEMMA ServerInvNext == ASSUME ServerInv, [ServerNext]_serverVars PROVE ServerInv'
<1>1. CASE LoadEnv \/ CheckDatabase \/ CheckRest \/ CheckTcp \/ Banner \/ OpenSocket \/ Listen
  BY <1>1, LoadEnvKeeps, ChecksKeep, BannerKeeps, OpenSocketKeeps, ListenKeeps
<1>2. CASE \E kind \in {"request", "client"} : Connect(kind) \/ Leave(kind)
  BY <1>2, ConnectKeeps, LeaveKeeps
<1>3. CASE \E q \in Queues : AddJob(q) \/ TakeJob(q) \/ EndJob(q) \/ WorkerError(q) \/ WorkerReady(q)
  BY <1>3, AddJobKeeps, JobKeeps, WorkerErrorKeeps, WorkerReadyKeeps
<1>4. CASE Tick \/ \E what \in late : LateEnds(what)
  BY <1>4, TickKeeps, LateEndsKeeps
<1>5. CASE Database \/ Signal \/ Forced \/ Uncaught
  BY <1>5, DatabaseKeeps, SignalKeeps, KilledKeeps
<1>6. CASE \E i \in DOMAIN teardown : Teardown(i) \/ StepFails(i)
  BY <1>6, TeardownKeeps
<1>7. CASE UNCHANGED serverVars
  BY <1>7, ServerInvStutter
<1> QED
  BY <1>1, <1>2, <1>3, <1>4, <1>5, <1>6, <1>7 DEF ServerNext

\* In every configuration a process serves only after it found its database, ends with 0
\* only when nobody is cut off, and reports its workers' errors, whatever hangs, throws or
\* is signalled (main, setupGracefulShutdown).
THEOREM ServerIsSound == ServerSpec => []ServerSound
<1>1. ServerInit => ServerInv
  BY ServerInvInit
<1>2. ServerInv /\ [ServerNext]_serverVars => ServerInv'
  BY ServerInvNext
<1>3. ServerInv => ServerSound
  BY DEF ServerInv, Typed, Started, Ended, ServerSound, ServesOnlyWhenReady, ReadyAnswer, IsReady
<1> QED
  BY <1>1, <1>2, <1>3, PTL DEF ServerSpec
=============================================================================
