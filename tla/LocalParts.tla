------------------------------ MODULE LocalParts ------------------------------
(***************************************************************************)
(* LocalMultipartStorage: the parts of one upload staged as files, and      *)
(* their assembly into the final file.                                      *)
(*                                                                         *)
(* Assembly writes to a temporary name that depends on the final name and   *)
(* the process only, and renames it.  Every file operation is one step:     *)
(* another request of the process can run between two of them.              *)
(***************************************************************************)
EXTENDS Integers, Sequences

CONSTANTS
    Completions,   \* concurrent completions
    LastPart,      \* parts of the file
    MaxAssemblies,   \* bound: completions called
    NoFile, NoAssembly

\* What an instance has to fulfil.
ASSUME AssemblyAssumption == LastPart \in Nat \ {0} /\ MaxAssemblies \in Nat /\ NoFile \notin Nat

VARIABLES
    staged,     \* the part files on disk
    inodes,      \* the assembled files by inode: the parts written in each
    tmp, final, \* the inode the temporary and the final name stand for
    assemblies, diskPc, diskLoc

diskVars == <<staged, inodes, tmp, final, assemblies, diskPc, diskLoc>>

DiskInit ==
    /\ staged = {}
    /\ inodes = <<>>
    /\ tmp = NoFile
    /\ final = NoFile
    /\ assemblies = 0
    /\ diskPc = [p \in Completions |-> "idle"]
    /\ diskLoc = [p \in Completions |-> NoAssembly]

DiskGoto(p, label, l) ==
    /\ diskPc' = [diskPc EXCEPT ![p] = label]
    /\ diskLoc' = [diskLoc EXCEPT ![p] = l]
DiskFinish(p) == DiskGoto(p, "idle", NoAssembly)

\* The size is that of the last part written: what lies before it and was
\* truncated reads as zeros.
Full(f) == f # NoFile /\ LastPart \in inodes[f]

\* uploadPart, chunk by chunk: written beside and renamed.
Stage ==
    /\ \A p \in Completions : diskPc[p] = "idle"
    /\ staged # 1..LastPart /\ final = NoFile
    /\ staged' = staged \cup {CHOOSE k \in 1..LastPart : k \notin staged /\ 1..k - 1 \subseteq staged}
    /\ UNCHANGED <<inodes, tmp, final, assemblies, diskPc, diskLoc>>

\* completeUpload is called once every part is staged or was assembled; an
\* assembled file of the right size is the answer.
Stat(p) ==
    /\ diskPc[p] = "idle" /\ assemblies < MaxAssemblies /\ assemblies' = assemblies + 1
    /\ staged = 1..LastPart \/ final # NoFile
    /\ IF Full(final) THEN DiskFinish(p) ELSE DiskGoto(p, "parts", NoAssembly)
    /\ UNCHANGED <<staged, inodes, tmp, final>>

StatParts(p) ==
    /\ diskPc[p] = "parts"
    /\ IF staged = 1..LastPart THEN DiskGoto(p, "open", NoAssembly) ELSE DiskFinish(p)
    /\ UNCHANGED <<staged, inodes, tmp, final, assemblies>>

\* Mutant: the final file is written in place.
OpenFinal(p) ==
    /\ diskPc[p] = "open"
    /\ inodes' = Append(inodes, {}) /\ final' = Len(inodes) + 1 /\ tmp' = Len(inodes) + 1
    /\ DiskGoto(p, "copy", [file |-> Len(inodes) + 1, next |-> 1])
    /\ UNCHANGED <<staged, assemblies>>

\* createWriteStream creates the file or empties the one that has the name.
Open(p) ==
    /\ diskPc[p] = "open"
    /\ IF tmp = NoFile
       THEN /\ inodes' = Append(inodes, {})
            /\ tmp' = Len(inodes) + 1
       ELSE inodes' = [inodes EXCEPT ![tmp] = {}] /\ UNCHANGED tmp
    /\ DiskGoto(p, "copy", [file |-> tmp', next |-> 1])
    /\ UNCHANGED <<staged, final, assemblies>>

\* One part after the other is read and written at the stream's own position.
Copy(p) ==
    LET l == diskLoc[p]
    IN  /\ diskPc[p] = "copy" /\ l.next \in staged
        /\ inodes' = [inodes EXCEPT ![l.file] = @ \cup {l.next}]
        /\ DiskGoto(p, IF l.next = LastPart THEN "size" ELSE "copy", [l EXCEPT !.next = @ + 1])
        /\ UNCHANGED <<staged, tmp, final, assemblies>>

\* A part is gone: the temporary file is removed, the call fails.
CopyFails(p) ==
    /\ diskPc[p] = "copy" /\ diskLoc[p].next \notin staged
    /\ tmp' = NoFile
    /\ DiskFinish(p)
    /\ UNCHANGED <<staged, inodes, final, assemblies>>

CheckSize(p) ==
    /\ diskPc[p] = "size"
    /\ IF Full(tmp) THEN DiskGoto(p, "rename", diskLoc[p]) /\ UNCHANGED tmp
       ELSE DiskFinish(p) /\ tmp' = NoFile
    /\ UNCHANGED <<staged, inodes, final, assemblies>>

\* It fails if the name is gone.
Rename(p) ==
    /\ diskPc[p] = "rename"
    /\ IF tmp = NoFile THEN DiskFinish(p) /\ UNCHANGED <<tmp, final>>
       ELSE final' = tmp /\ tmp' = NoFile /\ DiskGoto(p, "remove", diskLoc[p])
    /\ UNCHANGED <<staged, inodes, assemblies>>

\* abortUpload, at the end of an assembly ...
RemoveStaged(p) ==
    /\ diskPc[p] = "remove"
    /\ staged' = {}
    /\ DiskFinish(p)
    /\ UNCHANGED <<inodes, tmp, final, assemblies>>

\* ... and when the session is cancelled or expires.
AbortDisk ==
    /\ staged # {}
    /\ staged' = {}
    /\ UNCHANGED <<inodes, tmp, final, assemblies, diskPc, diskLoc>>

\* The process stops; files stay as they are, the next process has another
\* temporary name.
DiskCrash ==
    /\ \E p \in Completions : diskPc[p] # "idle"
    /\ diskPc' = [p \in Completions |-> "idle"]
    /\ diskLoc' = [p \in Completions |-> NoAssembly]
    /\ tmp' = NoFile
    /\ UNCHANGED <<staged, inodes, final, assemblies>>

DiskNext ==
    \/ Stage \/ AbortDisk \/ DiskCrash
    \/ \E p \in Completions :
         \/ Stat(p) \/ StatParts(p) \/ Open(p) \/ Copy(p) \/ CopyFails(p)
         \/ CheckSize(p) \/ Rename(p) \/ RemoveStaged(p)

DiskSpec == DiskInit /\ [][DiskNext]_diskVars

-----------------------------------------------------------------------------
(* Properties.                                                             *)

\* Under the final name there is the whole file or none, after failed and
\* repeated completions, cancellations and crashes.
FinalIsWhole == final # NoFile => inodes[final] = 1..LastPart
=============================================================================
