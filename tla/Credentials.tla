------------------------------ MODULE Credentials ------------------------------
(***************************************************************************)
(* The password an administrator gives to a student, a teacher or a member  *)
(* of staff: generated with the login, set, or saved for a hand-over.  All  *)
(* three kinds refuse one of the last three passwords, which they read from *)
(* the audit log, and save a password together with its audit entry.        *)
(***************************************************************************)
EXTENDS Handlers

CONSTANTS Owners, Kind, Passwords, SaveKeys

ASSUME KindAssumption == Kind \in [Owners -> {"student", "teacher", "staff"}]

\* login: accounts made so far, each with the owner it belongs to; user: the owner's
\* account; hash: of each owner's account; knowing: passwordSetAt; trail: the audit log
\* of each owner, oldest first; lost: an entry was lost, which only a set may do;
\* answers: how each save ended.
CredentialTables ==
    [logins : [Owners -> Nat], hash : [Owners -> Passwords \cup {Nothing}],
     knowing : [Owners -> BOOLEAN],
     trail : [Owners -> Seq([action : {"reset", "save"}, password : Passwords, key : SaveKeys \cup {Nothing}])],
     lost : [Owners -> BOOLEAN],
     answers : [Procs -> Seq({"saved", "replayed", "refused"})]]

CredentialCalls ==
    [op : {"generate", "set"}, owner : Owners, password : Passwords, key : {Nothing}]
        \cup [op : {"save"}, owner : Owners, password : Passwords, key : SaveKeys \cup {Nothing}, replace : BOOLEAN]
\* An audit log that is not empty is that of an account, and holds its password.
ASSUME CredentialsSceneAssumption ==
    \A s \in Scenes : s.part = "credentials" =>
        /\ s.db \in CredentialTables
        /\ \A o \in Owners : s.db.trail[o] # <<>> =>
              s.db.logins[o] > 0 /\ \E n \in DOMAIN s.db.trail[o] : s.db.trail[o][n].password = s.db.hash[o]
        /\ \A p \in DOMAIN s.calls : s.calls[p] \in Seq(CredentialCalls)

Trail(o) == db.trail[o]
\* The last three entries, of the resets only or of both actions.
LastThree(entries) == {n \in DOMAIN entries : n > Len(entries) - 3}
Resets(o) == SelectSeq(Trail(o), LAMBDA e : e.action = "reset")
UsedIn(entries, w) == \E n \in LastThree(entries) : entries[n].password = w
Entry(p, action) == [action |-> action, password |-> Call(p).password, key |-> Call(p).key]
SaveAnswers(p, tables, how) == Commit(p, [tables EXCEPT !.answers[p] = Append(@, how)])

-----------------------------------------------------------------------------
(* Generate: a student's login                                             *)

\* The account is created connected to the student: the student points to the last one.
Generate(p) ==
    LET o == Call(p).owner IN
    \/ /\ At(p, "generate", 0)
       /\ IF db.logins[o] > 0 THEN Refuse(p) ELSE ReadTo(p, 1, {})
    \/ /\ At(p, "generate", 1)
       /\ Commit(p, [db EXCEPT !.logins[o] = @ + 1, !.hash[o] = Call(p).password])

-----------------------------------------------------------------------------
(* Set: three statements, the audit entry as best it can                    *)

SetCheck(p, entries) ==
    LET o == Call(p).owner IN
    /\ At(p, "set", 0)
    /\ IF db.logins[o] = 0 \/ UsedIn(entries, Call(p).password) THEN Refuse(p) ELSE ReadTo(p, 1, {})
SetWrites(p) ==
    LET o == Call(p).owner IN
    \/ At(p, "set", 1) /\ WriteTo(p, 2, [db EXCEPT !.hash[o] = Call(p).password])
    \/ /\ At(p, "set", 2)
       /\ WriteTo(p, 3, [db EXCEPT !.knowing[o] = @ \/ Kind[o] # "staff"])
    \/ /\ At(p, "set", 3)
       /\ \/ Commit(p, [db EXCEPT !.trail[o] = Append(@, Entry(p, "reset"))])
          \/ scene.fails /\ Commit(p, [db EXCEPT !.lost[o] = TRUE])
SetStudent(p) == Kind[Call(p).owner] = "student" /\ SetCheck(p, Resets(Call(p).owner))
SetTeacher(p) == Kind[Call(p).owner] = "teacher" /\ SetCheck(p, Resets(Call(p).owner))
SetStaff(p)   == Kind[Call(p).owner] = "staff"   /\ SetCheck(p, Resets(Call(p).owner))

-----------------------------------------------------------------------------
(* Save: for a hand-over                                                   *)

\* A password was knowingly saved before; of staff only the audit log can tell.
HasExistingPassword(o) == IF Kind[o] = "staff" THEN Trail(o) # <<>> ELSE db.knowing[o]
SavedWith(o, k) == k # Nothing /\ \E n \in DOMAIN Trail(o) : Trail(o)[n].action = "save" /\ Trail(o)[n].key = k

\* The replacement has to be confirmed; only then a used key answers what it answered.
SaveCheck(p) ==
    LET o == Call(p).owner IN
    /\ At(p, "save", 0)
    /\ IF db.logins[o] = 0 \/ (HasExistingPassword(o) /\ ~Call(p).replace)
       THEN SaveAnswers(p, db, "refused") ELSE ReadTo(p, 1, {})
SaveReplay(p) ==
    /\ At(p, "save", 1)
    /\ IF SavedWith(Call(p).owner, Call(p).key) THEN SaveAnswers(p, db, "replayed") ELSE ReadTo(p, 2, {})
SaveHistory(p) ==
    /\ At(p, "save", 2)
    /\ IF UsedIn(Trail(Call(p).owner), Call(p).password) THEN SaveAnswers(p, db, "refused")
       ELSE ReadTo(p, 3, {})

\* Mutant: the entry is written after the transaction, as best it can.
SaveTxNoEntry(p) ==
    LET o == Call(p).owner IN
    /\ At(p, "save", 3)
    /\ \/ SaveAnswers(p, [db EXCEPT !.hash[o] = Call(p).password, !.trail[o] = Append(@, Entry(p, "save"))], "saved")
       \/ SaveAnswers(p, [db EXCEPT !.hash[o] = Call(p).password], "saved")
\* Hash, timestamps and audit entry together.
SaveTx(p) ==
    LET o == Call(p).owner IN
    /\ At(p, "save", 3)
    /\ SaveAnswers(p, [db EXCEPT !.hash[o] = Call(p).password, !.knowing[o] = @ \/ Kind[o] # "staff",
                                 !.trail[o] = Append(@, Entry(p, "save"))], "saved")

\* Each kind of owner has its own copy of the save.
SaveStudent(p) ==
    Kind[Call(p).owner] = "student" /\ (SaveCheck(p) \/ SaveReplay(p) \/ SaveHistory(p) \/ SaveTx(p))
SaveTeacher(p) ==
    Kind[Call(p).owner] = "teacher" /\ (SaveCheck(p) \/ SaveReplay(p) \/ SaveHistory(p) \/ SaveTx(p))
SaveStaff(p) ==
    Kind[Call(p).owner] = "staff" /\ (SaveCheck(p) \/ SaveReplay(p) \/ SaveHistory(p) \/ SaveTx(p))

-----------------------------------------------------------------------------
CredentialsInit == HandlersInit

CredentialsNext ==
    \/ \E p \in Procs : calls[p] # <<>> /\
          (Generate(p) \/ SetStudent(p) \/ SetTeacher(p) \/ SetStaff(p) \/ SetWrites(p)
             \/ SaveStudent(p) \/ SaveTeacher(p) \/ SaveStaff(p))
    \/ Rest

CredentialsSpec == CredentialsInit /\ [][CredentialsNext]_handlerVars

-----------------------------------------------------------------------------
(* Properties                                                              *)

CredentialsTypeOK == HandlersTypeOK /\ db \in CredentialTables

Setting(o) == \E p \in Procs : calls[p] # <<>> /\ Call(p).op = "set" /\ Call(p).owner = o /\ pc[p] >= 2

\* Once a password was set or saved, the one in use is in the audit log that the check of
\* the last three reads, unless a set is still on its way there or lost its entry, or two logins
\* were generated at once and the second took the student over.
PasswordIsInTrail ==
    \A o \in Owners : Trail(o) # <<>> /\ ~Setting(o) /\ ~db.lost[o] /\ db.logins[o] < 2 =>
        \E n \in DOMAIN Trail(o) : Trail(o)[n].password = db.hash[o]

\* Credentials: the password in use stands in the audit log that the check of the last
\* passwords reads.
CredentialsSound == Of("credentials") => CredentialsTypeOK /\ PasswordIsInTrail

\* A save repeated with its key is answered with the stored result: what the comment on
\* the save's idempotency says ("same key seen on a recent credential_save audit resolves
\* to the stored result").  Said of callers that only make one save, again and again.
RepeatIsReplayed ==
    \A p \in Procs : \A n \in 2..Len(db.answers[p]) :
        db.answers[p][n - 1] \in {"saved", "replayed"} => db.answers[p][n] = "replayed"
=============================================================================
