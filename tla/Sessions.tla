------------------------------ MODULE Sessions ------------------------------
(***************************************************************************)
(* Logging in and out: the count of failed logins and the lock, tokens and  *)
(* their revocation in the configured stores, the remembered session.       *)
(*                                                                         *)
(* Tokens do not expire here: an entry of the blacklist lives exactly as    *)
(* long as its token.  A store may be out of reach at any moment.           *)
(***************************************************************************)
EXTENDS Handlers

CONSTANTS Stores, Tokens, MaxFailed

MaxFailedAssumption == MaxFailed \in Nat \ {0}

\* The account: fails and locked; remember: the remembered token; issued: signed tokens;
\* black: revoked tokens in each store; up: stores in reach; partly: tokens whose revocation
\* a store missed; refused, wrong: logins refused for a wrong password since the last success.
SessionTables ==
    [active : BOOLEAN, role : {"student", "teacher", "management"}, enrolled : BOOLEAN, member : BOOLEAN, password : {"old", "new"}, fails : Nat, locked : BOOLEAN,
     remember : Tokens \cup {Nothing}, issued : SUBSET Tokens, black : [Stores -> SUBSET Tokens],
     up : SUBSET Stores, ended : SUBSET Tokens, partly : SUBSET Tokens, wrong : Nat]

Says(p, tables) == Commit(p, tables)
\* A student needs an enrollment of an active year, a teacher a profile and an active membership.
Eligible == (db.role = "student" => db.enrolled) /\ (db.role = "teacher" => db.member)

-----------------------------------------------------------------------------
(* The blacklist                                                           *)

\* A store in reach answers, the first one first; where none can, the token is taken for revoked.
Blacklisted(t, revoked) ==
    IF Stores = {} THEN revoked = FALSE
    ELSE IF db.up = {} THEN revoked
    ELSE \E s \in db.up : (s = "tcp" \/ "tcp" \notin db.up) /\ revoked = (t \in db.black[s])
\* Mutant: where no store can answer, the token passes.
PassesOpen(p) ==
    /\ calls[p] # <<>> /\ Call(p).op \in {"request", "logout", "refresh"} /\ pc[p] = 0
    /\ IF db.up # {} /\ Blacklisted(Call(p).token, TRUE) THEN Refuse(p) ELSE ReadTo(p, 1, [todo |-> Stores])
\* Every request with a token asks the blacklist first.
Authenticate(p) ==
    /\ calls[p] # <<>> /\ Call(p).op \in {"request", "logout", "refresh"} /\ pc[p] = 0
    /\ IF Call(p).token \notin db.issued \/ Blacklisted(Call(p).token, TRUE) THEN Refuse(p)
       ELSE ReadTo(p, 1, [todo |-> Stores])
\* An answer that takes too long counts as revoked.
TimesOut(p) ==
    /\ scene.fails /\ calls[p] # <<>> /\ Call(p).op \in {"request", "logout", "refresh"} /\ pc[p] = 0
    /\ Refuse(p)
\* A revocation is written to every configured store, side by side; a store out of reach misses it.
\* Only where all fail is there an error, and the caller swallows it.
Mirror(p, n, done) ==
    /\ pc[p] = n
    /\ \/ \E s \in loc[p].todo :
             /\ db' = IF s \in db.up THEN [db EXCEPT !.black[s] = @ \cup {Call(p).token}]
                      ELSE [db EXCEPT !.partly = @ \cup {Call(p).token}]
             /\ loc' = [loc EXCEPT ![p].todo = @ \ {s}]
             /\ UNCHANGED <<calls, pc, scene>>
       \/ loc[p].todo = {} /\ done

-----------------------------------------------------------------------------
(* Handlers                                                                *)

\* Mutant: the count starts over with the lock.
LoginWrongResets(p) ==
    /\ At(p, "login", 2)
    /\ loc[p].password # Call(p).password
    /\ Says(p, [db EXCEPT !.fails = IF loc[p].fails + 1 >= MaxFailed THEN 0 ELSE loc[p].fails + 1, !.wrong = @ + 1])
LoginFind(p) ==
    /\ At(p, "login", 0)
    /\ IF ~db.active \/ db.locked THEN Refuse(p)
       ELSE ReadTo(p, 1, [fails |-> db.fails, password |-> db.password])
LoginEligible(p) == At(p, "login", 1) /\ IF Eligible THEN ReadTo(p, 2, loc[p]) ELSE Refuse(p)
\* The count is the one read with the account, and the fifth locks it.
LoginWrong(p) ==
    /\ At(p, "login", 2)
    /\ loc[p].password # Call(p).password
    /\ Says(p, [db EXCEPT !.fails = loc[p].fails + 1, !.locked = loc[p].fails + 1 >= MaxFailed \/ @, !.wrong = @ + 1])
LoginRight(p) ==
    /\ At(p, "login", 2)
    /\ loc[p].password = Call(p).password
    /\ WriteTo(p, 3, [db EXCEPT !.fails = 0, !.locked = FALSE, !.wrong = 0])
\* The token is signed after the memberships were read; a remembered session is one row of the account.
LoginToken(p) ==
    \/ At(p, "login", 3) /\ WriteTo(p, 4, [db EXCEPT !.issued = @ \cup {Call(p).token}])
    \/ /\ At(p, "login", 4)
       /\ IF Call(p).remember THEN Says(p, [db EXCEPT !.remember = Call(p).token]) ELSE Refuse(p)

ChangePassword(p) ==
    \/ /\ At(p, "change", 0)
       /\ IF db.password # Call(p).password THEN Refuse(p) ELSE ReadTo(p, 1, Nothing)
    \/ At(p, "change", 1) /\ WriteTo(p, 2, [db EXCEPT !.password = "new"])
    \/ At(p, "change", 2) /\ Says(p, [db EXCEPT !.remember = Nothing])

\* The remembered session is forgotten, then the token revoked.
LogoutForget(p) == At(p, "logout", 1) /\ WriteTo(p, 2, [db EXCEPT !.remember = Nothing])
LogoutRevoke(p) ==
    /\ calls[p] # <<>> /\ Call(p).op = "logout"
    /\ Mirror(p, 2, Says(p, [db EXCEPT !.ended = @ \cup {Call(p).token}]))
\* A new token for an old one, which is revoked first.
Refresh(p) ==
    \/ At(p, "refresh", 1) /\ IF db.active /\ Eligible THEN ReadTo(p, 2, loc[p]) ELSE Refuse(p)
    \/ /\ calls[p] # <<>> /\ Call(p).op = "refresh"
       /\ Mirror(p, 2, Says(p, [db EXCEPT !.issued = @ \cup {Call(p).new}, !.ended = @ \cup {Call(p).token}]))
RefreshRememberMe(p) ==
    \/ /\ At(p, "remembered", 0)
       /\ IF db.remember # Call(p).token \/ ~db.active THEN Refuse(p) ELSE ReadTo(p, 1, Nothing)
    \/ At(p, "remembered", 1) /\ IF Eligible THEN ReadTo(p, 2, Nothing) ELSE Refuse(p)
    \/ At(p, "remembered", 2) /\ Says(p, [db EXCEPT !.issued = @ \cup {Call(p).new}])
Serve(p) == At(p, "request", 1) /\ Refuse(p)

-----------------------------------------------------------------------------
(* Around the handlers                                                     *)

Lose(s) == scene.fails /\ s \in db.up /\ ~Quiet /\ db' = [db EXCEPT !.up = @ \ {s}] /\ UNCHANGED <<calls, pc, loc, scene>>
Recover(s) == s \notin db.up /\ ~Quiet /\ db' = [db EXCEPT !.up = @ \cup {s}] /\ UNCHANGED <<calls, pc, loc, scene>>
\* The lock ends with time, the count stays.
Unlock == db.locked /\ ~Quiet /\ db' = [db EXCEPT !.locked = FALSE, !.wrong = 0] /\ UNCHANGED <<calls, pc, loc, scene>>

Init == HandlersInit

Next ==
    \/ \E p \in Procs : calls[p] # <<>> /\
          (Authenticate(p) \/ TimesOut(p) \/ LoginFind(p) \/ LoginEligible(p) \/ LoginWrong(p) \/ LoginRight(p) \/ LoginToken(p)
             \/ ChangePassword(p) \/ LogoutForget(p) \/ LogoutRevoke(p) \/ Refresh(p) \/ RefreshRememberMe(p) \/ Serve(p))
    \/ \E s \in Stores : Lose(s) \/ Recover(s)
    \/ Unlock
    \/ Rest

Spec == Init /\ [][Next]_handlerVars

-----------------------------------------------------------------------------
(* Properties                                                              *)

TypeOK == HandlersTypeOK /\ db \in SessionTables

\* A token whose session was ended, by a logout or by its exchange, is not accepted again,
\* whichever store answers and also while none does; except a token whose revocation a
\* store missed, which that store knows nothing of.
NoEndedAccepted ==
    \A p \in Procs : calls[p] # <<>> /\ Call(p).op \in {"request", "logout", "refresh"} /\ pc[p] = 0 /\ pc'[p] = 1
          => Call(p).token \notin (db.ended \ db.partly) /\ db.up # {}

\* Wrong passwords lock the account: after the allowed number of them, one after the other,
\* it is locked, and stays so until the lock runs out.  Said of one caller: two at once may
\* both count from the number that both have read.
WrongOnesLock == scene.alone /\ db.wrong >= MaxFailed => db.locked
=============================================================================
