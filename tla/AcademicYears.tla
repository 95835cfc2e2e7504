----------------------------- MODULE AcademicYears -----------------------------
(***************************************************************************)
(* The academic years of one branch and the handlers that change their      *)
(* status.  A handler reads the year, may look for another year of the      *)
(* branch in some status, and then writes: no lock and no transaction, so   *)
(* any other request can run between the steps.                             *)
(*                                                                         *)
(* A year is named by its calendar (one year per branch and calendar, by a  *)
(* unique index).  A calendar whose year was deleted is not used again: a   *)
(* bound of the model.                                                      *)
(***************************************************************************)
EXTENDS Naturals

CONSTANTS
    Years,      \* calendars of the branch
    Requests,   \* concurrent requests
    Students,
    Logins,     \* the students that have a user account
    RunIds,     \* promotion runs, for BatchPromotion
    NoRun, NoRow, NoCall,
    Scenes      \* who calls which handlers, from which initial state; maxCalls is a bound

ASSUME LoginsAssumption == Logins \subseteq Students

VARIABLES
    status,     \* status[y]: "none" before the year exists, "deleted" after
    scene,      \* the scene of this behaviour; it never changes
    calls, pc, loc

yearVars == <<status, scene, calls, pc, loc>>

Live == {"BUILD_STAGE", "ACTIVE", "ON_HOLD", "ARCHIVED"}
Statuses == Live \cup {"none", "deleted"}
Changes == {"pause", "resume", "publish", "archive", "restoreBuild", "restoreHold"}

YearsInit ==
    /\ scene \in Scenes
    /\ status = scene.status
    /\ calls = 0
    /\ pc = [p \in Requests |-> "idle"]
    /\ loc = [p \in Requests |-> NoCall]

Goto(p, label, l) ==
    /\ pc' = [pc EXCEPT ![p] = label]
    /\ loc' = [loc EXCEPT ![p] = l]
    /\ UNCHANGED scene
Finish(p) == Goto(p, "idle", NoCall)
Begin(p, h) ==
    /\ pc[p] = "idle" /\ p \in scene.staff /\ h \in scene.handlers
    /\ calls < scene.maxCalls /\ calls' = calls + 1

-----------------------------------------------------------------------------
(* create.                                                                 *)

Another(y, st) == \E z \in Years \ {y} : status[z] = st

\* No year for the calendar, and no other year under construction unless the
\* new one is a historical import (directToArchived).
CreateRead(p, h, y) ==
    /\ Begin(p, h)
    /\ status[y] = "none"
    /\ h = "create" => ~Another(y, "BUILD_STAGE")
    /\ Goto(p, "create", [year |-> y]) /\ UNCHANGED status

\* The unique index refuses a second year for the calendar.
CreateWrite(p) ==
    /\ pc[p] = "create"
    /\ status' = [status EXCEPT ![loc[p].year] = IF @ = "none" THEN "BUILD_STAGE" ELSE @]
    /\ Finish(p) /\ UNCHANGED calls

-----------------------------------------------------------------------------
(* pause, resume, publish, archive, unarchive (to either target).          *)

From(h) ==
    CASE h = "pause"   -> {"ACTIVE"}
      [] h = "resume"  -> {"ON_HOLD"}
      [] h = "publish" -> {"BUILD_STAGE", "ON_HOLD"}
      [] h = "archive" -> Live \ {"ARCHIVED"}
      [] OTHER         -> {"ARCHIVED"}
To(h) ==
    CASE h \in {"pause", "restoreHold"} -> "ON_HOLD"
      [] h \in {"resume", "publish"}    -> "ACTIVE"
      [] h = "archive"                  -> "ARCHIVED"
      [] OTHER                          -> "BUILD_STAGE"

\* Mutant: publish and unarchive do not look at the other years.
OthersUnchecked(h, y) == TRUE

\* What the other years of the branch must be for change h of year y.
OthersAllow(h, y) ==
    CASE h = "publish"      -> ~Another(y, "ACTIVE")
      [] h = "restoreBuild" -> ~Another(y, "BUILD_STAGE")
      [] h = "restoreHold"  -> Another(y, "ACTIVE")
      [] OTHER              -> TRUE

ChangeRead(p, h, y) ==
    /\ Begin(p, h)
    /\ status[y] \in From(h)
    /\ Goto(p, "check", [change |-> h, year |-> y]) /\ UNCHANGED status

ChangeCheck(p) ==
    /\ pc[p] = "check"
    /\ IF OthersAllow(loc[p].change, loc[p].year) THEN Goto(p, "write", loc[p]) ELSE Finish(p)
    /\ UNCHANGED <<status, calls>>

\* The update names the id only: whatever the status is by now, it is replaced.
ChangeWrite(p) ==
    /\ pc[p] = "write"
    /\ status' = [status EXCEPT ![loc[p].year] = IF @ \in Live THEN To(loc[p].change) ELSE @]
    /\ Finish(p) /\ UNCHANGED calls

-----------------------------------------------------------------------------
(* delete.                                                                 *)

DeleteRead(p, y) ==
    /\ Begin(p, "delete")
    /\ status[y] = "ARCHIVED"
    /\ Goto(p, "delete", [year |-> y]) /\ UNCHANGED status

\* The status is not looked at again.
DeleteWrite(p) ==
    /\ pc[p] = "delete"
    /\ status' = [status EXCEPT ![loc[p].year] = "deleted"]
    /\ Finish(p) /\ UNCHANGED calls

\* The call is lost, or its statement fails: nothing more happens.
Drop(p) ==
    /\ pc[p] # "idle"
    /\ Finish(p) /\ UNCHANGED <<status, calls>>

\* What leaves the other tables alone; DeleteWrite and Drop are BatchPromotion's too.
YearStep(p) ==
    \/ \E y \in Years, h \in {"create", "import"} : CreateRead(p, h, y)
    \/ \E y \in Years, h \in Changes : ChangeRead(p, h, y)
    \/ \E y \in Years : DeleteRead(p, y)
    \/ CreateWrite(p) \/ ChangeCheck(p) \/ ChangeWrite(p) \/ Drop(p)
=============================================================================
