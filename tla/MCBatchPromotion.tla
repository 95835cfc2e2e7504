--------------------------- MODULE MCBatchPromotion ---------------------------
(* Small instances of BatchPromotion: three calendars, the first one ACTIVE. *)
EXTENDS BatchPromotion, TLC

\* The requests are interchangeable: the scenes name both or each alone.
Symmetric == Permutations(Requests)

Steps == {"carry", "snapshot", "apply", "promote"}
NoRuns == [r \in RunIds |-> NoRun]
Drafted == [r \in RunIds |-> IF r # 1 THEN NoRun
             ELSE [source |-> 1, target |-> 2, phase |-> "DRAFT", carry |-> DefaultCarry,
                   snapshot |-> "none"]]
FirstActive(second) == [y \in Years |-> IF y = 1 THEN "ACTIVE" ELSE IF y = 2 THEN second ELSE "none"]
Grades(a, b) == [s \in Students |-> IF s \in Logins THEN a ELSE b]

\* One admin promotes twice, through the wizard alone.
Wizards == {[staff |-> {p}, handlers |-> Steps \cup {"start"}, maxCalls |-> 9,
             status |-> FirstActive(second), runs |-> NoRuns, orders |-> o, classOf |-> Grades(1, 2)] :
            p \in Requests, second \in {"none", "BUILD_STAGE"}, o \in {{1, 2}, {1, 2, 3}}}
\* A branch with no second grade, and a student in no class.
Gaps == {[w EXCEPT !.orders = {1, 3}, !.classOf = Grades(1, NoClass)] : w \in Wizards}
\* The steps of one run, called concurrently.
Crowd == [staff |-> Requests, handlers |-> Steps, maxCalls |-> 6, status |-> FirstActive("BUILD_STAGE"),
          runs |-> Drafted, orders |-> {1, 2}, classOf |-> Grades(1, 2)]
\* Two runs are started at once, while the years are deleted or published by hand.
Race == [Crowd EXCEPT !.runs = NoRuns, !.maxCalls = 8, !.handlers = {"start", "snapshot", "apply", "promote"}]
Mixed == [Crowd EXCEPT !.maxCalls = 5, !.handlers = @ \cup {"archive", "publish", "delete", "restoreHold"}]
\* The years alone, one admin: every handler but resume and import, and every handler.
Calm(p) == [Crowd EXCEPT !.staff = {p}, !.runs = NoRuns, !.maxCalls = 8,
            !.handlers = (Changes \ {"resume"}) \cup {"create", "delete"}]
ByHand(p) == [Calm(p) EXCEPT !.handlers = Changes \cup {"create", "import", "delete"}]

AllScenes == Wizards \cup Gaps \cup {Crowd, Race, Mixed} \cup {Calm(p) : p \in Requests}
                \cup {ByHand(p) : p \in Requests}
Resumes == {ByHand(p) : p \in Requests}
===============================================================================
