------------------------------- MODULE Handlers -------------------------------
(***************************************************************************)
(* How a request handler of the Express application runs.  Every await on   *)
(* the database is a point where the handlers of other requests go on, so a *)
(* handler is a sequence of steps and each step is one statement or one     *)
(* transaction: a step reads, writes, answers, or answers with a write.     *)
(* Each caller makes the calls of its list one after the other.             *)
(*                                                                         *)
(* The modules that EXTEND this one keep their tables in the record "db";   *)
(* "scene" holds what does not change in a behaviour, and names its part.   *)
(***************************************************************************)
EXTENDS Integers, Sequences, FiniteSets

CONSTANTS
    Procs,      \* callers, each with one handler under way at a time
    Scenes,     \* initial tables, calls and circumstances
    Nothing     \* no value: a row that is not there, a null

VARIABLES
    db,         \* the tables
    calls,      \* of each caller: the calls it still makes, the first under way
    pc,         \* of each caller: steps of the call under way that are done
    loc,        \* of each caller: what the handler has read
    scene

Of(part) == scene # Nothing /\ scene.part = part
handlerVars == <<db, calls, pc, loc, scene>>

HandlersInit ==
    /\ scene \in Scenes
    /\ db = scene.db
    /\ calls = [p \in Procs |-> IF p \in DOMAIN scene.calls THEN scene.calls[p] ELSE <<>>]
    /\ pc = [p \in Procs |-> 0]
    /\ loc = [p \in Procs |-> Nothing]

Call(p) == Head(calls[p])
At(p, op, n) == calls[p] # <<>> /\ Call(p).op = op /\ pc[p] = n
Quiet == \A p \in Procs : calls[p] = <<>>

\* The handler goes on to its step n, having read "saw" or written the tables.
ReadTo(p, n, saw) ==
    /\ pc' = [pc EXCEPT ![p] = n] /\ loc' = [loc EXCEPT ![p] = saw]
    /\ UNCHANGED <<db, calls, scene>>
WriteTo(p, n, tables) ==
    /\ db' = tables /\ pc' = [pc EXCEPT ![p] = n]
    /\ UNCHANGED <<loc, calls, scene>>

\* The handler answers: after a last write, or without one.
Commit(p, tables) ==
    /\ db' = tables
    /\ calls' = [calls EXCEPT ![p] = Tail(@)]
    /\ pc' = [pc EXCEPT ![p] = 0] /\ loc' = [loc EXCEPT ![p] = Nothing]
    /\ UNCHANGED scene
Refuse(p) == Commit(p, db)

\* Everything has been answered and the server waits.
Rest == Quiet /\ UNCHANGED handlerVars

HandlersTypeOK ==
    /\ scene \in Scenes
    /\ pc \in [Procs -> 0..16]
    /\ \A p \in Procs : calls[p] = <<>> => pc[p] = 0 /\ loc[p] = Nothing
=============================================================================
