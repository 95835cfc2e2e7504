--------------------------- MODULE ServerLifecycle ---------------------------
(* The life of one server process: the checks before it accepts traffic     *)
(* (server.ts, src/lib/startup.ts), the status its parts report             *)
(* (src/lib/componentStatus.ts), the queue workers it hosts                 *)
(* (src/queues), the sweeper's timer, and the shutdown a signal starts.     *)
(*                                                                          *)
(* A scene is one configuration: whether REDIS_URL is set, what the traffic *)
(* is, what can go wrong, which closings never return, and how many calls,  *)
(* signals and faults there are.                                            *)
EXTENDS Integers, Sequences, FiniteSets

CONSTANT Configs      \* the scenes
VARIABLES
    config, arrivals, mishaps,
    boot,             \* where main() is
    up,               \* whether the database answers, which no one asks after the start
    status,           \* what each component reported last
    server,           \* the HTTP server: none, open, closing, closed
    conns,            \* its requests in flight and its chat clients
    open,             \* the connections the process keeps to others
    worker, job,      \* per queue: the worker, and whether it has a job in hand
    waiting,          \* per queue: whether a job waits in it
    errors,           \* per worker: connection errors since it was last ready
    late,             \* work no connection stands for: a sweep, a socket's handler
    teardown,         \* per signal: where its shutdown is
    exit              \* how the process ended

serverVars == <<config, arrivals, mishaps, boot, up, status, server, conns, open, worker, job,
                waiting, errors, late, teardown, exit>>
bootVars == <<boot, up, status, server>>
workVars == <<conns, open, worker, job, waiting, errors, late>>

Queues == {"chat", "media"}
Components == {"database", "tcpRedis", "upstashRedis", "messageWorker", "chatWorker", "mediaWorker", "socketIo"}
WorkerOf == [chat |-> "chatWorker", media |-> "mediaWorker"]
QueueOf == [chat |-> "chatQueue", media |-> "mediaQueue"]
\* The steps of the shutdown, in their order; the last one ends the process.
Steps == <<"chatWorker", "mediaWorker", "mediaQueue", "chatQueue", "socket", "blacklist", "prisma">>

ASSUME ConfigsAssumption ==
    \A c \in Configs :
       /\ c.redis \in BOOLEAN /\ c.traffic \subseteq {"request", "client", "chat", "media", "sweep"}
       /\ c.faults \subseteq {"boot", "db", "line", "slow", "step", "bug"}
       /\ c.hung \subseteq {Steps[k] : k \in 1..7} /\ c.signals \in Nat
       /\ c.maxCalls \in Nat /\ c.maxFaults \in Nat

ServerInit ==
    /\ config \in Configs /\ arrivals = 0 /\ mishaps = 0
    /\ boot = "env" /\ up = TRUE
    /\ status = [c \in Components |-> "starting"]
    /\ server = "none" /\ conns = [request |-> 0, client |-> 0] /\ open = {}
    /\ worker = [q \in Queues |-> "none"] /\ job = [q \in Queues |-> FALSE]
    /\ waiting = [q \in Queues |-> FALSE] /\ errors = [q \in Queues |-> 0]
    /\ late = {} /\ teardown = <<>> /\ exit = "no"

Traffic(kind) == kind \in config.traffic /\ arrivals < config.maxCalls /\ arrivals' = arrivals + 1
Mishap(kind) == kind \in config.faults /\ mishaps < config.maxFaults /\ mishaps' = mishaps + 1
Alive == exit = "no"
Running == Alive /\ boot = "running"
Exit(how) == exit' = how /\ UNCHANGED <<workVars, teardown>>

-----------------------------------------------------------------------------
(* The start.                                                              *)

Report(c, state) == status' = [status EXCEPT ![c] = state]
\* What the database, Upstash and the Redis of REDIS_URL may answer to a check, the last two
\* within five seconds.
HasRedis == config.redis
DatabaseAnswers == {TRUE} \cup {ok \in {FALSE} : "boot" \in config.faults}
RestAnswers == DatabaseAnswers
TcpAnswers == IF HasRedis THEN DatabaseAnswers ELSE {FALSE}

\* One check: its component is marked, and main() goes on whatever the answer.
Checked(here, c, answers, bad, next) ==
    /\ Alive /\ boot = here /\ boot' = next
    /\ \E ok \in answers : Report(c, IF ok THEN "ready" ELSE bad)
    /\ UNCHANGED <<config, arrivals, mishaps, up, server, workVars, teardown, exit>>

\* The environment is parsed when it is imported: invalid, or a placeholder in
\* production, ends the process at once.
LoadEnv ==
    /\ Alive /\ boot = "env"
    /\ \/ boot' = "database" /\ UNCHANGED <<mishaps, workVars, teardown, exit>>
       \/ Mishap("boot") /\ UNCHANGED boot /\ Exit("failed")
    /\ UNCHANGED <<config, arrivals, up, status, server>>

\* A default grade scale is seeded too; that it fails is not a failure.
CheckDatabase == Checked("database", "database", DatabaseAnswers, "down", "rest")
CheckRest == Checked("rest", "upstashRedis", RestAnswers, "degraded", "tcp")
CheckTcp == Checked("tcp", "tcpRedis", TcpAnswers, "degraded", "banner")

\* Mutant: the banner is printed, and nothing is thrown.
BannerOnly ==
    /\ Alive /\ boot = "banner" /\ boot' = "socket"
    /\ UNCHANGED <<config, arrivals, mishaps, up, status, server, workVars, teardown, exit>>

\* Only the database's check is ever reported as a failure.
Banner ==
    /\ Alive /\ boot = "banner"
    /\ IF status["database"] = "down" THEN UNCHANGED boot /\ Exit("failed")
                                     ELSE boot' = "socket" /\ UNCHANGED <<workVars, teardown, exit>>
    /\ UNCHANGED <<config, arrivals, mishaps, up, status, server>>

OpenSocket ==
    /\ Alive /\ boot = "socket" /\ boot' = "listen"
    /\ open' = open \cup {"socket", "prisma"} /\ Report("socketIo", "ready")
    /\ UNCHANGED <<config, arrivals, mishaps, up, server, conns, worker, job, waiting, errors, late, teardown, exit>>

StartWorkers == worker' = [q \in Queues |-> IF HasRedis THEN "open" ELSE "none"]

\* The port is taken, or the server listens; then, before anything else runs, the handlers
\* of signals are set up and the workers and the sweeper are started.
Listen ==
    /\ Alive /\ boot = "listen"
    /\ \/ Mishap("boot") /\ UNCHANGED bootVars /\ Exit("failed")
       \/ /\ boot' = "running" /\ server' = "open"
          /\ StartWorkers
          /\ UNCHANGED <<mishaps, up, status, conns, open, job, waiting, errors, late, teardown, exit>>
    /\ UNCHANGED <<config, arrivals>>

-----------------------------------------------------------------------------
(* Traffic, jobs and the timer of the sweeper.                             *)

\* A request or a client's connection arrives; its token is looked up in the blacklist.
Connect(kind) ==
    /\ Running /\ server = "open" /\ conns[kind] = 0 /\ Traffic(kind)
    /\ conns' = [conns EXCEPT ![kind] = 1]
    /\ open' = IF HasRedis THEN open \cup {"blacklist"} ELSE open
    /\ UNCHANGED <<config, mishaps, bootVars, worker, job, waiting, errors, late, teardown, exit>>

\* It is over.  What a client sent last may still be handled.
Leave(kind) ==
    /\ Running /\ conns[kind] = 1 /\ conns' = [conns EXCEPT ![kind] = 0]
    /\ late' \in {late} \cup {late \cup {"handler"} : k \in {kind} \cap {"client"}}
    /\ UNCHANGED <<config, arrivals, mishaps, bootVars, open, worker, job, waiting, errors, teardown, exit>>

\* A job is put into its queue, which is opened for the first one, and again after it was
\* closed; with no REDIS_URL there is no queue.
Add(q) ==
    IF HasRedis THEN open' = open \cup {QueueOf[q]} /\ waiting' = [waiting EXCEPT ![q] = TRUE]
                   ELSE UNCHANGED <<open, waiting>>
AddJob(q) ==
    /\ Running /\ ~waiting[q] /\ Traffic(q)
    /\ conns["request"] = 1 \/ (q = "chat" /\ conns["client"] = 1)
    /\ Add(q)
    /\ UNCHANGED <<config, mishaps, bootVars, conns, worker, job, errors, late, teardown, exit>>

\* The sweeper's timer ticks, also during a shutdown.
Tick ==
    /\ Running /\ "sweep" \notin late /\ Traffic("sweep") /\ late' = late \cup {"sweep"}
    /\ UNCHANGED <<config, mishaps, bootVars, conns, open, worker, job, waiting, errors, teardown, exit>>

\* What was left behind ends: a sweep may find media to process, a handler a push to send.
LateEnds(what) ==
    /\ Running /\ what \in late /\ late' = late \ {what}
    /\ \/ UNCHANGED <<open, waiting>>
       \/ LET q == IF what = "sweep" THEN "media" ELSE "chat" IN ~waiting[q] /\ Add(q)
    /\ UNCHANGED <<config, arrivals, mishaps, bootVars, conns, worker, job, errors, teardown, exit>>

TakeJob(q) ==
    /\ Running /\ worker[q] = "open" /\ waiting[q] /\ ~job[q]
    /\ waiting' = [waiting EXCEPT ![q] = FALSE] /\ job' = [job EXCEPT ![q] = TRUE]
    /\ UNCHANGED <<config, arrivals, mishaps, bootVars, conns, open, worker, errors, late, teardown, exit>>
EndJob(q) ==
    /\ Running /\ job[q] /\ job' = [job EXCEPT ![q] = FALSE]
    /\ UNCHANGED <<config, arrivals, mishaps, bootVars, conns, open, worker, waiting, errors, late, teardown, exit>>

\* The worker's connection fails: the first error since it was ready is reported.
\* In the scenes without such errors the workers' connections are left out.
WorkerError(q) ==
    /\ Running /\ worker[q] # "none" /\ Mishap("line")
    /\ errors' = [errors EXCEPT ![q] = @ + 1]
    /\ IF errors[q] = 0 THEN Report(WorkerOf[q], "degraded") ELSE UNCHANGED status
    /\ UNCHANGED <<config, arrivals, boot, up, server, conns, open, worker, job, waiting, late, teardown, exit>>
WorkerReady(q) ==
    /\ Running /\ worker[q] # "none" /\ "line" \in config.faults /\ status[WorkerOf[q]] # "ready"
    /\ errors' = [errors EXCEPT ![q] = 0] /\ Report(WorkerOf[q], "ready")
    /\ UNCHANGED <<config, arrivals, mishaps, boot, up, server, conns, open, worker, job, waiting, late, teardown, exit>>

\* The database goes away, or comes back.
Database ==
    /\ Running /\ IF up THEN Mishap("db") ELSE UNCHANGED mishaps
    /\ up' = ~up
    /\ UNCHANGED <<config, arrivals, boot, status, server, workVars, teardown, exit>>

-----------------------------------------------------------------------------
(* The shutdown.                                                           *)

\* A signal: nobody handles it before the server listens; then the server stops accepting,
\* a shutdown waits for it to close, and a timer of ten seconds is started.
Signal ==
    /\ Alive /\ Len(teardown) < config.signals
    /\ IF boot = "running"
       THEN /\ server' = IF server = "open" THEN "closing" ELSE server
            /\ teardown' = Append(teardown, 0) /\ UNCHANGED <<workVars, exit>>
       ELSE Exit("killed") /\ UNCHANGED server
    /\ UNCHANGED <<config, arrivals, mishaps, boot, up, status>>

\* The server is closed once no connection is left, a chat client's included.
Drained(i) ==
    /\ Running /\ teardown[i] = 0 /\ \A k \in DOMAIN conns : conns[k] = 0
    /\ server' = "closed" /\ teardown' = [teardown EXCEPT ![i] = 1]
    /\ UNCHANGED <<config, arrivals, mishaps, boot, up, status, workVars, exit>>

At(i, step) == Running /\ teardown[i] > 0 /\ Steps[teardown[i]] = step
NextStep(i) == teardown' = [teardown EXCEPT ![i] = @ + 1]

\* Mutant: the worker's close is not awaited.
StopWorkerNoWait(i, q) ==
    /\ At(i, WorkerOf[q]) /\ NextStep(i)
    /\ worker' = [worker EXCEPT ![q] = IF @ = "open" THEN "closing" ELSE @]
    /\ UNCHANGED <<config, arrivals, mishaps, bootVars, conns, open, job, waiting, errors, late, exit>>

\* A worker that is being closed takes no more jobs, and is closed once it has none in hand.
StopWorker(i, q) ==
    /\ At(i, WorkerOf[q])
    /\ \/ worker[q] = "open" /\ worker' = [worker EXCEPT ![q] = "closing"] /\ UNCHANGED teardown
       \/ worker[q] = "closing" /\ ~job[q] /\ WorkerOf[q] \notin config.hung
          /\ worker' = [worker EXCEPT ![q] = "none"] /\ NextStep(i)
       \/ worker[q] = "none" /\ UNCHANGED worker /\ NextStep(i)
    /\ UNCHANGED <<config, arrivals, mishaps, bootVars, conns, open, job, waiting, errors, late, exit>>

Close(i, step) ==
    /\ At(i, step) /\ step \notin config.hung \cap open
    /\ open' = open \ {step} /\ NextStep(i)
    /\ UNCHANGED <<config, arrivals, mishaps, bootVars, conns, worker, job, waiting, errors, late, exit>>
CloseQueue(i, q) == Close(i, QueueOf[q])
CloseSocket(i) == Close(i, "socket")
CloseBlacklist(i) == Close(i, "blacklist")

\* A step that throws is logged, and the next one follows.
StepFails(i) ==
    /\ Running /\ teardown[i] \in 1..6 /\ Mishap("step") /\ NextStep(i)
    /\ worker' = [q \in Queues |-> IF At(i, WorkerOf[q]) /\ worker[q] = "open" THEN "closing" ELSE worker[q]]
    /\ UNCHANGED <<config, arrivals, bootVars, conns, open, job, waiting, errors, late, exit>>

\* The database is disconnected and the process ends, unless the disconnection hangs.
Disconnect(i) ==
    /\ At(i, "prisma") /\ "prisma" \notin config.hung
    /\ open' = open \ {"prisma"} /\ exit' = "clean"
    /\ UNCHANGED <<config, arrivals, mishaps, bootVars, conns, worker, job, waiting, errors, late, teardown>>

Teardown(i) ==
    \/ Drained(i)
    \/ \E q \in Queues : StopWorker(i, q) \/ CloseQueue(i, q)
    \/ CloseSocket(i) \/ CloseBlacklist(i) \/ Disconnect(i)

\* A shutdown waits: for connections to end, or for a closing that hangs.
Stuck(i) ==
    IF teardown[i] = 0 THEN \E k \in DOMAIN conns : conns[k] = 1
    ELSE Steps[teardown[i]] \in config.hung \cap (open \cup {WorkerOf[q] : q \in {q \in Queues : worker[q] = "closing"}})

\* Ten seconds are long: they are over only when nothing moves any more, unless requests
\* and jobs are slow.
Moving == conns["request"] = 1 \/ (\E q \in Queues : job[q]) \/ \E i \in DOMAIN teardown : ~Stuck(i)
\* Mutant: the timer is started when the server has closed.
ForcedAfterClose ==
    /\ Running /\ (\E i \in DOMAIN teardown : teardown[i] > 0) /\ ("slow" \in config.faults \/ ~Moving)
    /\ Exit("forced") /\ UNCHANGED <<config, arrivals, mishaps, bootVars>>

Forced ==
    /\ Running /\ teardown # <<>> /\ ("slow" \in config.faults \/ ~Moving)
    /\ Exit("forced") /\ UNCHANGED <<config, arrivals, mishaps, bootVars>>

\* An exception or a rejection nobody caught ends the process.
Uncaught ==
    /\ Running /\ Mishap("bug") /\ Exit("crashed") /\ UNCHANGED <<config, arrivals, bootVars>>

ServerNext ==
    \/ LoadEnv \/ CheckDatabase \/ CheckRest \/ CheckTcp \/ Banner \/ OpenSocket \/ Listen
    \/ \E kind \in {"request", "client"} : Connect(kind) \/ Leave(kind)
    \/ \E q \in Queues : AddJob(q) \/ TakeJob(q) \/ EndJob(q) \/ WorkerError(q) \/ WorkerReady(q)
    \/ Tick \/ \E what \in late : LateEnds(what)
    \/ Database \/ Signal \/ Forced \/ Uncaught
    \/ \E i \in DOMAIN teardown : Teardown(i) \/ StepFails(i)
ServerSpec == ServerInit /\ [][ServerNext]_serverVars

\* Timers fire, requests and jobs end, and the shutdown's steps are resumed.
Shutdown ==
    \/ Forced \/ Leave("request") \/ \E q \in Queues : EndJob(q)
    \/ \E i \in DOMAIN teardown : Teardown(i)

-----------------------------------------------------------------------------

\* The health endpoints: what /health/ready and /health/deep answer now.
IsReady == status["database"] = "ready"
ReadyAnswer == IF IsReady THEN 200 ELSE 503
DeepAnswer == IF up THEN 200 ELSE 503

ServerTypeOK ==
    /\ config \in Configs /\ arrivals \in 0..config.maxCalls /\ mishaps \in 0..config.maxFaults
    /\ boot \in {"env", "database", "rest", "tcp", "banner", "socket", "listen", "running"}
    /\ status \in [Components -> {"starting", "ready", "degraded", "down"}]
    /\ server \in {"none", "open", "closing", "closed"} /\ conns \in [{"request", "client"} -> 0..1]
    /\ open \subseteq {"mediaQueue", "chatQueue", "socket", "blacklist", "prisma"}
    /\ worker \in [Queues -> {"none", "open", "closing"}]
    /\ job \in [Queues -> BOOLEAN] /\ waiting \in [Queues -> BOOLEAN] /\ errors \in [Queues -> 0..config.maxFaults]
    /\ late \subseteq {"sweep", "handler"} /\ up \in BOOLEAN
    /\ teardown \in Seq(0..7) /\ exit \in {"no", "failed", "killed", "crashed", "forced", "clean"}

\* Nobody is served by a process that found no database when it started, and a process that
\* gave up starting served nobody (the throw of printStartupBanner, server.ts' catch).
ServesOnlyWhenReady ==
    /\ server # "none" => ReadyAnswer = 200
    /\ exit = "failed" => server = "none" /\ arrivals = 0

\* A process that ends with 0 has cut nobody off: no request, no chat client, no job in a
\* worker's hand, and its socket server and its database connection are closed; however many
\* signals came, unless a step of the shutdown threw (setupGracefulShutdown).
CleanExitDrains ==
    exit = "clean" =>
       /\ server = "closed" /\ (\A k \in DOMAIN conns : conns[k] = 0)
       /\ "prisma" \notin open
       /\ "step" \notin config.faults =>
             "socket" \notin open /\ \A q \in Queues : worker[q] = "none" /\ ~job[q]

\* A worker that has had errors since it was last ready is reported as degraded, one
\* without as ready or as still starting (the handlers of 'error' and 'ready').
WorkersReported ==
    \A q \in Queues :
       IF errors[q] > 0 THEN status[WorkerOf[q]] = "degraded" ELSE status[WorkerOf[q]] \in {"starting", "ready"}

\* Server: a process serves only with the database found at its start, ends with 0 only when
\* it has cut nobody off, and reports its workers' errors.
ServerSound == ServerTypeOK /\ ServesOnlyWhenReady /\ CleanExitDrains /\ WorkersReported

\* A process that got a signal ends, whoever is still connected and whatever hangs (the
\* ten-second timer of setupGracefulShutdown).
Stopping == teardown # <<>> /\ exit = "no"
SignalEnds == Stopping ~> ~Stopping

\* "closes workers + socket.io + prisma, then force-exits after 10s" (ecosystem.config.js):
\* the exit is forced only on a shutdown that had begun to close them.  Not so: with a chat
\* client connected the first step never begins.
ClosesThenForces == exit = "forced" => \E i \in DOMAIN teardown : teardown[i] > 0

\* "Can this instance serve normal traffic?" (src/app.ts): an instance that says so has a
\* database.  Not so once the database is lost: readiness was decided at the start.
ReadyTells == Running /\ ReadyAnswer = 200 => DeepAnswer = 200
=============================================================================
