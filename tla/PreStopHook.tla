---------------------------- MODULE PreStopHook ----------------------------
(***************************************************************************)
(* One worker pod while Kubernetes stops it, because the operator asked    *)
(* for fewer workers or for another template.  The worker Deployment gives *)
(* its container a preStop hook (desired.go) that runs the script of       *)
(* preStopScript.go: ask the Presto server to shut down, then block until  *)
(* it has.  The server finishes its tasks first.  The Deployment sets no   *)
(* terminationGracePeriodSeconds, so hook and server have Kubernetes'      *)
(* default of 30 seconds; the container is stopped when the hook has ended *)
(* or the time is up.  Server, coordinator and kubelet are external.       *)
(***************************************************************************)
EXTENDS Naturals

CONSTANTS
    MaxTasks, \* bound: tasks that run on the worker at the same time
    Grace     \* bound: the grace period, in steps of time

HookAssumption == MaxTasks \in Nat /\ Grace \in Nat

ASSUME HookAssumption

VARIABLES
    httpPort,  \* the script finds http-server.http.port in config.properties
    httpsPort, \* and http-server.https.port
    pc,        \* where the script is
    res,       \* the last answer to its request was 200
    server,    \* the Presto server of the worker
    tasks,     \* how many tasks it runs
    missed,    \* a later request failed although the server was there
    pod,       \* what the kubelet does with the pod
    grace      \* what is left of the grace period

portVars == <<httpPort, httpsPort>>
vars     == <<portVars, pc, res, missed, server, tasks, pod, grace>>

\* A server that shuts down goes on until the coordinator avoids it and its
\* tasks have ended.
Listens == {"active", "shuttingDown", "avoided"}

TypeOK ==
    /\ httpPort \in BOOLEAN
    /\ httpsPort \in BOOLEAN
    /\ pc \in {"none", "putHttp", "putHttps", "check", "block", "done", "failed"}
    /\ res \in BOOLEAN
    /\ missed \in BOOLEAN
    /\ server \in Listens \cup {"down", "killed"}
    /\ tasks \in 0..MaxTasks
    /\ pod \in {"running", "terminating", "stopped"}
    /\ grace \in 0..Grace

-----------------------------------------------------------------------------
(***************************************************************************)
(* The script                                                              *)
(***************************************************************************)
Script(from, to) ==
    /\ pod = "terminating"
    /\ pc = from
    /\ pc' = to
    /\ UNCHANGED <<portVars, tasks, pod, grace>>

\* PUT "SHUTTING_DOWN": answered with 200, or refused, or lost before or after
\* the server has taken it.
Put ==
    LET taken == IF server = "active" THEN "shuttingDown" ELSE server
    IN  \/ /\ server \in Listens
           /\ server' = taken
           /\ res' = TRUE
        \/ /\ server' \in {server, taken}
           /\ res' = FALSE

PutHttp ==
    /\ Script("putHttp", "putHttps")
    /\ IF httpPort THEN Put ELSE UNCHANGED <<server, res>>
    /\ UNCHANGED missed

PutHttps ==
    /\ Script("putHttps", "check")
    /\ IF ~res /\ httpsPort THEN Put ELSE UNCHANGED <<server, res>>
    /\ UNCHANGED missed

\* Seeded fault: any answer will do.
AcceptedAny == TRUE

\* [ -z "$res" -o "$res" != "200" ] is false.
Accepted == res

Check ==
    /\ Script("check", IF Accepted THEN "block" ELSE "failed")
    /\ UNCHANGED <<server, res, missed>>

\* Seeded fault: the script does not wait.
AnswersNever == FALSE

\* curl gets an answer on the http port.  If that is empty, nobody answers.
Answers == httpPort /\ server \in Listens

\* The loop goes on as long as it gets answers; one curl that fails, for
\* whatever reason, ends it.
EndLoop ==
    /\ Script("block", "done")
    /\ \/ ~Answers /\ UNCHANGED missed
       \/ Answers /\ missed' = TRUE
    /\ UNCHANGED <<server, res>>

-----------------------------------------------------------------------------
(***************************************************************************)
(* The server and the coordinator that gives it tasks                      *)
(***************************************************************************)
Server ==
    /\ server \in Listens
    /\ UNCHANGED <<portVars, pc, res, missed, pod, grace>>

\* The coordinator gives tasks to a server until it has noticed.
TaskArrives ==
    /\ Server
    /\ server \in {"active", "shuttingDown"}
    /\ tasks < MaxTasks
    /\ tasks' = tasks + 1
    /\ UNCHANGED server

TaskEnds ==
    /\ Server
    /\ tasks > 0
    /\ tasks' = tasks - 1
    /\ UNCHANGED server

CoordinatorNotices ==
    /\ Server
    /\ server = "shuttingDown"
    /\ server' = "avoided"
    /\ UNCHANGED tasks

ShutDown ==
    /\ Server
    /\ server = "avoided"
    /\ tasks = 0
    /\ server' = "down"
    /\ UNCHANGED tasks

-----------------------------------------------------------------------------
(***************************************************************************)
(* The kubelet                                                             *)
(***************************************************************************)
Terminate ==
    /\ pod = "running"
    /\ pod' = "terminating"
    /\ pc' = "putHttp"
    /\ UNCHANGED <<portVars, res, missed, server, tasks, grace>>

TimePasses ==
    /\ pod = "terminating"
    /\ grace > 0
    /\ grace' = grace - 1
    /\ UNCHANGED <<portVars, pc, res, missed, server, tasks, pod>>

\* A hook that failed is no reason to wait.
Stop ==
    /\ pod = "terminating"
    /\ pc \in {"done", "failed"} \/ grace = 0
    /\ pod' = "stopped"
    /\ server' = IF server \in Listens THEN "killed" ELSE server
    /\ UNCHANGED <<portVars, pc, res, missed, tasks, grace>>

-----------------------------------------------------------------------------
Init ==
    /\ httpPort \in BOOLEAN
    /\ httpsPort \in BOOLEAN
    /\ pc = "none"
    /\ res = FALSE
    /\ missed = FALSE
    /\ server = "active"
    /\ tasks \in 0..MaxTasks
    /\ pod = "running"
    /\ grace = Grace

ScriptStep == PutHttp \/ PutHttps \/ Check \/ EndLoop

Next ==
    \/ ScriptStep
    \/ TaskArrives
    \/ TaskEnds
    \/ CoordinatorNotices
    \/ ShutDown
    \/ Terminate
    \/ TimePasses
    \/ Stop

Spec == Init /\ [][Next]_vars

-----------------------------------------------------------------------------
(***************************************************************************)
(* BlocksOnShutdownOnly: the script blocks only on a server that has taken *)
(* the request, through whichever port and whatever answers were lost, and *)
(* never on one that stays in service until the grace period is used up.   *)
(***************************************************************************)
BlocksOnShutdownOnly == pc \in {"block", "done"} => server /= "active"

(***************************************************************************)
(* TasksKilledOnlyLate: a worker with an http port loses tasks only if the *)
(* grace period is too short for them, or no request was answered with     *)
(* 200, or a later one failed although the server was there.               *)
(***************************************************************************)
TasksKilledOnlyLate ==
    httpPort /\ server = "killed" /\ tasks > 0
        => grace = 0 \/ pc = "failed" \/ missed

(***************************************************************************)
(* BlocksUntilDown: "This script will block until the server has actually  *)
(* shutdown." (preStopScript.go).  It does not hold, even if every curl    *)
(* gets its answer: the loop asks the http port only, also if it was the   *)
(* https port that took the request.                                       *)
(***************************************************************************)
BlocksUntilDown == pc = "done" /\ ~missed => server \notin Listens
=============================================================================
