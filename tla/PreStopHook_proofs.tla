------------------------- MODULE PreStopHook_proofs -------------------------
(***************************************************************************)
(* Theorems about the preStop hook, for every number of tasks and every    *)
(* grace period.                                                           *)
(***************************************************************************)
EXTENDS PreStopHook, TLAPS

USE HookAssumption DEF HookAssumption

\* TypeOK holds in every reachable state.
THEOREM HookTypes == Spec => []TypeOK
<1>1. Init => TypeOK
  <2>1. Grace \in 0..Grace
    OBVIOUS
  <2>2. FALSE \in BOOLEAN
    OBVIOUS
  <2> QED BY <2>1, <2>2, Zenon DEF Init, TypeOK, Listens
<1>2. TypeOK /\ [Next]_vars => TypeOK'
  <2> SUFFICES ASSUME TypeOK, [Next]_vars PROVE TypeOK'
    OBVIOUS
  <2> USE DEF TypeOK, Listens, portVars
  <2>1. CASE ScriptStep
    BY <2>1 DEF ScriptStep, PutHttp, PutHttps, Check, EndLoop, Script, Put
  <2>2. CASE TaskArrives \/ TaskEnds \/ CoordinatorNotices \/ ShutDown
    BY <2>2 DEF TaskArrives, TaskEnds, CoordinatorNotices, ShutDown, Server
  <2>3. CASE Terminate \/ TimePasses \/ Stop
    BY <2>3 DEF Terminate, TimePasses, Stop
  <2>4. CASE UNCHANGED vars
    BY <2>4 DEF vars
  <2> QED BY <2>1, <2>2, <2>3, <2>4 DEF Next
<1> QED BY <1>1, <1>2, PTL DEF Spec

\* The inductive invariant:
\* an accepted request leaves the server shutting down, and the loop ends
\* on a server that is down.
HookInv ==
    /\ res => server /= "active"
    /\ BlocksOnShutdownOnly
    /\ pc = "done" /\ httpPort /\ ~missed => server = "down"
    /\ server = "killed" =>
          /\ pod = "stopped"
          /\ pc \in {"done", "failed"} \/ grace = 0

\* HookInv holds in every reachable state.
THEOREM HookInvariant == Spec => []HookInv
<1>1. Init => HookInv
  BY DEF Init, HookInv, BlocksOnShutdownOnly
<1>2. TypeOK /\ HookInv /\ [Next]_vars => HookInv'
  <2> SUFFICES ASSUME TypeOK, HookInv, [Next]_vars PROVE HookInv'
    OBVIOUS
  <2> USE DEF HookInv, BlocksOnShutdownOnly, Listens, portVars
  <2>1. CASE PutHttp \/ PutHttps
    BY <2>1 DEF PutHttp, PutHttps, Script, Put, TypeOK
  <2>2. CASE Check
    BY <2>2 DEF Check, Accepted, Script, TypeOK
  <2>3. CASE EndLoop
    BY <2>3 DEF EndLoop, Answers, Script, TypeOK
  <2>4. CASE TaskArrives \/ TaskEnds \/ CoordinatorNotices \/ ShutDown
    BY <2>4 DEF TaskArrives, TaskEnds, CoordinatorNotices, ShutDown, Server
  <2>5. CASE Terminate \/ TimePasses \/ Stop
    BY <2>5 DEF Terminate, TimePasses, Stop, TypeOK
  <2>6. CASE UNCHANGED vars
    BY <2>6 DEF vars
  <2> QED BY <2>1, <2>2, <2>3, <2>4, <2>5, <2>6 DEF Next, ScriptStep
<1> QED BY <1>1, <1>2, HookTypes, PTL DEF Spec

(***************************************************************************)
(* HookBlocksOnShutdown: the script never blocks on a server that has not  *)
(* taken the request to shut down.                                         *)
(***************************************************************************)
THEOREM HookBlocksOnShutdown == Spec => []BlocksOnShutdownOnly
<1>1. HookInv => BlocksOnShutdownOnly
  BY DEF HookInv
<1> QED BY <1>1, HookInvariant, PTL

(***************************************************************************)
(* HookKillsLate: a worker with an http port loses tasks only for one of   *)
(* the three reasons that TasksKilledOnlyLate names.                       *)
(***************************************************************************)
THEOREM HookKillsLate == Spec => []TasksKilledOnlyLate
<1>1. HookInv => TasksKilledOnlyLate
  BY DEF HookInv, TasksKilledOnlyLate
<1> QED BY <1>1, HookInvariant, PTL
=============================================================================
