------------------------------ MODULE Scheduler ------------------------------
(***************************************************************************)
(* The deployment scheduler of a provider peer                             *)
(* (internal/scheduler/scheduler.go) with the part of the container        *)
(* runtime it drives (internal/runtime/docker.go).                         *)
(*                                                                         *)
(* Every inbound request is served by a goroutine of its own, so any       *)
(* number of Schedule and Stop calls run at once.  The scheduler's mutex   *)
(* makes each locked section atomic and nothing more: one action below is  *)
(* one locked section, or one call of docker between two of them, together *)
(* with the goroutine-local statements next to it.                         *)
(*                                                                         *)
(* A deployment record is a heap object: the table `deployments' maps an   *)
(* ID to an object, and a goroutine that looked the object up keeps its    *)
(* pointer after the table has dropped it.  A container is named by the    *)
(* object of the Schedule call that started it.                            *)
(***************************************************************************)
EXTENDS Integers, FiniteSets

CONSTANTS
    Workers,      \* goroutines that run Schedule, one call after another
    Stoppers,     \* goroutines that run Stop, one call after another
    MaxDeploys,   \* bound: Schedule calls admitted in a behaviour
    maxSlots,     \* Config.MaxDeployments
    maxCPU,       \* Config.MaxCPU
    maxMemory,    \* Config.MaxMemory
    Requests,     \* the [cpu, mem] pairs clients ask for
    MaxLimit,     \* bound: the largest size of a requested limit
    MinMemory,    \* the 4MB floor of validateConfig
    ClockRepeats, \* may two calls read the same time.Now().UnixNano()?
    EarlyStops,   \* may Stop name a deployment whose Schedule is running?
    DockerFails   \* may docker fail to stop a container?

Ids == 1..MaxDeploys

\* The absence of an object, of a container ID ("") or of a table entry.
Nil == 0

Limits == -MaxLimit..MaxLimit

Status == {"pending", "pulling", "starting", "running",
           "stopping", "stopped", "failed"}

ASSUME SchedulerAssumption ==
    /\ MaxDeploys \in Nat \ {0}
    /\ MaxLimit \in Nat
    /\ maxSlots \in Nat /\ maxCPU \in Int /\ maxMemory \in Int
    /\ MinMemory \in Nat \ {0}
    /\ Requests \subseteq [cpu : Limits, mem : Limits]
    /\ IsFiniteSet(Workers) /\ Workers # {}
    /\ ClockRepeats \in BOOLEAN /\ EarlyStops \in BOOLEAN
    /\ DockerFails \in BOOLEAN

VARIABLES
    deployments, \* Scheduler.deployments: ID -> object, Nil when absent
    heap,        \* the Deployment objects, in the map or not
    usedCPU,     \* Scheduler.usedCPU
    usedMemory,  \* Scheduler.usedMemory
    calls,       \* objects allocated so far
    lastId,      \* the latest deployment ID generated
    containers,  \* external: the containers docker is running
    pc, dep,     \* per worker: where it is in Schedule, and its object
    spc, target, \* per stopper: where it is in Stop, the ID it was given,
    sdep         \*   and the object it looked up

tableVars  == <<deployments, usedCPU, usedMemory>>
workerVars == <<pc, dep, calls, lastId>>
stopVars   == <<spc, target, sdep>>
vars == <<tableVars, heap, containers, workerVars, stopVars>>

Deployment == [id : 0..MaxDeploys, cpu : Limits, mem : Limits,
               status : Status, container : 0..MaxDeploys]

TypeOK ==
    /\ deployments \in [Ids -> 0..MaxDeploys]
    /\ heap \in [Ids -> Deployment]
    /\ usedCPU \in Int /\ usedMemory \in Int
    /\ calls \in 0..MaxDeploys
    /\ lastId \in 0..calls
    /\ containers \subseteq Ids
    /\ pc \in [Workers -> {"idle", "admitted", "registered", "pulling",
                           "starting", "started", "done", "error"}]
    /\ dep \in [Workers -> 0..calls]
    /\ spc \in [Stoppers -> {"idle", "marked", "stopped", "done", "error"}]
    /\ target \in [Stoppers -> 0..MaxDeploys]
    /\ sdep \in [Stoppers -> 0..calls]

-----------------------------------------------------------------------------
(* State functions *)

\* The IDs in the table; its size is len(s.deployments).
Live == {i \in Ids : deployments[i] # Nil}

\* The sum of an integer function on Ids whose values are in Limits, as a
\* count of unit charges: a formula without recursion.
Total(f) ==
    Cardinality({u \in Ids \X (1..MaxLimit) : u[2] <= f[u[1]]})
      - Cardinality({u \in Ids \X (1..MaxLimit) : u[2] <= -f[u[1]]})

\* What each ID is charged: the limits of the object the table holds for it.
LiveCPU == [i \in Ids |-> IF deployments[i] = Nil THEN 0
                          ELSE heap[deployments[i]].cpu]
LiveMem == [i \in Ids |-> IF deployments[i] = Nil THEN 0
                          ELSE heap[deployments[i]].mem]

\* No Schedule call that is still running was given this ID.
Answered(id) == \A w \in Workers : dep[w] # Nil => heap[dep[w]].id # id

\* The IDs a client may ask to stop: an orderly client names a deployment it
\* has had the answer for, any other names what it likes (handleStatus lists
\* deployments that are still being started).
Stoppable(id) == EarlyStops \/ (id <= lastId /\ Answered(id))

\* generateDeploymentID: the clock reading is new, or repeats the last one.
NewIds == {lastId + 1} \cup {i \in {lastId} : ClockRepeats /\ i # 0}

-----------------------------------------------------------------------------
(* Schedule *)

\* Mutant: the slot comparison is off by one.
CanScheduleOffByOne(r) ==
    /\ Cardinality(Live) <= maxSlots
    /\ usedCPU + r.cpu <= maxCPU
    /\ usedMemory + r.mem <= maxMemory

CanSchedule(r) ==
    /\ Cardinality(Live) < maxSlots
    /\ usedCPU + r.cpu <= maxCPU
    /\ usedMemory + r.mem <= maxMemory

\* Mutant: the record is allocated without a Status.
AdmitNoStatus(w) ==
    /\ pc[w] = "idle"
    /\ calls < MaxDeploys
    /\ \E r \in Requests, id \in NewIds :
         /\ CanSchedule(r)
         /\ lastId' = id
         /\ heap' = [heap EXCEPT ![calls + 1] =
              [id |-> id, cpu |-> r.cpu, mem |-> r.mem,
               status |-> "", container |-> Nil]]
    /\ calls' = calls + 1
    /\ dep' = [dep EXCEPT ![w] = calls + 1]
    /\ pc' = [pc EXCEPT ![w] = "admitted"]
    /\ UNCHANGED <<tableVars, containers, stopVars>>

\* The check passes; the call takes an ID and allocates its record.
Admit(w) ==
    /\ pc[w] = "idle"
    /\ calls < MaxDeploys
    /\ \E r \in Requests, id \in NewIds :
         /\ CanSchedule(r)
         /\ lastId' = id
         /\ heap' = [heap EXCEPT ![calls + 1] =
              [id |-> id, cpu |-> r.cpu, mem |-> r.mem,
               status |-> "pending", container |-> Nil]]
    /\ calls' = calls + 1
    /\ dep' = [dep EXCEPT ![w] = calls + 1]
    /\ pc' = [pc EXCEPT ![w] = "admitted"]
    /\ UNCHANGED <<tableVars, containers, stopVars>>

\* CanSchedule returns an error, and Schedule returns it at once.
Reject(w) ==
    /\ pc[w] = "idle"
    /\ \E r \in Requests : ~CanSchedule(r)
    /\ pc' = [pc EXCEPT ![w] = "error"]
    /\ dep' = [dep EXCEPT ![w] = Nil]
    /\ UNCHANGED <<tableVars, heap, containers, calls, lastId, stopVars>>

\* A second section of the lock: the record enters the table unconditionally
\* and is charged.
Register(w) ==
    /\ pc[w] = "admitted"
    /\ LET d == heap[dep[w]]
       IN  /\ deployments' = [deployments EXCEPT ![d.id] = dep[w]]
           /\ usedCPU' = usedCPU + d.cpu
           /\ usedMemory' = usedMemory + d.mem
    /\ pc' = [pc EXCEPT ![w] = "registered"]
    /\ UNCHANGED <<heap, containers, dep, calls, lastId, stopVars>>

\* The object the table holds for the ID, if any, gets the status.
updateStatus(id, status) ==
    heap' = IF deployments[id] = Nil THEN heap
            ELSE [heap EXCEPT ![deployments[id]].status = status]

SetPulling(w) ==
    /\ pc[w] = "registered"
    /\ updateStatus(heap[dep[w]].id, "pulling")
    /\ pc' = [pc EXCEPT ![w] = "pulling"]
    /\ UNCHANGED <<tableVars, containers, dep, calls, lastId, stopVars>>

\* Mutant: the entry is released but stays in the table.
ReleaseKeepsEntry(id, status) ==
    LET d == heap[deployments[id]]
    IN  IF deployments[id] = Nil
        THEN UNCHANGED <<tableVars, heap>>
        ELSE /\ usedCPU' = usedCPU - d.cpu
             /\ usedMemory' = usedMemory - d.mem
             /\ heap' = [heap EXCEPT ![deployments[id]].status = status]
             /\ UNCHANGED deployments

\* Shared by failDeployment and Stop: if the ID is in the table, its object's
\* limits are given back, its final status is set and the entry is deleted.
Release(id, status) ==
    LET d == heap[deployments[id]]
    IN  IF deployments[id] = Nil
        THEN UNCHANGED <<tableVars, heap>>
        ELSE /\ usedCPU' = usedCPU - d.cpu
             /\ usedMemory' = usedMemory - d.mem
             /\ heap' = [heap EXCEPT ![deployments[id]].status = status]
             /\ deployments' = [deployments EXCEPT ![id] = Nil]

failDeployment(w) ==
    /\ Release(heap[dep[w]].id, "failed")
    /\ pc' = [pc EXCEPT ![w] = "error"]
    /\ UNCHANGED <<containers, dep, calls, lastId, stopVars>>

\* runtime.Pull returns nil and the status becomes starting.
PullSucceeds(w) ==
    /\ pc[w] = "pulling"
    /\ updateStatus(heap[dep[w]].id, "starting")
    /\ pc' = [pc EXCEPT ![w] = "starting"]
    /\ UNCHANGED <<tableVars, containers, dep, calls, lastId, stopVars>>

PullFails(w) == pc[w] = "pulling" /\ failDeployment(w)

\* The limits docker is asked for are only checked here, after the charge.
validateConfig(d) == d.cpu > 0 /\ d.mem > 0 /\ d.mem >= MinMemory

\* runtime.Run: docker has started the container and printed its ID.
RunSucceeds(w) ==
    /\ pc[w] = "starting"
    /\ validateConfig(heap[dep[w]])
    /\ containers' = containers \cup {dep[w]}
    /\ pc' = [pc EXCEPT ![w] = "started"]
    /\ UNCHANGED <<tableVars, heap, dep, calls, lastId, stopVars>>

\* Mutant: an error of docker run that comes after the container was started.
RunFailsStarted(w) ==
    /\ pc[w] = "starting"
    /\ Release(heap[dep[w]].id, "failed")
    /\ containers' = containers \cup {dep[w]}
    /\ pc' = [pc EXCEPT ![w] = "error"]
    /\ UNCHANGED <<dep, calls, lastId, stopVars>>

\* The configuration is refused, or docker run fails.
RunFails(w) == pc[w] = "starting" /\ failDeployment(w)

\* Mutant: the record becomes running without its container's ID.
PublishStatusOnly(w) ==
    /\ pc[w] = "started"
    /\ updateStatus(heap[dep[w]].id, "running")
    /\ pc' = [pc EXCEPT ![w] = "done"]
    /\ UNCHANGED <<tableVars, containers, dep, calls, lastId, stopVars>>

\* The container ID reaches the object the table holds for the ID, if any.
Publish(w) ==
    /\ pc[w] = "started"
    /\ LET o == deployments[heap[dep[w]].id]
       IN  heap' = IF o = Nil THEN heap
                   ELSE [heap EXCEPT ![o].container = dep[w],
                                     ![o].status = "running"]
    /\ pc' = [pc EXCEPT ![w] = "done"]
    /\ UNCHANGED <<tableVars, containers, dep, calls, lastId, stopVars>>

\* Schedule returns its record or its error and the goroutine is free.
ScheduleReturns(w) ==
    /\ pc[w] \in {"done", "error"}
    /\ pc' = [pc EXCEPT ![w] = "idle"]
    /\ dep' = [dep EXCEPT ![w] = Nil]
    /\ UNCHANGED <<tableVars, heap, containers, calls, lastId, stopVars>>

-----------------------------------------------------------------------------
(* Stop *)

StopLookup(s, id) ==
    /\ spc[s] = "idle"
    /\ target' = [target EXCEPT ![s] = id]
    /\ sdep' = [sdep EXCEPT ![s] = deployments[id]]
    /\ updateStatus(id, "stopping")
    /\ spc' = [spc EXCEPT ![s] = IF deployments[id] = Nil
                                 THEN "error" ELSE "marked"]
    /\ UNCHANGED <<tableVars, containers, workerVars>>

\* Mutant: only a running deployment's container is stopped, but the lookup
\* has just marked it stopping.
StopContainerIfRunning(s) ==
    /\ spc[s] = "marked"
    /\ containers' = IF heap[sdep[s]].status = "running"
                     THEN containers \ {heap[sdep[s]].container}
                     ELSE containers
    /\ spc' = [spc EXCEPT ![s] = "stopped"]
    /\ UNCHANGED <<tableVars, heap, workerVars, target, sdep>>

\* Outside the lock: the container ID is read from the object and, unless it
\* is still "", docker stops and removes the container.  runtime.Stop ignores
\* docker's errors.
StopContainer(s) ==
    /\ spc[s] = "marked"
    /\ \/ containers' = containers \ {heap[sdep[s]].container}
       \/ DockerFails /\ UNCHANGED containers
    /\ spc' = [spc EXCEPT ![s] = "stopped"]
    /\ UNCHANGED <<tableVars, heap, workerVars, target, sdep>>

StopRelease(s) ==
    /\ spc[s] = "stopped"
    /\ Release(target[s], "stopped")
    /\ spc' = [spc EXCEPT ![s] = "done"]
    /\ UNCHANGED <<containers, workerVars, target, sdep>>

StopReturns(s) ==
    /\ spc[s] \in {"done", "error"}
    /\ spc' = [spc EXCEPT ![s] = "idle"]
    /\ target' = [target EXCEPT ![s] = Nil]
    /\ sdep' = [sdep EXCEPT ![s] = Nil]
    /\ UNCHANGED <<tableVars, heap, containers, workerVars>>

-----------------------------------------------------------------------------
\* External: a container ends by itself.  The scheduler is not told.
ContainerExits ==
    /\ \E c \in containers : containers' = containers \ {c}
    /\ UNCHANGED <<tableVars, heap, workerVars, stopVars>>

Init ==
    /\ deployments = [i \in Ids |-> Nil]
    /\ heap = [o \in Ids |-> [id |-> Nil, cpu |-> 0, mem |-> 0,
                              status |-> "pending", container |-> Nil]]
    /\ usedCPU = 0 /\ usedMemory = 0
    /\ calls = 0 /\ lastId = 0
    /\ containers = {}
    /\ pc = [w \in Workers |-> "idle"] /\ dep = [w \in Workers |-> Nil]
    /\ spc = [s \in Stoppers |-> "idle"]
    /\ target = [s \in Stoppers |-> Nil] /\ sdep = [s \in Stoppers |-> Nil]

Schedule(w) ==
    \/ Admit(w) \/ Reject(w) \/ Register(w) \/ SetPulling(w)
    \/ PullSucceeds(w) \/ PullFails(w) \/ RunSucceeds(w) \/ RunFails(w)
    \/ Publish(w) \/ ScheduleReturns(w)

Stop(s) ==
    \/ \E id \in Ids : Stoppable(id) /\ StopLookup(s, id)
    \/ StopContainer(s) \/ StopRelease(s) \/ StopReturns(s)

Next ==
    \/ \E w \in Workers : Schedule(w)
    \/ \E s \in Stoppers : Stop(s)
    \/ ContainerExits

Spec == Init /\ [][Next]_vars
-----------------------------------------------------------------------------
(* Properties *)

\* Every call so far was given an ID of its own.
DistinctIds == lastId = calls

\* What CanSchedule decides on is what the table holds.
Balanced == usedCPU = Total(LiveCPU) /\ usedMemory = Total(LiveMem)

\* usedCPU and usedMemory are the sums of the limits of the deployments in
\* the table, whatever Schedule, failDeployment and Stop calls race on one
\* deployment: nothing is charged twice, released twice or forgotten, until
\* two calls read the same clock value.
Accounting == DistinctIds => Balanced

\* CanSchedule and the insertion are two sections of the lock, so concurrent
\* calls may all pass the check before one inserts; the table never exceeds
\* the slots by more than the other concurrent calls.
SlotsBound == Cardinality(Live) <= maxSlots + Cardinality(Workers) - 1

\* A running container belongs to a deployment of the table, and is named by
\* its record unless the Schedule call that started it has yet to publish it:
\* Stop can reach every container.
NoOrphans ==
    \A c \in containers :
        LET o == deployments[heap[c].id]
        IN  /\ o # Nil
            /\ \/ heap[o].container = c
               \/ \E w \in Workers : pc[w] = "started" /\ dep[w] = c

\* When Stop returns nil for an ID, no container labelled with the ID runs,
\* whatever other calls are in progress.
StopComplete ==
    \A s \in Stoppers : spc[s] = "done" =>
        \A c \in containers : heap[c].id # target[s]

\* The record a successful Schedule returns carries its own container's ID:
\* handleDeploy slices the first twelve characters of it.
AnswerHasContainer ==
    \A w \in Workers : pc[w] = "done" => heap[dep[w]].container = dep[w]
=============================================================================
