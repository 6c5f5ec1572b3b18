---------------------------- MODULE ProviderProofs ----------------------------
(***************************************************************************)
(* Proofs about Provider: what the scheduler and the handlers keep through *)
(* stops, shutdowns, panics, kills and restarts of the process.            *)
(***************************************************************************)
EXTENDS Provider, SchedulerProofs

\* The handlers are where their calls say, the mutex is held by one that sends,
\* a process that is gone has left nothing behind, and the client of a process
\* whose connection holds believes so.
Placed ==
    /\ \A w \in Workers : cmu = w => pc[w] = "done"
    /\ \A s \in Handlers :
         /\ cmu = s => asked[s] # Nil /\ spc[s] = "idle"
         /\ spc[s] # "idle" => asked[s] # Nil /\ target[s] = asked[s]
    /\ daemon # "draining" => spc[Closer] = "idle"
    /\ ~Running => \A w \in Workers : pc[w] = "idle"
    /\ ~Running => \A s \in Stoppers : spc[s] = "idle"
    /\ ~Running => \A s \in Handlers : asked[s] = Nil
    /\ link = "open" => Running /\ connected

PlacedInv == ProviderTypeOK /\ WellFormed /\ Placed

\* A deployment that was admitted and that no Schedule call works on.
Quiet(i) == i \in 1..calls /\ \A w \in Workers : dep[w] # i

\* What handleStop was asked for is quiet, and once the withdrawal is sent the
\* gateway will not route to it.
Requested ==
    \A s \in Handlers, i \in Ids : asked[s] = i =>
        /\ Quiet(i)
        /\ link = "open" /\ cmu # s => ~FinallyRouted(i)

\* What the gateway will route to has been started, and is in the table until a
\* shutdown.
Routed ==
    link = "open" => \A i \in Ids : FinallyRouted(i) =>
        /\ i <= calls
        /\ \A w \in Workers : dep[w] = i => pc[w] = "done"
        /\ daemon = "up" => deployments[i] = i

\* Until a shutdown nobody but the call itself takes its record out of the
\* table.
Entered ==
    daemon = "up" => \A w \in Workers :
        pc[w] \in {"registered", "pulling", "starting", "started", "done"} =>
            deployments[dep[w]] = dep[w]

Named ==
    \A w \in Workers : pc[w] = "done" /\ deployments[dep[w]] = dep[w] =>
        heap[dep[w]].container = dep[w]

LookedUp == \A s \in Stoppers : spc[s] = "marked" => sdep[s] = target[s]

CallsInv == Requested /\ Routed /\ Entered /\ Named /\ LookedUp

\* A container of a deployment in the table is named by its record, or about
\* to be; those the table does not list are left from an earlier process or a
\* shutdown that is not over.
Unstarted ==
    \A w \in Workers : pc[w] \in {"admitted", "registered", "pulling", "starting"} =>
        dep[w] \notin containers

Contained ==
    \A c \in containers :
        /\ c <= calls
        /\ deployments[c] = c =>
             \/ heap[c].container = c
             \/ \E w \in Workers : pc[w] = "started" /\ dep[w] = c

\* Until a shutdown, a Stop takes a record out only after its container.
StopsInOrder ==
    daemon = "up" => \A s \in Stoppers : target[s] \in containers =>
        /\ spc[s] # "stopped"
        /\ spc[s] = "marked" => deployments[target[s]] = target[s]

\* In a shutdown, a container that was answered for is still to be stopped.
SettledListed ==
    daemon = "draining" => \A i \in settled :
        /\ Quiet(i)
        /\ i \in containers =>
             /\ deployments[i] = i /\ heap[i].container = i
             /\ i \in snapshot \/ (spc[Closer] = "marked" /\ target[Closer] = i)
             /\ \A s \in Stoppers : target[s] = i => spc[s] # "stopped"

SettledGone == daemon = "exited" => settled \cap containers = {}

ShutdownInv ==
    Unstarted /\ Contained /\ StopsInOrder /\ SettledListed /\ SettledGone

USE DEF Ids, Nil

-----------------------------------------------------------------------------
(* The steps of the daemon, as the scheduler sees them *)

\* A Schedule step is about one worker, a Stop step about one stopper.
LEMMA ScheduleFrame ==
    ASSUME TypeInv, NEW w \in Workers, Schedule(w)
    PROVE  /\ UNCHANGED stopVars
           /\ \A v \in Workers \ {w} : pc'[v] = pc[v] /\ dep'[v] = dep[v]
<1>1. DOMAIN pc = Workers /\ DOMAIN dep = Workers
  BY DEF TypeInv, TypeOK
<1> QED
  BY <1>1 DEF Schedule, Admit, Reject, Register, SetPulling, PullSucceeds, PullFails,
     RunSucceeds, RunFails, failDeployment, Publish, ScheduleReturns

LEMMA StopFrame ==
    ASSUME TypeInv, NEW s \in Stoppers, AnyStop(s)
    PROVE  /\ UNCHANGED workerVars
           /\ \A t \in Stoppers \ {s} :
                spc'[t] = spc[t] /\ target'[t] = target[t] /\ sdep'[t] = sdep[t]
<1>1. DOMAIN spc = Stoppers /\ DOMAIN target = Stoppers /\ DOMAIN sdep = Stoppers
  BY DEF TypeInv, TypeOK
<1> QED
  BY <1>1 DEF AnyStop, StopLookup, StopContainer, StopRelease, StopReturns

\* What StopAll and handleStop call is a Stop, of an ID that need not be one
\* the caller was answered for.
LEMMA StopsAreStops ==
    ASSUME PlacedInv
    PROVE  /\ \A s \in Handlers : CallStop(s) \/ StopReplies(s) => AnyStop(s)
           /\ StopAllNext \/ StopAllStops => AnyStop(Closer)
<1>1. ASSUME NEW s \in Handlers, CallStop(s) PROVE AnyStop(s)
  <2>1. asked[s] \in Ids
    BY <1>1, SchedulerAssumption
    DEF SchedulerAssumption, CallStop, PlacedInv, ProviderTypeOK, Placed, Handlers
  <2> QED BY <1>1, <2>1 DEF CallStop, AnyStop
<1>2. ASSUME StopAllNext PROVE AnyStop(Closer)
  BY <1>2 DEF StopAllNext, AnyStop, PlacedInv, ProviderTypeOK
<1> QED BY <1>1, <1>2 DEF StopReplies, StopAllStops, AnyStop

\* Every step of the daemon is one of the scheduler or ends the process.
LEMMA StepKinds ==
    ASSUME PlacedInv, [ProviderNext]_providerVars
    PROVE  [AnyNext]_vars \/ \E how : ProcessGone(how)
<1> USE DEF schedulerVars
<1>1. ASSUME NEW w \in Workers, handleDeploy(w)
      PROVE  [AnyNext]_vars \/ \E how : ProcessGone(how)
  BY <1>1 DEF handleDeploy, CallSchedule, DeployPanics, Expose, RegisterWrites,
     DeployReplies, AnyNext, Schedule
<1>2. ASSUME NEW s \in Handlers, handleStop(s) PROVE [AnyNext]_vars
  BY <1>2, StopsAreStops DEF handleStop, StopArrives, UnregisterWrites, AnyNext, Handlers
<1>3. ASSUME NEW s \in Stoppers, TornRead(s) PROVE \E how : ProcessGone(how)
  BY <1>3 DEF TornRead
<1>4. CASE StopAll
  BY <1>4, StopsAreStops, ProviderAssumption DEF ProviderAssumption, StopAll, AnyNext
<1>5. CASE Exit \/ Kill
  BY <1>5 DEF Exit, Kill
<1>6. CASE Signal \/ Start \/ Connection \/ ContainerEnds \/ UNCHANGED providerVars
  BY <1>6 DEF Signal, Start, Connection, Respond, TunnelBreaks, ReaderEnds, GatewayReads,
     GatewayCleanup, ContainerEnds, providerVars, AnyNext
<1> QED BY <1>1, <1>2, <1>3, <1>4, <1>5, <1>6 DEF ProviderNext

\* What a process that is gone leaves to the next one: an empty table, whose
\* accounts are right, and the records' IDs.
LEMMA GoneKeeps ==
    ASSUME TypeInv, NEW how, ProcessGone(how)
    PROVE  TypeInv' /\ Balanced' /\ (OwnRecord => OwnRecord')
<1> MaxDeploys \in Nat /\ calls \in Nat
  BY SchedulerAssumption DEF SchedulerAssumption, TypeInv, TypeOK
<1>1. TypeInv'
  BY DEF ProcessGone, TypeInv, TypeOK, WellFormed
<1>2. Balanced'
  <2>1. LiveCPU' = [i \in Ids |-> 0] /\ LiveMem' = [i \in Ids |-> 0]
    BY DEF ProcessGone, LiveCPU, LiveMem
  <2>2. Total([i \in Ids |-> 0]) = 0
    BY TotalZero
  <2> QED BY <2>1, <2>2 DEF ProcessGone, Balanced, Total
<1>3. OwnRecord => OwnRecord'
  BY DEF ProcessGone, OwnRecord
<1> QED BY <1>1, <1>2, <1>3

LEMMA TypeKept == PlacedInv /\ [ProviderNext]_providerVars => TypeInv'
  BY StepKinds, TypeStep, GoneKeeps DEF PlacedInv, ProviderTypeOK, TypeInv

-----------------------------------------------------------------------------
(* Types, and where the handlers are *)

\* The types of the daemon's own variables.
DaemonTypes ==
    /\ daemon \in {"up", "draining", "exited", "panicked", "killed"}
    /\ starts \in 1..MaxStarts
    /\ asked \in [Handlers -> 0..MaxDeploys]
    /\ snapshot \subseteq Ids /\ settled \subseteq Ids
    /\ connected \in BOOLEAN /\ cmu \in Workers \cup Handlers \cup {Free, Visitor}
    /\ link \in {"none", "open", "broken", "closed"}
    /\ wire \in Seq(Messages) /\ Len(wire) <= Cap
    /\ gwRoutes \subseteq Ids

LEMMA PlacedParts == PlacedInv <=> TypeInv /\ DaemonTypes /\ Placed
  BY DEF PlacedInv, ProviderTypeOK, DaemonTypes, TypeInv

\* What the proofs use of the assumption.
LEMMA Names ==
    /\ Closer \in Stoppers /\ MaxStarts \in Nat /\ MaxStarts > 0 /\ Cap \in Nat
    /\ \A s \in Handlers : s \in Stoppers /\ s # Closer /\ s \notin Workers
    /\ \A w \in Workers : w \notin Handlers
    /\ Free \notin Workers /\ Free \notin Handlers
    /\ Visitor \notin Workers /\ Visitor \notin Handlers /\ Free # Visitor
    /\ MaxDeploys \in Nat /\ MaxDeploys > 0
  BY ProviderAssumption, SchedulerAssumption
  DEF ProviderAssumption, SchedulerAssumption, Handlers

LEMMA PlacedInit == ProviderInit => PlacedInv
<1> SUFFICES ASSUME ProviderInit PROVE PlacedInv
  OBVIOUS
<1>1. TypeInv
  BY TypeInit DEF ProviderInit
<1>2. DaemonTypes
  <2>1. wire \in Seq(Messages) /\ Len(wire) <= Cap
    BY Names DEF ProviderInit
  <2>2. asked \in [Handlers -> 0..MaxDeploys]
    BY Names DEF ProviderInit
  <2>3. connected \in BOOLEAN /\ link \in {"none", "open", "broken", "closed"}
    BY DEF ProviderInit
  <2> QED BY <2>1, <2>2, <2>3, Names DEF ProviderInit, DaemonTypes
<1>3. Placed
  BY Names DEF ProviderInit, Init, Placed, Running
<1> QED BY <1>1, <1>2, <1>3, PlacedParts

\* What a connection holds after its end, or after a write.
LEMMA BreaksTypes ==
    ASSUME DaemonTypes, Breaks
    PROVE  /\ link' \in {"none", "broken", "closed"}
           /\ wire' \in Seq(Messages) /\ Len(wire') <= Cap /\ gwRoutes' \subseteq Ids
<1>1. link' \in {"none", "broken", "closed"} /\ gwRoutes' \subseteq Ids
  BY DEF Breaks, DaemonTypes
<1>2. CASE wire' = wire
  BY <1>1, <1>2 DEF DaemonTypes
<1>3. CASE wire' = <<>>
  <2>1. <<>> \in Seq(Messages) /\ Len(<<>>) = 0
    OBVIOUS
  <2> QED BY <1>1, <1>3, <2>1, Names
<1> QED BY <1>2, <1>3 DEF Breaks

LEMMA WrittenTypes ==
    ASSUME DaemonTypes, NEW m \in Messages, Written(m)
    PROVE  /\ wire' \in Seq(Messages) /\ Len(wire') <= Cap
           /\ cmu' = Free /\ UNCHANGED <<connected, link, gwRoutes>>
<1>1. wire \in Seq(Messages) /\ Len(wire) <= Cap /\ Cap \in Nat /\ Len(wire) \in Nat
  BY Names DEF DaemonTypes
<1>2. /\ Append(wire, m) \in Seq(Messages)
      /\ Len(wire) < Cap => Len(Append(wire, m)) <= Cap
  BY <1>1
<1> QED BY <1>1, <1>2 DEF Written

LEMMA MessageTypes ==
    \A i \in Ids : Registers(i) \in Messages /\ Unregisters(i) \in Messages
  BY DEF Messages, Registers, Unregisters

\* A process that is gone.
LEMMA PlacedGone ==
    ASSUME PlacedInv, NEW how \in {"exited", "panicked", "killed"}, ProcessGone(how)
    PROVE  DaemonTypes' /\ Placed'
<1>1. DaemonTypes /\ Breaks /\ daemon' = how /\ cmu' = Free
  BY PlacedParts DEF ProcessGone
<1>2. /\ link' \in {"none", "broken", "closed"}
      /\ wire' \in Seq(Messages) /\ Len(wire') <= Cap /\ gwRoutes' \subseteq Ids
  BY <1>1, BreaksTypes
<1>3. DaemonTypes'
  <2>1. asked' \in [Handlers -> 0..MaxDeploys]
    BY Names DEF ProcessGone
  <2>2. connected' \in BOOLEAN
    BY DEF ProcessGone
  <2>3. starts' \in 1..MaxStarts /\ snapshot' \subseteq Ids /\ settled' \subseteq Ids
    BY <1>1 DEF ProcessGone, DaemonTypes
  <2> QED BY <1>1, <1>2, <2>1, <2>2, <2>3 DEF DaemonTypes
<1>4. Placed'
  <2>1. /\ \A w \in Workers : pc'[w] = "idle"
        /\ \A s \in Stoppers : spc'[s] = "idle"
        /\ \A s \in Handlers : asked'[s] = Nil
    BY DEF ProcessGone
  <2> QED BY <1>1, <1>2, <2>1, Names DEF Placed
<1> QED BY <1>3, <1>4

\* A step that leaves the handlers and the scheduler's callers where they are.
LEMMA PlacedFrame ==
    ASSUME PlacedInv, UNCHANGED <<daemon, pc, spc, target, asked>>, DaemonTypes',
           cmu' \in {cmu, Free, Visitor}, link' = "open" => link = "open" /\ connected'
    PROVE  Placed'
<1>1. Placed
  BY PlacedParts
<1>2. \A w \in Workers : cmu' = w => pc'[w] = "done"
  BY <1>1, Names DEF Placed
<1>3. \A s \in Handlers :
        /\ cmu' = s => asked'[s] # Nil /\ spc'[s] = "idle"
        /\ spc'[s] # "idle" => asked'[s] # Nil /\ target'[s] = asked'[s]
  BY <1>1, Names DEF Placed
<1> QED BY <1>1, <1>2, <1>3 DEF Placed, Running

LEMMA PlacedDeploy ==
    ASSUME PlacedInv, NEW w \in Workers, handleDeploy(w)
    PROVE  DaemonTypes' /\ Placed'
<1> USE DEF schedulerVars, procVars, tunnelVars, gatewayVars
<1>0. TypeInv /\ DaemonTypes /\ Placed
  BY PlacedParts
<1>1. CASE DeployPanics(w)
  BY <1>1, PlacedGone DEF DeployPanics
<1>2. CASE Expose(w)
  <2>1. /\ UNCHANGED <<vars, procVars, asked, connected, gatewayVars>>
        /\ pc[w] = "done" /\ cmu' = w
    BY <1>2 DEF Expose
  <2>2. DaemonTypes'
    BY <1>0, <2>1 DEF DaemonTypes
  <2>3. UNCHANGED <<pc, spc, target>>
    BY <2>1 DEF vars, workerVars, stopVars
  <2>4. /\ \A v \in Workers : cmu' = v => pc'[v] = "done"
        /\ \A s \in Handlers : cmu' # s
    BY <2>1, <2>3, Names
  <2> QED BY <1>0, <2>1, <2>2, <2>3, <2>4 DEF Placed, Running
<1>3. CASE CallSchedule(w) \/ DeployReplies(w) \/ RegisterWrites(w)
  <2>1. Schedule(w) /\ Running /\ UNCHANGED <<procVars, asked>> /\ cmu' # w
    BY <1>0, <1>3, Names
    DEF CallSchedule, DeployReplies, RegisterWrites, Schedule, Written, Placed
  <2>2. UNCHANGED stopVars /\ \A v \in Workers \ {w} : pc'[v] = pc[v]
    BY <1>0, <2>1, ScheduleFrame
  <2>3. DaemonTypes' /\ UNCHANGED <<connected, link>> /\ cmu' \in {cmu, Free}
    <3>1. CASE RegisterWrites(w)
      <4>1. heap[dep[w]].id \in Ids
        BY <1>0, <3>1, InCall DEF RegisterWrites, Placed
      <4>2. Registers(heap[dep[w]].id) \in Messages /\ Written(Registers(heap[dep[w]].id))
        BY <3>1, <4>1, MessageTypes DEF RegisterWrites
      <4>3. /\ wire' \in Seq(Messages) /\ Len(wire') <= Cap
            /\ cmu' = Free /\ UNCHANGED <<connected, link, gwRoutes>>
        BY <1>0, <4>2, WrittenTypes
      <4> QED BY <1>0, <2>1, <4>3 DEF DaemonTypes
    <3>2. CASE UNCHANGED tunnelVars
      BY <1>0, <2>1, <3>2 DEF DaemonTypes
    <3> QED BY <1>3, <3>1, <3>2 DEF CallSchedule, DeployReplies
  <2>4. \A v \in Workers : cmu' = v => pc'[v] = "done"
    BY <1>0, <2>1, <2>2, <2>3, Names DEF Placed
  <2>5. \A s \in Handlers :
          /\ cmu' = s => asked'[s] # Nil /\ spc'[s] = "idle"
          /\ spc'[s] # "idle" => asked'[s] # Nil /\ target'[s] = asked'[s]
    BY <1>0, <2>1, <2>2, <2>3, Names DEF Placed, stopVars
  <2>6. Placed'
    BY <1>0, <2>1, <2>2, <2>3, <2>4, <2>5 DEF Placed, Running, stopVars
  <2> QED BY <2>3, <2>6
<1> QED BY <1>1, <1>2, <1>3 DEF handleDeploy

LEMMA PlacedStop ==
    ASSUME PlacedInv, NEW s \in Handlers, handleStop(s)
    PROVE  DaemonTypes' /\ Placed'
<1> USE DEF schedulerVars, procVars, tunnelVars, gatewayVars
<1>0. TypeInv /\ DaemonTypes /\ Placed /\ s \in Stoppers /\ s # Closer
  BY PlacedParts, Names
<1>1. ASSUME NEW id \in Ids, StopArrives(s, id) PROVE DaemonTypes' /\ Placed'
  <2>1. /\ UNCHANGED <<vars, procVars, connected, gatewayVars>>
        /\ Running /\ asked[s] = Nil /\ cmu' \in {s, Free}
        /\ asked' = [asked EXCEPT ![s] = id]
    BY <1>1 DEF StopArrives
  <2>2. DaemonTypes'
    BY <1>0, <2>1 DEF DaemonTypes
  <2>3. UNCHANGED <<pc, spc, target>>
    BY <2>1 DEF vars, workerVars, stopVars
  <2>4. /\ \A v \in Workers : cmu' # v
        /\ \A u \in Handlers :
             /\ cmu' = u => asked'[u] # Nil /\ spc'[u] = "idle"
             /\ spc'[u] # "idle" => asked'[u] # Nil /\ target'[u] = asked'[u]
    <3>1. /\ asked'[s] = id /\ id # Nil /\ spc[s] = "idle"
          /\ \A u \in Handlers : u # s => asked'[u] = asked[u]
      BY <1>0, <2>1, Names DEF DaemonTypes, Placed
    <3> QED BY <1>0, <2>1, <2>3, <3>1, Names DEF Placed
  <2>5. Placed'
    BY <1>0, <2>1, <2>3, <2>4 DEF Placed, Running
  <2> QED BY <2>2, <2>5
<1>2. CASE UnregisterWrites(s)
  <2>1. asked[s] \in Ids
    BY <1>0, <1>2, Names DEF UnregisterWrites, Placed, DaemonTypes
  <2>2. Unregisters(asked[s]) \in Messages /\ Written(Unregisters(asked[s]))
    BY <1>2, <2>1, MessageTypes DEF UnregisterWrites
  <2>3. /\ wire' \in Seq(Messages) /\ Len(wire') <= Cap
        /\ cmu' = Free /\ UNCHANGED <<connected, link, gwRoutes>>
    BY <1>0, <2>2, WrittenTypes
  <2>4. UNCHANGED <<vars, procVars, asked>>
    BY <1>2 DEF UnregisterWrites
  <2>5. DaemonTypes'
    BY <1>0, <2>3, <2>4 DEF DaemonTypes
  <2>6. UNCHANGED <<daemon, pc, spc, target, asked>>
    BY <2>4 DEF vars, workerVars, stopVars
  <2>7. link' = "open" => link = "open" /\ connected'
    BY <1>0, <2>3 DEF Placed
  <2> QED BY <2>3, <2>5, <2>6, <2>7, PlacedFrame
<1>3. CASE CallStop(s) \/ StopReplies(s)
  <2>1. /\ AnyStop(s) /\ Running /\ cmu # s
        /\ UNCHANGED <<procVars, tunnelVars>>
        /\ \/ UNCHANGED asked /\ asked[s] # Nil /\ target'[s] = asked[s]
           \/ spc'[s] = "idle" /\ asked' = [asked EXCEPT ![s] = Nil]
    <3>1. DOMAIN target = Stoppers /\ DOMAIN spc = Stoppers
      BY <1>0 DEF TypeInv, TypeOK
    <3>2. spc[s] # "idle" => target[s] = asked[s] /\ cmu # s
      BY <1>0 DEF Placed
    <3>3. AnyStop(s)
      BY <1>3, StopsAreStops
    <3>4. CASE CallStop(s)
      BY <1>0, <3>1, <3>2, <3>3, <3>4
      DEF CallStop, StopLookup, StopContainer, StopRelease
    <3>5. CASE StopReplies(s)
      BY <1>0, <3>1, <3>2, <3>3, <3>5 DEF StopReplies, StopReturns
    <3> QED BY <1>3, <3>4, <3>5
  <2>2. /\ UNCHANGED workerVars
        /\ \A u \in Stoppers \ {s} : spc'[u] = spc[u] /\ target'[u] = target[u]
    BY <1>0, <2>1, StopFrame
  <2>3. DaemonTypes'
    <3>1. asked' \in [Handlers -> 0..MaxDeploys]
      BY <1>0, <2>1, Names DEF DaemonTypes
    <3> QED BY <1>0, <2>1, <3>1 DEF DaemonTypes
  <2>4. \A u \in Handlers :
          /\ cmu' = u => asked'[u] # Nil /\ spc'[u] = "idle"
          /\ spc'[u] # "idle" => asked'[u] # Nil /\ target'[u] = asked'[u]
    <3>1. \A u \in Handlers : u # s =>
            asked'[u] = asked[u] /\ spc'[u] = spc[u] /\ target'[u] = target[u]
      BY <1>0, <2>1, <2>2, Names DEF DaemonTypes
    <3> QED BY <1>0, <2>1, <3>1 DEF Placed
  <2>5. Placed'
    BY <1>0, <2>1, <2>2, <2>4, Names DEF Placed, Running, workerVars
  <2> QED BY <2>3, <2>5
<1> QED BY <1>1, <1>2, <1>3 DEF handleStop

\* The connection and the gateway's end of it.
LEMMA PlacedConnection ==
    ASSUME PlacedInv, Connection
    PROVE  DaemonTypes' /\ Placed'
<1> USE DEF schedulerVars, procVars, tunnelVars, gatewayVars
<1>0. DaemonTypes /\ Placed
  BY PlacedParts
<1>1. UNCHANGED <<vars, procVars, asked>>
  BY DEF Connection, Respond, TunnelBreaks, ReaderEnds, GatewayReads, GatewayCleanup
<1>2. UNCHANGED <<daemon, pc, spc, target, asked>>
  BY <1>1 DEF vars, workerVars, stopVars
<1>3. ASSUME /\ connected' \in BOOLEAN /\ cmu' \in {cmu, Free, Visitor}
             /\ link' \in {"none", "open", "broken", "closed"}
             /\ wire' \in Seq(Messages) /\ Len(wire') <= Cap /\ gwRoutes' \subseteq Ids
             /\ link' = "open" => link = "open" /\ connected'
      PROVE  DaemonTypes' /\ Placed'
  <2>1. DaemonTypes'
    BY <1>0, <1>1, <1>3 DEF DaemonTypes
  <2> QED BY <1>2, <1>3, <2>1, PlacedFrame
<1>4. CASE Respond
  <2>1. cmu' \in {Free, Visitor} /\ UNCHANGED <<connected, link, wire, gwRoutes>>
    BY <1>4 DEF Respond
  <2> QED BY <1>0, <1>3, <2>1 DEF DaemonTypes, Placed
<1>5. CASE TunnelBreaks
  <2>1. Breaks /\ UNCHANGED <<connected, cmu>>
    BY <1>5 DEF TunnelBreaks
  <2>2. /\ link' \in {"none", "broken", "closed"}
        /\ wire' \in Seq(Messages) /\ Len(wire') <= Cap /\ gwRoutes' \subseteq Ids
    BY <1>0, <2>1, BreaksTypes
  <2>3. connected' \in BOOLEAN
    BY <1>0, <2>1 DEF DaemonTypes
  <2> QED BY <1>3, <2>1, <2>2, <2>3
<1>6. CASE ReaderEnds
  <2>1. connected' \in BOOLEAN /\ link # "open" /\ UNCHANGED <<cmu, link, wire, gwRoutes>>
    BY <1>6 DEF ReaderEnds
  <2> QED BY <1>0, <1>3, <2>1 DEF DaemonTypes
<1>7. CASE GatewayReads
  <2>1. /\ UNCHANGED <<connected, cmu, link>> /\ wire # <<>> /\ wire' = Tail(wire)
        /\ gwRoutes' \in {gwRoutes \cup {Head(wire).id}, gwRoutes \ {Head(wire).id}}
    BY <1>7 DEF GatewayReads
  <2>2. wire \in Seq(Messages) /\ Len(wire) <= Cap /\ Cap \in Nat
    BY <1>0, Names DEF DaemonTypes
  <2>3. wire' \in Seq(Messages) /\ Len(wire') <= Cap /\ Head(wire) \in Messages
    BY <2>1, <2>2
  <2>4. gwRoutes' \subseteq Ids
    BY <1>0, <2>1, <2>3 DEF DaemonTypes, Messages
  <2> QED BY <1>0, <1>3, <2>1, <2>3, <2>4 DEF DaemonTypes, Placed
<1>8. CASE GatewayCleanup
  <2>1. link' = "closed" /\ gwRoutes' = {} /\ UNCHANGED <<connected, cmu, wire>>
    BY <1>8 DEF GatewayCleanup
  <2> QED BY <1>0, <1>3, <2>1 DEF DaemonTypes
<1> QED BY <1>4, <1>5, <1>6, <1>7, <1>8 DEF Connection

LEMMA PlacedStep == PlacedInv /\ [ProviderNext]_providerVars => PlacedInv'
<1> SUFFICES ASSUME PlacedInv, [ProviderNext]_providerVars
             PROVE  DaemonTypes' /\ Placed'
  BY TypeKept DEF PlacedInv, ProviderTypeOK, DaemonTypes, TypeInv
<1> USE DEF schedulerVars, procVars, tunnelVars, gatewayVars
<1>0. TypeInv /\ DaemonTypes /\ Placed
  BY PlacedParts
<1>1. ASSUME NEW s \in Stoppers, TornRead(s) PROVE DaemonTypes' /\ Placed'
  BY <1>1, PlacedGone DEF TornRead
<1>2. CASE Exit \/ Kill
  BY <1>2, PlacedGone DEF Exit, Kill
<1>3. CASE Signal
  <2>1. /\ UNCHANGED <<vars, starts, asked, tunnelVars>> /\ daemon' = "draining"
        /\ daemon = "up" /\ snapshot' \subseteq Ids /\ settled' \subseteq Ids
    BY <1>3 DEF Signal, Live
  <2>2. DaemonTypes'
    BY <1>0, <2>1 DEF DaemonTypes
  <2>3. Placed'
    BY <1>0, <2>1 DEF Placed, Running, vars, workerVars, stopVars
  <2> QED BY <2>2, <2>3
<1>4. CASE StopAll
  <2>1. /\ AnyStop(Closer) /\ daemon = "draining" /\ snapshot' \subseteq snapshot
        /\ UNCHANGED <<daemon, starts, settled, asked, tunnelVars>>
    BY <1>4, StopsAreStops DEF StopAll, StopAllNext, StopAllStops
  <2>2. /\ UNCHANGED workerVars
        /\ \A t \in Handlers : spc'[t] = spc[t] /\ target'[t] = target[t]
    BY <1>0, <2>1, StopFrame, Names
  <2>3. DaemonTypes'
    BY <1>0, <2>1 DEF DaemonTypes
  <2>4. Placed'
    BY <1>0, <2>1, <2>2 DEF Placed, Running, workerVars
  <2> QED BY <2>3, <2>4
<1>5. CASE Start
  <2>1. /\ UNCHANGED <<vars, snapshot, asked, cmu>> /\ daemon' = "up" /\ ~Running
        /\ starts' = starts + 1 /\ starts < MaxStarts /\ connected' \in BOOLEAN
        /\ link' = (IF connected' THEN "open" ELSE "none")
        /\ wire' = <<>> /\ gwRoutes' = {} /\ settled' = {}
    BY <1>5 DEF Start
  <2>2. starts' \in 1..MaxStarts
    BY <1>0, <2>1, Names DEF DaemonTypes
  <2>3. wire' \in Seq(Messages) /\ Len(wire') <= Cap
    BY <2>1, Names
  <2>4. link' \in {"none", "open"} /\ (link' = "open" => connected')
    BY <2>1
  <2>5. DaemonTypes'
    BY <1>0, <2>1, <2>2, <2>3, <2>4 DEF DaemonTypes
  <2>6. Placed'
    BY <1>0, <2>1, <2>4, Names DEF Placed, Running, vars, workerVars, stopVars
  <2> QED BY <2>5, <2>6
<1>6. ASSUME UNCHANGED <<workerVars, stopVars, procVars, asked, tunnelVars>>
      PROVE  DaemonTypes' /\ Placed'
  BY <1>0, <1>6 DEF DaemonTypes, Placed, Running, workerVars, stopVars
<1>7. CASE ContainerEnds \/ UNCHANGED providerVars
  BY <1>6, <1>7 DEF ContainerEnds, ContainerExits, providerVars, vars
<1> QED
  BY <1>1, <1>2, <1>3, <1>4, <1>5, <1>7, PlacedDeploy, PlacedStop, PlacedConnection
  DEF ProviderNext

-----------------------------------------------------------------------------
(* The accounts, in every incarnation of the process *)

AccountsInv == DistinctIds => OwnRecord /\ Balanced

LEMMA AccountsInit == ProviderInit => AccountsInv
  BY OwnRecordInit, AccountingInit DEF ProviderInit, AccountsInv

LEMMA AccountsStep ==
    PlacedInv /\ AccountsInv /\ [ProviderNext]_providerVars => AccountsInv'
<1> SUFFICES ASSUME PlacedInv, AccountsInv, [ProviderNext]_providerVars
             PROVE  AccountsInv'
  OBVIOUS
<1>0. TypeInv
  BY PlacedParts
<1>1. CASE [AnyNext]_vars
  BY <1>0, <1>1, AccountingStep, DistinctBefore DEF AccountsInv
<1>2. ASSUME NEW how, ProcessGone(how) PROVE AccountsInv'
  <2>1. DistinctIds' <=> DistinctIds
    BY <1>2 DEF ProcessGone, DistinctIds
  <2> QED BY <1>0, <1>2, <2>1, GoneKeeps DEF AccountsInv
<1> QED BY <1>1, <1>2, StepKinds

\* Unless the clock repeats, IDs stay distinct across restarts.
LEMMA OwnRecordStep ==
    ASSUME ~ClockRepeats
    PROVE  PlacedInv /\ AccountsInv /\ OwnRecord /\ [ProviderNext]_providerVars
             => OwnRecord'
<1> SUFFICES ASSUME PlacedInv, AccountsInv, OwnRecord, [ProviderNext]_providerVars
             PROVE  OwnRecord'
  OBVIOUS
<1>0. TypeInv /\ DistinctIds
  BY PlacedParts DEF OwnRecord, DistinctIds
<1>1. CASE [AnyNext]_vars
  BY <1>0, <1>1, AccountingStep, DistinctStays DEF AccountsInv
<1>2. ASSUME NEW how, ProcessGone(how) PROVE OwnRecord'
  BY <1>0, <1>2, GoneKeeps
<1> QED BY <1>1, <1>2, StepKinds

-----------------------------------------------------------------------------
(* What the scheduler's steps do to records, entries and containers *)

\* A step of worker w touches no other worker's record.
OthersKept(w) ==
    /\ UNCHANGED <<spc, target, sdep>>
    /\ \A v \in Workers \ {w} : pc'[v] = pc[v] /\ dep'[v] = dep[v]
    /\ \A i \in Ids \ {dep[w]} : deployments'[i] = deployments[i]
    /\ \A i \in 1..calls : i # dep[w] => heap'[i].container = heap[i].container
    /\ containers' # containers => pc[w] = "starting" /\ containers' = containers \cup {dep[w]}

\* What it does to its own: a new record, or a move of its call.
Begins(w) ==
    /\ pc[w] = "idle" /\ UNCHANGED <<deployments, containers>>
    /\ \A i \in 1..calls : heap'[i].container = heap[i].container
    /\ \/ pc'[w] = "admitted" /\ dep'[w] = calls + 1 /\ calls' = calls + 1
       \/ pc'[w] = "error" /\ dep'[w] = Nil /\ calls' = calls

Proceeds(w) ==
    /\ dep'[w] = dep[w] /\ calls' = calls /\ dep[w] \in 1..calls
    /\ \/ /\ pc[w] = "admitted" /\ pc'[w] = "registered"
          /\ deployments'[dep[w]] = dep[w]
          /\ heap'[dep[w]].container = heap[dep[w]].container
       \/ /\ pc[w] \in {"registered", "pulling"} /\ pc'[w] \in {"pulling", "starting"}
          /\ deployments'[dep[w]] = deployments[dep[w]]
          /\ heap'[dep[w]].container = heap[dep[w]].container
       \/ /\ pc[w] \in {"pulling", "starting"} /\ pc'[w] = "error"
          /\ deployments'[dep[w]] = Nil
       \/ /\ pc[w] = "starting" /\ pc'[w] = "started"
          /\ deployments'[dep[w]] = deployments[dep[w]]
       \/ /\ pc[w] = "started" /\ pc'[w] = "done"
          /\ deployments'[dep[w]] = deployments[dep[w]]
          /\ deployments[dep[w]] = dep[w] => heap'[dep[w]].container = dep[w]

Returns(w) ==
    /\ pc[w] \in {"done", "error"} /\ pc'[w] = "idle" /\ dep'[w] = Nil
    /\ UNCHANGED <<deployments, containers, heap, calls>>

LEMMA ScheduleEffect ==
    ASSUME TypeInv, OwnRecord, NEW w \in Workers, Schedule(w)
    PROVE  OthersKept(w) /\ (Begins(w) \/ Proceeds(w) \/ Returns(w))
<1> USE DEF tableVars, stopVars
<1>0. /\ MaxDeploys \in Nat /\ calls \in Nat /\ calls <= MaxDeploys
      /\ DOMAIN pc = Workers /\ DOMAIN dep = Workers
      /\ heap \in [Ids -> Deployment] /\ deployments \in [Ids -> 0..MaxDeploys]
  BY SchedulerAssumption DEF SchedulerAssumption, TypeInv, TypeOK
<1>1. CASE Admit(w)
  <2>1. PICK d : heap' = [heap EXCEPT ![calls + 1] = d]
    BY <1>1 DEF Admit
  <2>2. \A i \in 1..calls : heap'[i] = heap[i]
    BY <1>0, <2>1
  <2> QED BY <1>0, <1>1, <2>2 DEF Admit, OthersKept, Begins
<1>2. CASE Reject(w)
  BY <1>0, <1>2 DEF Reject, OthersKept, Begins
<1>3. CASE ScheduleReturns(w)
  BY <1>0, <1>3 DEF ScheduleReturns, OthersKept, Returns
<1>4. ASSUME pc[w] \notin {"idle", "error"}
      PROVE  dep[w] \in 1..calls /\ dep[w] \in Ids /\ heap[dep[w]].id = dep[w]
  BY <1>4, InCall DEF OwnRecord
<1>5. CASE Register(w)
  BY <1>0, <1>4, <1>5 DEF Register, OthersKept, Proceeds
<1>6. CASE SetPulling(w) \/ PullSucceeds(w)
  <2>1. /\ pc[w] \in {"registered", "pulling"}
        /\ \E st \in {"pulling", "starting"} :
             updateStatus(heap[dep[w]].id, st) /\ pc' = [pc EXCEPT ![w] = st]
        /\ UNCHANGED <<deployments, containers, dep, calls, spc, target, sdep>>
    BY <1>6 DEF SetPulling, PullSucceeds
  <2>2. SameRecords(heap, heap')
    BY <1>4, <2>1, UpdateStatusType DEF Status
  <2>3. \A i \in Ids : heap'[i].container = heap[i].container
    BY <2>2 DEF SameRecords
  <2>4. pc'[w] \in {"pulling", "starting"} /\ \A v \in Workers \ {w} : pc'[v] = pc[v]
    BY <1>0, <2>1
  <2> QED BY <1>0, <1>4, <2>1, <2>3, <2>4 DEF OthersKept, Proceeds
<1>7. CASE PullFails(w) \/ RunFails(w)
  <2>1. /\ pc[w] \in {"pulling", "starting"} /\ pc' = [pc EXCEPT ![w] = "error"]
        /\ Release(heap[dep[w]].id, "failed")
        /\ UNCHANGED <<containers, dep, calls, spc, target, sdep>>
    BY <1>7 DEF PullFails, RunFails, failDeployment
  <2>2. SameRecords(heap, heap') /\ deployments' = [deployments EXCEPT ![dep[w]] = Nil]
    BY <1>4, <2>1, ReleaseType DEF Status
  <2>3. \A i \in Ids : heap'[i].container = heap[i].container
    BY <2>2 DEF SameRecords
  <2> QED BY <1>0, <1>4, <2>1, <2>2, <2>3 DEF OthersKept, Proceeds
<1>8. CASE RunSucceeds(w)
  BY <1>0, <1>4, <1>8 DEF RunSucceeds, OthersKept, Proceeds
<1>9. CASE Publish(w)
  <2>1. /\ pc[w] = "started" /\ pc' = [pc EXCEPT ![w] = "done"]
        /\ UNCHANGED <<deployments, containers, dep, calls, spc, target, sdep>>
    BY <1>9 DEF Publish
  <2>2. /\ \A x \in Ids : x # deployments[dep[w]] => heap'[x] = heap[x]
        /\ deployments[dep[w]] # Nil => heap'[deployments[dep[w]]].container = dep[w]
    BY <1>4, <1>9, <2>1, PublishType
  <2>3. deployments[dep[w]] \in {Nil, dep[w]}
    BY <1>4, <2>1 DEF OwnRecord
  <2> QED BY <1>0, <1>4, <2>1, <2>2, <2>3 DEF OthersKept, Proceeds
<1> QED BY <1>1, <1>2, <1>3, <1>5, <1>6, <1>7, <1>8, <1>9 DEF Schedule

\* A step of a Stop call: the lookup, docker's stop, the release, the return.
StopsKept(s) ==
    /\ UNCHANGED <<pc, dep, calls>>
    /\ \A t \in Stoppers \ {s} : /\ spc'[t] = spc[t] /\ target'[t] = target[t]
                                 /\ sdep'[t] = sdep[t]
    /\ \A i \in Ids : heap'[i].container = heap[i].container
    /\ containers' \subseteq containers

LooksUp(s, id) ==
    /\ spc[s] = "idle" /\ target'[s] = id
    /\ UNCHANGED <<deployments, containers>>
    /\ IF deployments[id] = Nil THEN spc'[s] = "error"
       ELSE spc'[s] = "marked" /\ sdep'[s] = id

Halts(s) ==
    /\ spc[s] = "marked" /\ spc'[s] = "stopped" /\ target'[s] = target[s]
    /\ ~DockerFails => containers' = containers \ {heap[sdep[s]].container}
    /\ UNCHANGED deployments

Releases(s) ==
    /\ spc[s] = "stopped" /\ spc'[s] = "done" /\ target'[s] = target[s]
    /\ target[s] \in Ids
    /\ deployments' = [deployments EXCEPT ![target[s]] = Nil]
    /\ UNCHANGED containers

StopEnds(s) ==
    /\ spc[s] \in {"done", "error"} /\ spc'[s] = "idle"
    /\ UNCHANGED <<deployments, containers>>

LEMMA StopEffect ==
    ASSUME TypeInv, OwnRecord, NEW s \in Stoppers
    PROVE  /\ \A id \in Ids : StopLookup(s, id) => StopsKept(s) /\ LooksUp(s, id)
           /\ StopContainer(s) => StopsKept(s) /\ Halts(s)
           /\ StopRelease(s) => StopsKept(s) /\ Releases(s)
           /\ StopReturns(s) => StopsKept(s) /\ StopEnds(s)
<1> USE DEF tableVars, workerVars
<1>0. /\ DOMAIN spc = Stoppers /\ DOMAIN target = Stoppers /\ DOMAIN sdep = Stoppers
      /\ deployments \in [Ids -> 0..MaxDeploys] /\ MaxDeploys \in Nat
      /\ target \in [Stoppers -> 0..MaxDeploys]
  BY SchedulerAssumption DEF SchedulerAssumption, TypeInv, TypeOK
<1>1. ASSUME NEW id \in Ids, StopLookup(s, id) PROVE StopsKept(s) /\ LooksUp(s, id)
  <2>1. \A i \in Ids : heap'[i].container = heap[i].container
    <3>1. SameRecords(heap, heap')
      BY <1>1, UpdateStatusType DEF StopLookup, Status
    <3> QED BY <3>1 DEF SameRecords
  <2>2. deployments[id] \in {Nil, id}
    BY DEF OwnRecord
  <2> QED BY <1>0, <1>1, <2>1, <2>2 DEF StopLookup, StopsKept, LooksUp
<1>2. ASSUME StopContainer(s) PROVE StopsKept(s) /\ Halts(s)
  BY <1>0, <1>2 DEF StopContainer, StopsKept, Halts
<1>3. ASSUME StopRelease(s) PROVE StopsKept(s) /\ Releases(s)
  <2>1. target[s] \in Ids
    BY <1>0, <1>3 DEF StopRelease, TypeInv, WellFormed
  <2>2. SameRecords(heap, heap') /\ deployments' = [deployments EXCEPT ![target[s]] = Nil]
    BY <1>3, <2>1, ReleaseType DEF StopRelease, Status
  <2>3. \A i \in Ids : heap'[i].container = heap[i].container
    BY <2>2 DEF SameRecords
  <2> QED BY <1>0, <1>3, <2>1, <2>2, <2>3 DEF StopRelease, StopsKept, Releases
<1>4. ASSUME StopReturns(s) PROVE StopsKept(s) /\ StopEnds(s)
  BY <1>0, <1>4 DEF StopReturns, StopsKept, StopEnds
<1> QED BY <1>1, <1>2, <1>3, <1>4

-----------------------------------------------------------------------------
(* Routes, and the records of calls, when clients stop only what they were     *)
(* answered for                                                                *)

Answering == ~ClockRepeats /\ ~EarlyStops

HandlerInv == PlacedInv /\ OwnRecord /\ CallsInv

\* What the proofs below need of the types.
LEMMA HandlerTypes ==
    ASSUME HandlerInv
    PROVE  /\ TypeInv /\ DaemonTypes /\ Placed /\ OwnRecord
           /\ MaxDeploys \in Nat /\ calls \in Nat /\ calls <= MaxDeploys
           /\ deployments \in [Ids -> 0..MaxDeploys]
           /\ \A i \in Ids : deployments[i] \in {Nil, i}
           /\ dep \in [Workers -> 0..calls]
           /\ \A w \in Workers : pc[w] \notin {"idle", "error"} =>
                dep[w] \in 1..calls /\ dep[w] \in Ids /\ heap[dep[w]].id = dep[w]
           /\ \A v, w \in Workers : v # w /\ dep[v] # Nil => dep[v] # dep[w]
           /\ \A s \in Handlers : s \in Stoppers /\ s # Closer
           /\ Closer \in Stoppers
<1>1. TypeInv /\ DaemonTypes /\ Placed /\ OwnRecord
  BY PlacedParts DEF HandlerInv
<1>2. /\ MaxDeploys \in Nat /\ calls \in Nat /\ calls <= MaxDeploys
      /\ deployments \in [Ids -> 0..MaxDeploys] /\ dep \in [Workers -> 0..calls]
  BY <1>1, SchedulerAssumption DEF SchedulerAssumption, TypeInv, TypeOK
<1>3. ASSUME NEW w \in Workers, pc[w] \notin {"idle", "error"}
      PROVE  dep[w] \in 1..calls /\ dep[w] \in Ids /\ heap[dep[w]].id = dep[w]
  BY <1>1, <1>3, InCall DEF OwnRecord
<1>4. /\ \A i \in Ids : deployments[i] \in {Nil, i}
      /\ \A v, w \in Workers : v # w /\ dep[v] # Nil => dep[v] # dep[w]
  BY <1>1 DEF OwnRecord
<1> QED
  BY <1>1, <1>2, <1>3, <1>4, ProviderAssumption DEF ProviderAssumption, Handlers

\* Until a shutdown, a Stop call is about what it was asked for.
LEMMA StopsQuiet ==
    ASSUME HandlerInv, NEW s \in Stoppers, daemon = "up", spc[s] # "idle"
    PROVE  Quiet(target[s]) /\ s \in Handlers
<1>1. s \in Handlers
  BY HandlerTypes DEF Placed, Handlers
<1>2. asked[s] # Nil /\ target[s] = asked[s]
  BY <1>1, HandlerTypes DEF Placed
<1>3. asked[s] \in Ids
  BY <1>1, <1>2, HandlerTypes DEF DaemonTypes
<1> QED BY <1>1, <1>2, <1>3 DEF HandlerInv, CallsInv, Requested

\* Nothing is routed over a connection that has carried nothing.
LEMMA NothingRouted ==
    /\ wire = <<>> /\ gwRoutes = {} => \A i \in Ids : ~FinallyRouted(i)
    /\ wire' = <<>> /\ gwRoutes' = {} => \A i \in Ids : ~FinallyRouted(i)'
<1>1. 1..Len(<<>>) = {}
  OBVIOUS
<1> QED BY <1>1 DEF FinallyRouted

LEMMA CallsInit == ProviderInit => CallsInv
<1> SUFFICES ASSUME ProviderInit PROVE CallsInv
  OBVIOUS
<1>1. /\ \A w \in Workers : pc[w] = "idle" /\ dep[w] = Nil
      /\ \A s \in Stoppers : spc[s] = "idle"
      /\ \A s \in Handlers : asked[s] = Nil
  BY DEF ProviderInit, Init
<1>2. \A i \in Ids : i # Nil /\ ~FinallyRouted(i)
  BY NothingRouted, Names DEF ProviderInit
<1> QED
  BY <1>1, <1>2 DEF CallsInv, Requested, Routed, Entered, Named, LookedUp

-----------------------------------------------------------------------------
(* What the gateway will route to, over a queue q of messages and a table *)

Finally(q, table, i) ==
    \/ \E k \in 1..Len(q) :
          /\ q[k] = Registers(i)
          /\ \A j \in 1..Len(q) : q[j] = Unregisters(i) => j < k
    \/ i \in table /\ \A j \in 1..Len(q) : q[j] # Unregisters(i)

LEMMA FinallyForms ==
    /\ \A i \in Ids : FinallyRouted(i) <=> Finally(wire, gwRoutes, i)
    /\ \A i \in Ids : FinallyRouted(i)' <=> Finally(wire', gwRoutes', i)
  BY DEF FinallyRouted, Finally, Registers, Unregisters

LEMMA RouteMessages ==
    ASSUME NEW m \in Messages, NEW i \in Ids
    PROVE  /\ m = Registers(i) <=> m.type = "register" /\ m.id = i
           /\ m = Unregisters(i) <=> m.type # "register" /\ m.id = i
  BY DEF Messages, Registers, Unregisters

LEMMA TakeFacts ==
    ASSUME NEW q \in Seq(Messages), q # <<>>
    PROVE  /\ Len(q) \in Nat /\ 1 \in 1..Len(q)
           /\ Head(q) = q[1] /\ Head(q) \in Messages
           /\ Len(Tail(q)) \in Nat
           /\ \A k \in 1..Len(Tail(q)) : k + 1 \in 1..Len(q) /\ Tail(q)[k] = q[k + 1]
           /\ \A j \in 1..Len(q) : j # 1 =>
                j - 1 \in 1..Len(Tail(q)) /\ Tail(q)[j - 1] = q[j]
<1>1. Len(q) \in Nat /\ Len(q) > 0 /\ Head(q) = q[1] /\ Head(q) \in Messages
  OBVIOUS
<1>2. /\ Len(Tail(q)) = Len(q) - 1
      /\ \A k \in 1..(Len(q) - 1) : Tail(q)[k] = q[k + 1]
  BY <1>1
<1> QED BY <1>1, <1>2

\* A message that is read changes the table by what it said on its way.
LEMMA ReadKeepsOutcome ==
    ASSUME NEW q \in Seq(Messages), q # <<>>, NEW table, NEW next, NEW i \in Ids,
           i \in next =>
               q[1] = Registers(i) \/ (q[1] # Unregisters(i) /\ i \in table),
           Finally(Tail(q), next, i)
    PROVE  Finally(q, table, i)
<1> DEFINE t == Tail(q)
<1>1. /\ Len(q) \in Nat /\ 1 \in 1..Len(q) /\ q[1] \in Messages
      /\ \A k \in 1..Len(t) : k + 1 \in 1..Len(q) /\ t[k] = q[k + 1]
      /\ \A j \in 1..Len(q) : j # 1 => j - 1 \in 1..Len(t) /\ t[j - 1] = q[j]
      /\ Len(t) \in Nat
  BY TakeFacts
<1>2. ~(q[1] = Registers(i) /\ q[1] = Unregisters(i))
  BY <1>1, RouteMessages
<1>3. CASE \E k \in 1..Len(t) : /\ t[k] = Registers(i)
                                /\ \A j \in 1..Len(t) : t[j] = Unregisters(i) => j < k
  <2>1. PICK k \in 1..Len(t) : /\ t[k] = Registers(i)
                               /\ \A j \in 1..Len(t) : t[j] = Unregisters(i) => j < k
    BY <1>3
  <2>2. k \in Nat /\ k >= 1 /\ k + 1 \in 1..Len(q) /\ q[k + 1] = Registers(i)
    BY <1>1, <2>1
  <2>3. ASSUME NEW j \in 1..Len(q), q[j] = Unregisters(i) PROVE j < k + 1
    <3>1. CASE j = 1
      BY <2>2, <3>1
    <3>2. CASE j # 1
      <4>1. j - 1 \in 1..Len(t) /\ t[j - 1] = Unregisters(i) /\ j \in Nat
        BY <1>1, <2>3, <3>2
      <4>2. j - 1 < k
        BY <2>1, <4>1
      <4> QED BY <2>2, <4>1, <4>2
    <3> QED BY <3>1, <3>2
  <2> QED BY <2>2, <2>3 DEF Finally
<1>4. CASE i \in next /\ \A j \in 1..Len(t) : t[j] # Unregisters(i)
  <2>1. q[1] # Unregisters(i)
    BY <1>2, <1>4
  <2>2. \A j \in 1..Len(q) : q[j] # Unregisters(i)
    <3> SUFFICES ASSUME NEW j \in 1..Len(q), q[j] = Unregisters(i) PROVE FALSE
      OBVIOUS
    <3>1. j - 1 \in 1..Len(t) /\ t[j - 1] = Unregisters(i)
      BY <1>1, <2>1
    <3> QED BY <1>4, <3>1
  <2> QED BY <1>1, <1>4, <2>2 DEF Finally
<1> QED BY <1>3, <1>4 DEF Finally

\* A withdrawal at the end decides the outcome for its deployment, and a
\* message that is not its registration makes no route for any.
LEMMA WriteDecides ==
    ASSUME NEW q \in Seq(Messages), NEW m \in Messages, NEW table, NEW i \in Ids,
           Finally(Append(q, m), table, i)
    PROVE  m # Unregisters(i) /\ (m # Registers(i) => Finally(q, table, i))
<1> DEFINE t == Append(q, m)
           n == Len(q) + 1
<1>1. /\ Len(q) \in Nat /\ Len(t) = n /\ t[n] = m /\ n \in 1..Len(t)
      /\ \A k \in 1..Len(q) : t[k] = q[k]
  OBVIOUS
<1>2. /\ n \in Nat
      /\ \A k \in 1..Len(q) : k \in 1..Len(t) /\ k < n
      /\ \A k \in 1..Len(t) : k \in Nat /\ (k \in 1..Len(q) \/ k = n)
  BY <1>1
<1>3. ~(m = Registers(i) /\ m = Unregisters(i))
  BY RouteMessages
<1> HIDE DEF t, n
<1>4. ASSUME m = Unregisters(i) PROVE FALSE
  <2>1. PICK k \in 1..Len(t) : t[k] = Registers(i) /\ n < k
    BY <1>1, <1>4 DEF Finally, t
  <2>2. k = n \/ k < n
    BY <1>2
  <2> QED BY <1>2, <2>1, <2>2
<1>5. ASSUME m # Registers(i), m # Unregisters(i) PROVE Finally(q, table, i)
  <2>1. \A k \in 1..Len(t) : t[k] = Registers(i) => k \in 1..Len(q) /\ q[k] = Registers(i)
    BY <1>1, <1>2, <1>5
  <2> QED BY <1>1, <1>2, <2>1 DEF Finally, t
<1> QED BY <1>4, <1>5

\* What a write does to what the gateway will route.
LEMMA WrittenOutcome ==
    ASSUME DaemonTypes, NEW m \in Messages, Written(m), link = "open", NEW i \in Ids,
           FinallyRouted(i)'
    PROVE  m # Unregisters(i) /\ (m # Registers(i) => FinallyRouted(i))
<1>1. wire \in Seq(Messages) /\ wire' = Append(wire, m) /\ gwRoutes' = gwRoutes
  BY DEF DaemonTypes, Written
<1>2. Finally(Append(wire, m), gwRoutes, i)
  BY <1>1, FinallyForms
<1>3. m # Unregisters(i) /\ (m # Registers(i) => Finally(wire, gwRoutes, i))
  BY <1>1, <1>2, WriteDecides
<1> QED BY <1>3, FinallyForms

LEMMA ReadOutcome ==
    ASSUME DaemonTypes, GatewayReads, NEW i \in Ids, FinallyRouted(i)'
    PROVE  FinallyRouted(i)
<1>1. wire \in Seq(Messages) /\ wire # <<>> /\ wire' = Tail(wire)
  BY DEF DaemonTypes, GatewayReads
<1>2. Head(wire) = wire[1] /\ Head(wire) \in Messages
  BY <1>1, TakeFacts
<1>3. i \in gwRoutes' =>
        wire[1] = Registers(i) \/ (wire[1] # Unregisters(i) /\ i \in gwRoutes)
  BY <1>2, RouteMessages DEF GatewayReads
<1>4. Finally(Tail(wire), gwRoutes', i)
  BY <1>1, FinallyForms
<1>5. Finally(wire, gwRoutes, i)
  BY <1>1, <1>3, <1>4, ReadKeepsOutcome
<1> QED BY <1>5, FinallyForms

LEMMA OutcomeKept ==
    ASSUME UNCHANGED <<wire, gwRoutes>>, NEW i \in Ids
    PROVE  FinallyRouted(i)' <=> FinallyRouted(i)
  BY DEF FinallyRouted

-----------------------------------------------------------------------------
(* The steps of the handlers *)

\* A deployment no call works on is worked on by none again.
LEMMA QuietStays ==
    ASSUME HandlerInv, NEW w \in Workers, Schedule(w), NEW i, Quiet(i)
    PROVE  Quiet(i)'
<1>1. OthersKept(w) /\ (Begins(w) \/ Proceeds(w) \/ Returns(w))
  BY HandlerTypes, ScheduleEffect
<1>2. /\ calls' \in Nat /\ calls' >= calls
      /\ dep'[w] \in {Nil, dep[w], calls + 1}
      /\ \A v \in Workers \ {w} : dep'[v] = dep[v]
  BY <1>1, HandlerTypes DEF OthersKept, Begins, Proceeds, Returns
<1>3. i \in 1..calls /\ i # Nil /\ i # calls + 1 /\ i \in 1..calls'
  BY <1>2, HandlerTypes DEF Quiet
<1> QED BY <1>2, <1>3 DEF Quiet

LEMMA CallsSchedule ==
    ASSUME HandlerInv, NEW w \in Workers, Schedule(w),
           UNCHANGED <<daemon, asked, link>>,
           \A s \in Handlers : cmu' # s => cmu # s,
           \A i \in Ids : link = "open" /\ FinallyRouted(i)' =>
               FinallyRouted(i) \/ (i = dep[w] /\ pc[w] = "done")
    PROVE  CallsInv'
<1>0. CallsInv
  BY DEF HandlerInv
<1>1. OthersKept(w) /\ (Begins(w) \/ Proceeds(w) \/ Returns(w))
  BY HandlerTypes, ScheduleEffect
<1>2. Requested'
  <2> SUFFICES ASSUME NEW s \in Handlers, NEW i \in Ids, asked[s] = i
               PROVE  Quiet(i)' /\ (link = "open" /\ cmu' # s => ~FinallyRouted(i)')
    BY DEF Requested
  <2>1. Quiet(i) /\ (link = "open" /\ cmu # s => ~FinallyRouted(i))
    BY <1>0 DEF CallsInv, Requested
  <2> QED BY <2>1, QuietStays DEF Quiet
<1>3. Routed'
  <2> SUFFICES ASSUME link = "open", NEW i \in Ids, FinallyRouted(i)'
               PROVE  /\ i <= calls'
                      /\ \A v \in Workers : dep'[v] = i => pc'[v] = "done"
                      /\ daemon = "up" => deployments'[i] = i
    BY DEF Routed
  <2>1. /\ i <= calls /\ i # calls + 1
        /\ \A v \in Workers : dep[v] = i => pc[v] = "done"
        /\ daemon = "up" => deployments[i] = i
    <3>1. CASE FinallyRouted(i)
      BY <1>0, <3>1, HandlerTypes DEF CallsInv, Routed
    <3>2. CASE i = dep[w] /\ pc[w] = "done"
      <4>1. i \in 1..calls /\ calls \in Nat
        BY <3>2, HandlerTypes
      <4>2. \A v \in Workers : dep[v] = i => v = w
        BY <3>2, HandlerTypes
      <4>3. daemon = "up" => deployments[i] = i
        BY <1>0, <3>2 DEF CallsInv, Entered
      <4> QED BY <3>2, <4>1, <4>2, <4>3
    <3> QED BY <3>1, <3>2
  <2>2. calls' \in Nat /\ calls' >= calls
    BY <1>1, HandlerTypes DEF Begins, Proceeds, Returns
  <2>3. \A v \in Workers : dep'[v] = i => pc'[v] = "done"
    BY <1>1, <2>1, HandlerTypes DEF OthersKept, Begins, Proceeds, Returns
  <2>4. deployments'[i] = deployments[i]
    BY <1>1, <2>1, HandlerTypes DEF OthersKept, Begins, Proceeds, Returns
  <2> QED BY <2>1, <2>2, <2>3, <2>4, HandlerTypes
<1>4. Entered'
  <2> SUFFICES ASSUME daemon = "up", NEW v \in Workers,
                      pc'[v] \in {"registered", "pulling", "starting", "started", "done"}
               PROVE  deployments'[dep'[v]] = dep'[v]
    BY DEF Entered
  <2>0. pc[v] \in {"registered", "pulling", "starting", "started", "done"} =>
          deployments[dep[v]] = dep[v]
    BY <1>0 DEF CallsInv, Entered
  <2>1. CASE v = w
    BY <1>1, <2>0, <2>1 DEF Begins, Proceeds, Returns
  <2>2. CASE v # w
    <3>1. pc'[v] = pc[v] /\ dep'[v] = dep[v] /\ dep[v] \in Ids /\ dep[v] # dep[w]
      BY <1>1, <2>2, HandlerTypes DEF OthersKept
    <3> QED BY <1>1, <2>0, <3>1 DEF OthersKept
  <2> QED BY <2>1, <2>2
<1>5. Named'
  <2> SUFFICES ASSUME NEW v \in Workers, pc'[v] = "done", deployments'[dep'[v]] = dep'[v]
               PROVE  heap'[dep'[v]].container = dep'[v]
    BY DEF Named
  <2>1. CASE v = w
    BY <1>1, <2>1 DEF Begins, Proceeds, Returns
  <2>2. CASE v # w
    <3>1. /\ pc[v] = "done" /\ dep'[v] = dep[v] /\ dep[v] # dep[w]
          /\ dep[v] \in Ids /\ dep[v] \in 1..calls
      BY <1>1, <2>2, HandlerTypes DEF OthersKept
    <3>2. deployments[dep[v]] = dep[v] /\ heap'[dep[v]].container = heap[dep[v]].container
      BY <1>1, <3>1 DEF OthersKept
    <3> QED BY <1>0, <3>1, <3>2 DEF CallsInv, Named
  <2> QED BY <2>1, <2>2
<1>6. LookedUp'
  BY <1>0, <1>1 DEF CallsInv, LookedUp, OthersKept
<1> QED BY <1>2, <1>3, <1>4, <1>5, <1>6 DEF CallsInv

\* A Stop that looks up or releases only what is quiet, or runs in a shutdown.
LEMMA CallsStop ==
    ASSUME HandlerInv, NEW s \in Stoppers, AnyStop(s),
           UNCHANGED <<daemon, link, cmu, wire, gwRoutes>>,
           \A t \in Handlers : asked'[t] # Nil => asked'[t] = asked[t],
           daemon = "up" => s \in Handlers
    PROVE  CallsInv'
<1>0. CallsInv
  BY DEF HandlerInv
<1>1. /\ StopsKept(s)
      /\ \/ \E id \in Ids : LooksUp(s, id)
         \/ Halts(s) \/ Releases(s) \/ StopEnds(s)
  BY HandlerTypes, StopEffect DEF AnyStop
<1>2. UNCHANGED <<pc, dep, calls>>
  BY <1>1 DEF StopsKept
<1>3. Requested'
  <2> SUFFICES ASSUME NEW t \in Handlers, NEW i \in Ids, asked'[t] = i
               PROVE  Quiet(i)' /\ (link = "open" /\ cmu # t => ~FinallyRouted(i)')
    BY DEF Requested
  <2>1. asked[t] = i
    OBVIOUS
  <2>2. Quiet(i) /\ (link = "open" /\ cmu # t => ~FinallyRouted(i))
    BY <1>0, <2>1 DEF CallsInv, Requested
  <2>3. Quiet(i)'
    BY <1>2, <2>2 DEF Quiet
  <2> QED BY <2>2, <2>3, OutcomeKept
<1>4. \A i \in Ids : deployments'[i] # deployments[i] =>
        deployments'[i] = Nil /\ spc[s] = "stopped" /\ target[s] = i
  BY <1>1, HandlerTypes DEF LooksUp, Halts, Releases, StopEnds
<1>5. ASSUME NEW i \in Ids, daemon = "up", deployments'[i] # deployments[i]
      PROVE  Quiet(i) /\ (link = "open" => ~FinallyRouted(i))
  <2>1. s \in Handlers /\ spc[s] = "stopped" /\ target[s] = i
    BY <1>4, <1>5
  <2>2. asked[s] = i /\ cmu # s
    BY <2>1, HandlerTypes DEF Placed
  <2> QED BY <1>0, <2>1, <2>2 DEF CallsInv, Requested
<1>6. Routed'
  <2> SUFFICES ASSUME link = "open", NEW i \in Ids, FinallyRouted(i)'
               PROVE  /\ i <= calls
                      /\ \A v \in Workers : dep[v] = i => pc[v] = "done"
                      /\ daemon = "up" => deployments'[i] = i
    BY <1>2 DEF Routed
  <2>1. FinallyRouted(i)
    BY OutcomeKept
  <2> QED BY <1>0, <1>5, <2>1 DEF CallsInv, Routed
<1>7. Entered'
  <2> SUFFICES ASSUME daemon = "up", NEW w \in Workers,
                      pc[w] \in {"registered", "pulling", "starting", "started", "done"}
               PROVE  deployments'[dep[w]] = dep[w]
    BY <1>2 DEF Entered
  <2>1. dep[w] \in Ids /\ deployments[dep[w]] = dep[w]
    BY <1>0, HandlerTypes DEF CallsInv, Entered
  <2> QED BY <1>5, <2>1 DEF Quiet
<1>8. Named'
  <2> SUFFICES ASSUME NEW w \in Workers, pc[w] = "done", deployments'[dep[w]] = dep[w]
               PROVE  heap'[dep[w]].container = dep[w]
    BY <1>2 DEF Named
  <2>1. dep[w] \in Ids /\ dep[w] # Nil
    BY HandlerTypes
  <2>2. deployments[dep[w]] = dep[w]
    BY <1>4, <2>1
  <2> QED BY <1>0, <1>1, <2>1, <2>2 DEF CallsInv, Named, StopsKept
<1>9. LookedUp'
  BY <1>0, <1>1 DEF CallsInv, LookedUp, StopsKept, LooksUp, Halts, Releases, StopEnds
<1> QED BY <1>3, <1>6, <1>7, <1>8, <1>9 DEF CallsInv

LEMMA CallsGone ==
    ASSUME HandlerInv, NEW how \in {"exited", "panicked", "killed"}, ProcessGone(how)
    PROVE  CallsInv'
<1>1. link' # "open"
  BY HandlerTypes, BreaksTypes DEF ProcessGone
<1>2. /\ \A w \in Workers : pc'[w] = "idle"
      /\ \A s \in Stoppers : spc'[s] = "idle"
      /\ \A s \in Handlers : asked'[s] = Nil
  BY DEF ProcessGone
<1>3. \A i \in Ids : i # Nil
  BY Names
<1> QED
  BY <1>1, <1>2, <1>3 DEF CallsInv, Requested, Routed, Entered, Named, LookedUp

\* A step that leaves the scheduler and the handlers alone, and makes no
\* route.  The mutex is given back when the withdrawal is on its way.
LEMMA CallsFrame ==
    ASSUME HandlerInv,
           UNCHANGED <<deployments, heap, pc, dep, calls, spc, target, sdep, asked>>,
           daemon' \in {daemon, "draining"},
           link' = "open" =>
              /\ link = "open"
              /\ \A i \in Ids : FinallyRouted(i)' => FinallyRouted(i)
              /\ \A s \in Handlers, i \in Ids :
                    asked[s] = i /\ cmu = s /\ cmu' # s => ~FinallyRouted(i)'
    PROVE  CallsInv'
<1>0. CallsInv
  BY DEF HandlerInv
<1>1. Requested'
  <2> SUFFICES ASSUME NEW s \in Handlers, NEW i \in Ids, asked[s] = i
               PROVE  Quiet(i)' /\ (link' = "open" /\ cmu' # s => ~FinallyRouted(i)')
    BY DEF Requested
  <2>1. Quiet(i) /\ (link = "open" /\ cmu # s => ~FinallyRouted(i))
    BY <1>0 DEF CallsInv, Requested
  <2>2. Quiet(i)'
    BY <2>1 DEF Quiet
  <2> QED BY <2>1, <2>2
<1>2. Routed'
  <2> SUFFICES ASSUME link' = "open", NEW i \in Ids, FinallyRouted(i)'
               PROVE  /\ i <= calls
                      /\ \A v \in Workers : dep[v] = i => pc[v] = "done"
                      /\ daemon' = "up" => deployments[i] = i
    BY DEF Routed
  <2> QED BY <1>0 DEF CallsInv, Routed
<1>3. Entered' /\ Named' /\ LookedUp'
  BY <1>0 DEF CallsInv, Entered, Named, LookedUp
<1> QED BY <1>1, <1>2, <1>3 DEF CallsInv

LEMMA CallsDeploy ==
    ASSUME HandlerInv, NEW w \in Workers, handleDeploy(w)
    PROVE  CallsInv'
<1> USE DEF schedulerVars, procVars, tunnelVars, gatewayVars
<1>0. DaemonTypes /\ Placed
  BY HandlerTypes
<1>1. CASE CallSchedule(w) \/ DeployReplies(w)
  <2>1. Schedule(w) /\ UNCHANGED <<daemon, asked, link, cmu, wire, gwRoutes>>
    BY <1>1 DEF CallSchedule, DeployReplies, Schedule
  <2>2. \A i \in Ids : FinallyRouted(i)' => FinallyRouted(i)
    BY <2>1, OutcomeKept
  <2> QED BY <2>1, <2>2, CallsSchedule
<1>2. CASE RegisterWrites(w)
  <2>1. /\ Schedule(w) /\ UNCHANGED <<daemon, asked, link>>
        /\ cmu = w /\ pc[w] = "done" /\ Written(Registers(heap[dep[w]].id))
    BY <1>0, <1>2 DEF RegisterWrites, Schedule, Written, Placed
  <2>2. dep[w] \in Ids /\ heap[dep[w]].id = dep[w]
    BY <2>1, HandlerTypes
  <2>3. Registers(dep[w]) \in Messages /\ Written(Registers(dep[w]))
    BY <2>1, <2>2, MessageTypes
  <2>4. ASSUME NEW i \in Ids, link = "open", FinallyRouted(i)', i # dep[w]
        PROVE  FinallyRouted(i)
    <3>1. Registers(dep[w]) # Registers(i) => FinallyRouted(i)
      BY <1>0, <2>3, <2>4, WrittenOutcome
    <3>2. Registers(dep[w]) # Registers(i)
      BY <2>2, <2>3, <2>4, RouteMessages
    <3> QED BY <3>1, <3>2
  <2>5. \A s \in Handlers : cmu # s
    BY <2>1, Names
  <2> QED BY <2>1, <2>4, <2>5, CallsSchedule
<1>3. CASE Expose(w)
  <2>1. /\ UNCHANGED <<deployments, heap, pc, dep, calls, spc, target, sdep, asked>>
        /\ UNCHANGED <<daemon, link, wire, gwRoutes>> /\ cmu = Free
    BY <1>3 DEF Expose, vars, tableVars, workerVars, stopVars
  <2>2. \A i \in Ids : FinallyRouted(i)' => FinallyRouted(i)
    BY <2>1, OutcomeKept
  <2> QED BY <2>1, <2>2, Names, CallsFrame
<1>4. CASE DeployPanics(w)
  BY <1>4, CallsGone DEF DeployPanics
<1> QED BY <1>1, <1>2, <1>3, <1>4 DEF handleDeploy

LEMMA CallsArrive ==
    ASSUME Answering, HandlerInv, NEW s \in Handlers, NEW id \in Ids, Stoppable(id),
           StopArrives(s, id)
    PROVE  CallsInv'
<1> USE DEF schedulerVars, procVars, tunnelVars, gatewayVars
<1>0. CallsInv /\ DaemonTypes /\ Placed
  BY HandlerTypes DEF HandlerInv
<1>1. /\ UNCHANGED <<deployments, heap, pc, dep, calls, spc, target, sdep, daemon>>
      /\ UNCHANGED <<link, wire, gwRoutes>>
      /\ cmu = Free /\ cmu' = (IF connected THEN s ELSE Free)
      /\ asked' = [asked EXCEPT ![s] = id]
  BY DEF StopArrives, vars, tableVars, workerVars, stopVars
<1>2. Quiet(id)
  <2>1. id <= calls /\ Answered(id)
    BY HandlerTypes DEF Answering, Stoppable, OwnRecord
  <2>2. ASSUME NEW w \in Workers, dep[w] = id PROVE FALSE
    <3>1. dep[w] # Nil /\ dep[w] \in 1..calls
      BY <2>1, <2>2, HandlerTypes
    <3>2. heap[dep[w]].id = id
      BY <2>2, <3>1, HandlerTypes DEF OwnRecord
    <3> QED BY <2>1, <3>1, <3>2 DEF Answered
  <2> QED BY <2>1, <2>2, HandlerTypes DEF Quiet
<1>3. Requested'
  <2> SUFFICES ASSUME NEW t \in Handlers, NEW i \in Ids, asked'[t] = i
               PROVE  Quiet(i)' /\ (link = "open" /\ cmu' # t => ~FinallyRouted(i)')
    BY <1>1 DEF Requested
  <2>1. CASE t = s
    <3>1. i = id
      BY <1>0, <1>1, <2>1 DEF DaemonTypes
    <3>2. Quiet(i)'
      BY <1>1, <1>2, <3>1 DEF Quiet
    <3>3. link = "open" => cmu' = t
      BY <1>0, <1>1, <2>1 DEF Placed
    <3> QED BY <3>2, <3>3
  <2>2. CASE t # s
    <3>1. asked[t] = i /\ cmu # t
      BY <1>0, <1>1, <2>2, Names DEF DaemonTypes
    <3>2. Quiet(i) /\ (link = "open" => ~FinallyRouted(i))
      BY <1>0, <3>1 DEF CallsInv, Requested
    <3>3. Quiet(i)'
      BY <1>1, <3>2 DEF Quiet
    <3> QED BY <1>1, <3>2, <3>3, OutcomeKept
  <2> QED BY <2>1, <2>2
<1>4. Routed'
  <2> SUFFICES ASSUME link = "open", NEW i \in Ids, FinallyRouted(i)'
               PROVE  /\ i <= calls
                      /\ \A v \in Workers : dep[v] = i => pc[v] = "done"
                      /\ daemon = "up" => deployments[i] = i
    BY <1>1 DEF Routed
  <2>1. FinallyRouted(i)
    BY <1>1, OutcomeKept
  <2> QED BY <1>0, <2>1 DEF CallsInv, Routed
<1>5. Entered' /\ Named' /\ LookedUp'
  BY <1>0, <1>1 DEF CallsInv, Entered, Named, LookedUp
<1> QED BY <1>3, <1>4, <1>5 DEF CallsInv

LEMMA CallsHandler ==
    ASSUME Answering, HandlerInv, NEW s \in Handlers, handleStop(s)
    PROVE  CallsInv'
<1> USE DEF schedulerVars, procVars, tunnelVars, gatewayVars
<1>0. DaemonTypes /\ Placed
  BY HandlerTypes
<1>1. CASE UnregisterWrites(s)
  <2>1. /\ UNCHANGED <<deployments, heap, pc, dep, calls, spc, target, sdep, asked>>
        /\ cmu = s /\ Written(Unregisters(asked[s])) /\ UNCHANGED <<daemon, link>>
    BY <1>1 DEF UnregisterWrites, Written, vars, tableVars, workerVars, stopVars
  <2>2. asked[s] \in Ids
    BY <1>0, <2>1, Names DEF Placed, DaemonTypes
  <2>3. Unregisters(asked[s]) \in Messages
    BY <2>2, MessageTypes
  <2>4. ASSUME link = "open", NEW i \in Ids, FinallyRouted(i)'
        PROVE  FinallyRouted(i) /\ asked[s] # i
    <3>1. Unregisters(asked[s]) # Registers(i)
      BY <2>2, <2>3, RouteMessages
    <3>2. /\ Unregisters(asked[s]) # Unregisters(i)
          /\ Unregisters(asked[s]) # Registers(i) => FinallyRouted(i)
      BY <1>0, <2>1, <2>3, <2>4, WrittenOutcome
    <3> QED BY <3>1, <3>2
  <2> QED BY <2>1, <2>4, CallsFrame
<1>2. CASE CallStop(s) \/ StopReplies(s)
  <2>1. /\ AnyStop(s) /\ s \in Stoppers /\ UNCHANGED <<daemon, link, cmu, wire, gwRoutes>>
        /\ \A t \in Handlers : asked'[t] # Nil => asked'[t] = asked[t]
    BY <1>0, <1>2, StopsAreStops, HandlerTypes
    DEF HandlerInv, CallStop, StopReplies, DaemonTypes
  <2> QED BY <2>1, CallsStop
<1> QED BY <1>1, <1>2, CallsArrive DEF handleStop

LEMMA CallsConnection ==
    ASSUME HandlerInv, Connection
    PROVE  CallsInv'
<1> USE DEF schedulerVars, procVars, tunnelVars, gatewayVars
<1>0. DaemonTypes
  BY HandlerTypes
<1>1. /\ UNCHANGED <<deployments, heap, pc, dep, calls, spc, target, sdep, asked, daemon>>
      /\ cmu' = cmu \/ \A s \in Handlers : cmu # s
  <2>1. UNCHANGED <<vars, asked, daemon>> /\ (cmu' = cmu \/ cmu \in {Free, Visitor})
    BY DEF Connection, Respond, TunnelBreaks, ReaderEnds, GatewayReads, GatewayCleanup
  <2> QED BY <2>1, Names DEF vars, tableVars, workerVars, stopVars
<1>2. CASE Respond \/ ReaderEnds
  <2>1. UNCHANGED <<link, wire, gwRoutes>>
    BY <1>2 DEF Respond, ReaderEnds
  <2>2. \A i \in Ids : FinallyRouted(i)' => FinallyRouted(i)
    BY <2>1, OutcomeKept
  <2> QED BY <1>1, <2>1, <2>2, CallsFrame
<1>3. CASE GatewayReads
  <2>1. UNCHANGED link
    BY <1>3 DEF GatewayReads
  <2>2. \A i \in Ids : FinallyRouted(i)' => FinallyRouted(i)
    BY <1>0, <1>3, ReadOutcome
  <2> QED BY <1>1, <2>1, <2>2, CallsFrame
<1>4. CASE TunnelBreaks \/ GatewayCleanup
  <2>1. link' # "open"
    BY <1>0, <1>4, BreaksTypes DEF TunnelBreaks, GatewayCleanup
  <2> QED BY <1>1, <2>1, CallsFrame
<1> QED BY <1>2, <1>3, <1>4 DEF Connection

LEMMA CallsStep ==
    ASSUME Answering
    PROVE  HandlerInv /\ [ProviderNext]_providerVars => CallsInv'
<1> SUFFICES ASSUME HandlerInv, [ProviderNext]_providerVars PROVE CallsInv'
  OBVIOUS
<1> USE DEF schedulerVars, procVars, tunnelVars, gatewayVars
<1>0. CallsInv /\ DaemonTypes /\ Placed
  BY HandlerTypes DEF HandlerInv
<1>1. CASE StopAll
  <2>1. /\ AnyStop(Closer) /\ daemon = "draining"
        /\ UNCHANGED <<daemon, link, cmu, wire, gwRoutes, asked>>
    BY <1>1, StopsAreStops DEF HandlerInv, StopAll, StopAllNext, StopAllStops
  <2> QED BY <2>1, CallsStop, HandlerTypes
<1>2. ASSUME (\E s \in Stoppers : TornRead(s)) \/ Exit \/ Kill PROVE CallsInv'
  BY <1>2, CallsGone DEF TornRead, Exit, Kill
<1>3. CASE Signal \/ ContainerEnds \/ UNCHANGED providerVars
  <2>1. /\ UNCHANGED <<deployments, heap, pc, dep, calls, spc, target, sdep, asked>>
        /\ UNCHANGED <<link, cmu, wire, gwRoutes>> /\ daemon' \in {daemon, "draining"}
    BY <1>3 DEF Signal, ContainerEnds, ContainerExits, providerVars,
       vars, tableVars, workerVars, stopVars
  <2>2. \A i \in Ids : FinallyRouted(i)' => FinallyRouted(i)
    BY <2>1, OutcomeKept
  <2> QED BY <2>1, <2>2, CallsFrame
<1>4. CASE Start
  <2>1. /\ UNCHANGED <<deployments, heap, pc, dep, calls, spc, target, sdep, asked>>
        /\ wire' = <<>> /\ gwRoutes' = {}
        /\ \A w \in Workers : pc[w] = "idle"
        /\ \A s \in Handlers : asked[s] = Nil
    BY <1>0, <1>4 DEF Start, Placed, vars, tableVars, workerVars, stopVars
  <2>2. \A i \in Ids : i # Nil /\ ~FinallyRouted(i)'
    BY <2>1, NothingRouted, Names
  <2>3. Requested' /\ Routed' /\ Entered' /\ Named'
    BY <2>1, <2>2 DEF Requested, Routed, Entered, Named
  <2>4. LookedUp'
    BY <1>0, <2>1 DEF CallsInv, LookedUp
  <2> QED BY <2>3, <2>4 DEF CallsInv
<1> QED
  BY <1>1, <1>2, <1>3, <1>4, CallsDeploy, CallsHandler, CallsConnection
  DEF ProviderNext

-----------------------------------------------------------------------------
(* The shutdown, when docker also stops what it is told to *)

DrainInv == HandlerInv /\ ShutdownInv

LEMMA DrainTypes ==
    ASSUME DrainInv
    PROVE  /\ HandlerInv /\ ShutdownInv
           /\ containers \subseteq Ids /\ settled \subseteq Ids
           /\ \A c \in containers : c \in 1..calls
           /\ \A s \in Stoppers : daemon = "up" /\ spc[s] # "idle" => Quiet(target[s])
<1>1. HandlerInv /\ ShutdownInv
  BY DEF DrainInv
<1>2. containers \subseteq Ids /\ settled \subseteq Ids
  BY <1>1, HandlerTypes DEF TypeInv, TypeOK, DaemonTypes
<1>3. \A c \in containers : c \in 1..calls
  BY <1>1, <1>2, HandlerTypes DEF ShutdownInv, Contained
<1> QED BY <1>1, <1>2, <1>3, StopsQuiet

LEMMA ShutdownInit == ProviderInit => ShutdownInv
  BY DEF ProviderInit, Init, ShutdownInv, Unstarted, Contained, StopsInOrder,
     SettledListed, SettledGone

LEMMA ShutdownSchedule ==
    ASSUME DrainInv, NEW w \in Workers, Schedule(w), Running,
           UNCHANGED <<daemon, snapshot, settled>>
    PROVE  ShutdownInv'
<1>0. HandlerInv /\ ShutdownInv
  BY DrainTypes
<1>1. OthersKept(w) /\ (Begins(w) \/ Proceeds(w) \/ Returns(w))
  BY <1>0, HandlerTypes, ScheduleEffect
<1>2. \A i : Quiet(i) =>
        /\ Quiet(i)' /\ i \in 1..calls /\ i \in Ids /\ i # dep[w]
        /\ i \in containers' <=> i \in containers
        /\ deployments'[i] = deployments[i]
        /\ heap'[i].container = heap[i].container
  <2> SUFFICES ASSUME NEW i, Quiet(i)
               PROVE  /\ Quiet(i)' /\ i \in 1..calls /\ i \in Ids /\ i # dep[w]
                      /\ i \in containers' <=> i \in containers
                      /\ deployments'[i] = deployments[i]
                      /\ heap'[i].container = heap[i].container
    OBVIOUS
  <2>1. i \in 1..calls /\ i \in Ids /\ i # dep[w]
    BY <1>0, HandlerTypes DEF Quiet
  <2>2. Quiet(i)'
    BY <1>0, QuietStays
  <2> QED BY <1>1, <2>1, <2>2 DEF OthersKept
<1>3. Unstarted'
  <2> SUFFICES ASSUME NEW v \in Workers,
                      pc'[v] \in {"admitted", "registered", "pulling", "starting"}
               PROVE  dep'[v] \notin containers'
    BY DEF Unstarted
  <2>1. CASE v = w
    <3>1. CASE Begins(w)
      BY <1>0, <2>1, <3>1, DrainTypes, HandlerTypes DEF Begins
    <3>2. CASE Proceeds(w)
      <4>1. pc[w] \in {"admitted", "registered", "pulling"} /\ dep'[w] = dep[w]
        BY <2>1, <3>2 DEF Proceeds
      <4> QED BY <1>0, <1>1, <2>1, <4>1 DEF ShutdownInv, Unstarted, OthersKept
    <3>3. CASE Returns(w)
      BY <2>1, <3>3 DEF Returns
    <3> QED BY <1>1, <3>1, <3>2, <3>3
  <2>2. CASE v # w
    <3>1. pc'[v] = pc[v] /\ dep'[v] = dep[v] /\ dep[v] # dep[w]
      BY <1>0, <1>1, <2>2, HandlerTypes DEF OthersKept
    <3> QED BY <1>0, <1>1, <2>2, <3>1 DEF ShutdownInv, Unstarted, OthersKept
  <2> QED BY <2>1, <2>2
<1>4. Contained'
  <2> SUFFICES ASSUME NEW c \in containers'
               PROVE  /\ c <= calls'
                      /\ deployments'[c] = c =>
                           \/ heap'[c].container = c
                           \/ \E v \in Workers : pc'[v] = "started" /\ dep'[v] = c
    BY DEF Contained
  <2>1. c \in 1..calls /\ c \in Ids
    BY <1>0, <1>1, DrainTypes, HandlerTypes DEF OthersKept
  <2>2. calls' \in Nat /\ calls' >= calls
    BY <1>0, <1>1, HandlerTypes DEF Begins, Proceeds, Returns
  <2>3. c <= calls'
    BY <1>0, <2>1, <2>2, HandlerTypes
  <2>4. ASSUME c \in containers, deployments[c] = c,
               heap'[c].container = heap[c].container,
               \A v \in Workers : pc[v] = "started" /\ dep[v] = c =>
                   pc'[v] = "started" /\ dep'[v] = c
        PROVE  \/ heap'[c].container = c
               \/ \E v \in Workers : pc'[v] = "started" /\ dep'[v] = c
    <3>1. \/ heap[c].container = c
          \/ \E v \in Workers : pc[v] = "started" /\ dep[v] = c
      BY <1>0, <2>4 DEF ShutdownInv, Contained
    <3> QED BY <2>4, <3>1
  <2>5. CASE c # dep[w]
    <3>1. /\ c \in containers /\ deployments'[c] = deployments[c]
          /\ heap'[c].container = heap[c].container
          /\ \A v \in Workers : dep[v] = c => pc'[v] = pc[v] /\ dep'[v] = dep[v]
      BY <1>1, <2>1, <2>5 DEF OthersKept
    <3> QED BY <2>3, <2>4, <3>1
  <2>6. CASE c = dep[w] /\ (Begins(w) \/ Returns(w))
    <3>1. /\ c \in containers /\ deployments'[c] = deployments[c]
          /\ heap'[c].container = heap[c].container /\ pc[w] # "started"
      BY <2>1, <2>6 DEF Begins, Returns
    <3>2. \A v \in Workers : v # w => pc'[v] = pc[v] /\ dep'[v] = dep[v]
      BY <1>1 DEF OthersKept
    <3> QED BY <2>3, <2>4, <3>1, <3>2
  <2>7. CASE c = dep[w] /\ Proceeds(w)
    <3>1. c \in containers => pc[w] \notin {"admitted", "registered", "pulling", "starting"}
      BY <1>0, <2>7 DEF ShutdownInv, Unstarted
    <3>2. c \notin containers => pc[w] = "starting"
      BY <1>1 DEF OthersKept
    <3> QED BY <2>1, <2>3, <2>7, <3>1, <3>2 DEF Proceeds
  <2> QED BY <1>1, <2>5, <2>6, <2>7
<1>5. StopsInOrder'
  <2> SUFFICES ASSUME daemon = "up", NEW s \in Stoppers, target[s] \in containers',
                      spc[s] \in {"marked", "stopped"}
               PROVE  spc[s] = "marked" /\ deployments'[target[s]] = target[s]
    BY <1>1 DEF StopsInOrder, OthersKept
  <2>1. Quiet(target[s])
    BY DrainTypes
  <2>2. target[s] \in containers /\ deployments'[target[s]] = deployments[target[s]]
    BY <1>2, <2>1
  <2> QED BY <1>0, <2>2 DEF ShutdownInv, StopsInOrder
<1>6. SettledListed'
  <2> SUFFICES ASSUME daemon = "draining", NEW i \in settled
               PROVE  /\ Quiet(i)'
                      /\ i \in containers' =>
                           /\ deployments'[i] = i /\ heap'[i].container = i
                           /\ i \in snapshot \/ (spc[Closer] = "marked" /\ target[Closer] = i)
                           /\ \A s \in Stoppers : target[s] = i => spc[s] # "stopped"
    BY <1>1 DEF SettledListed, OthersKept
  <2>1. /\ Quiet(i)
        /\ i \in containers =>
             /\ deployments[i] = i /\ heap[i].container = i
             /\ i \in snapshot \/ (spc[Closer] = "marked" /\ target[Closer] = i)
             /\ \A s \in Stoppers : target[s] = i => spc[s] # "stopped"
    BY <1>0 DEF ShutdownInv, SettledListed
  <2> QED BY <1>2, <2>1
<1>7. SettledGone'
  BY DEF SettledGone, Running
<1> QED BY <1>3, <1>4, <1>5, <1>6, <1>7 DEF ShutdownInv

LEMMA ShutdownStop ==
    ASSUME ~DockerFails, DrainInv, NEW s \in Stoppers, AnyStop(s), Running,
           UNCHANGED <<daemon, settled>>,
           snapshot' # snapshot => s = Closer /\ \E id \in Ids :
               StopLookup(s, id) /\ snapshot' = snapshot \ {id}
    PROVE  ShutdownInv'
<1>0. HandlerInv /\ ShutdownInv
  BY DrainTypes
<1>1. /\ StopsKept(s)
      /\ \/ \E id \in Ids : /\ LooksUp(s, id)
                            /\ snapshot' \in {snapshot, snapshot \ {id}}
         \/ Halts(s) /\ snapshot' = snapshot
         \/ Releases(s) /\ snapshot' = snapshot
         \/ StopEnds(s) /\ snapshot' = snapshot
  <2>1. \A id \in Ids : StopLookup(s, id) => StopsKept(s) /\ LooksUp(s, id)
    BY <1>0, HandlerTypes, StopEffect
  <2>2. CASE \E id \in Ids : StopLookup(s, id)
    <3>1. CASE snapshot' = snapshot
      BY <2>1, <2>2, <3>1
    <3>2. CASE snapshot' # snapshot
      BY <2>1, <3>2
    <3> QED BY <3>1, <3>2
  <2>3. CASE StopContainer(s) \/ StopRelease(s) \/ StopReturns(s)
    <3>1. \A id \in Ids : ~StopLookup(s, id)
      BY <2>3 DEF StopLookup, StopContainer, StopRelease, StopReturns
    <3> QED BY <1>0, <2>3, <3>1, HandlerTypes, StopEffect
  <2> QED BY <2>2, <2>3 DEF AnyStop
<1>2. /\ UNCHANGED <<pc, dep, calls>> /\ containers' \subseteq containers
      /\ \A i \in Ids : heap'[i].container = heap[i].container
      /\ \A t \in Stoppers \ {s} : spc'[t] = spc[t] /\ target'[t] = target[t]
  BY <1>1 DEF StopsKept
<1>3. \A i \in Ids : deployments'[i] # deployments[i] =>
        deployments'[i] = Nil /\ spc[s] = "stopped" /\ target[s] = i
  BY <1>0, <1>1, HandlerTypes DEF LooksUp, Halts, Releases, StopEnds
<1>4. Unstarted'
  BY <1>0, <1>2 DEF ShutdownInv, Unstarted
<1>5. Contained'
  <2> SUFFICES ASSUME NEW c \in containers'
               PROVE  /\ c <= calls
                      /\ deployments'[c] = c =>
                           \/ heap'[c].container = c
                           \/ \E v \in Workers : pc[v] = "started" /\ dep[v] = c
    BY <1>2 DEF Contained
  <2>1. c \in containers /\ c \in Ids /\ c # Nil
    BY <1>2, DrainTypes
  <2>2. deployments'[c] = c => deployments[c] = c
    BY <1>3, <2>1
  <2>3. heap'[c].container = heap[c].container
    BY <1>2, <2>1
  <2> QED BY <1>0, <2>1, <2>2, <2>3 DEF ShutdownInv, Contained
\* What docker is told to stop, if the record names its container.
<1>6. ASSUME Halts(s), target[s] \in Ids, heap[target[s]].container = target[s]
      PROVE  target[s] \notin containers'
  <2>1. sdep[s] = target[s]
    BY <1>0, <1>6 DEF Halts, HandlerInv, CallsInv, LookedUp
  <2> QED BY <1>6, <2>1 DEF Halts
<1>7. StopsInOrder'
  <2> SUFFICES ASSUME daemon = "up", NEW t \in Stoppers, target'[t] \in containers',
                      spc'[t] \in {"marked", "stopped"}
               PROVE  spc'[t] = "marked" /\ deployments'[target'[t]] = target'[t]
    BY DEF StopsInOrder
  <2>1. target'[t] \in containers /\ target'[t] \in Ids
    BY <1>2, DrainTypes
  <2>2. spc[s] = "stopped" => target[s] \notin containers
    BY <1>0 DEF ShutdownInv, StopsInOrder
  <2>3. deployments'[target'[t]] = deployments[target'[t]]
    BY <1>3, <2>1, <2>2
  <2>4. CASE t # s
    BY <1>0, <1>2, <2>1, <2>3, <2>4 DEF ShutdownInv, StopsInOrder
  <2>5. CASE t = s
    <3>1. CASE \E id \in Ids : LooksUp(s, id)
      BY <1>0, <2>3, <2>5, <3>1, HandlerTypes DEF LooksUp
    <3>2. CASE Halts(s)
      <4>1. target'[s] = target[s] /\ spc[s] = "marked"
        BY <3>2 DEF Halts
      <4>2. target[s] \in containers /\ target[s] \in Ids
        BY <2>1, <2>5, <4>1
      <4>3. deployments[target[s]] = target[s]
        BY <1>0, <4>1, <4>2 DEF ShutdownInv, StopsInOrder
      <4>4. Quiet(target[s])
        BY <4>1, DrainTypes
      <4>5. heap[target[s]].container = target[s]
        BY <1>0, <4>2, <4>3, <4>4 DEF ShutdownInv, Contained, Quiet
      <4> QED BY <1>6, <2>5, <3>2, <4>1, <4>2, <4>5
    <3>3. CASE Releases(s) \/ StopEnds(s)
      BY <2>5, <3>3 DEF Releases, StopEnds
    <3> QED BY <1>1, <3>1, <3>2, <3>3
  <2> QED BY <2>4, <2>5
<1>8. SettledListed'
  <2> SUFFICES ASSUME daemon = "draining", NEW i \in settled
               PROVE  /\ Quiet(i)'
                      /\ i \in containers' =>
                           /\ deployments'[i] = i /\ heap'[i].container = i
                           /\ \/ i \in snapshot'
                              \/ spc'[Closer] = "marked" /\ target'[Closer] = i
                           /\ \A t \in Stoppers : target'[t] = i => spc'[t] # "stopped"
    BY DEF SettledListed
  <2>1. /\ Quiet(i) /\ i \in Ids
        /\ i \in containers =>
             /\ deployments[i] = i /\ heap[i].container = i
             /\ i \in snapshot \/ (spc[Closer] = "marked" /\ target[Closer] = i)
             /\ \A t \in Stoppers : target[t] = i => spc[t] # "stopped"
    BY <1>0, DrainTypes DEF ShutdownInv, SettledListed
  <2>2. Quiet(i)'
    BY <1>2, <2>1 DEF Quiet
  <2> SUFFICES ASSUME i \in containers'
               PROVE  /\ deployments'[i] = i /\ heap'[i].container = i
                      /\ \/ i \in snapshot'
                         \/ spc'[Closer] = "marked" /\ target'[Closer] = i
                      /\ \A t \in Stoppers : target'[t] = i => spc'[t] # "stopped"
    BY <2>2
  <2>3. i \in containers
    BY <1>2
  <2>4. deployments'[i] = i /\ heap'[i].container = i
    BY <1>2, <1>3, <2>1, <2>3
  <2>5. Halts(s) => target[s] # i
    BY <1>6, <2>1, <2>3
  <2>6. \A t \in Stoppers : target'[t] = i => spc'[t] # "stopped"
    <3> SUFFICES ASSUME NEW t \in Stoppers, target'[t] = i PROVE spc'[t] # "stopped"
      OBVIOUS
    <3>1. CASE t # s
      BY <1>2, <2>1, <2>3, <3>1
    <3>2. CASE t = s
      BY <1>1, <2>5, <3>2 DEF LooksUp, Halts, Releases, StopEnds
    <3> QED BY <3>1, <3>2
  <2>7. i \in snapshot' \/ (spc'[Closer] = "marked" /\ target'[Closer] = i)
    <3>0. Closer \in Stoppers
      BY <1>0, HandlerTypes
    <3>1. CASE s # Closer
      BY <1>2, <2>1, <2>3, <3>0, <3>1
    <3>2. CASE s = Closer
      <4>1. ASSUME NEW id \in Ids, LooksUp(s, id), snapshot' \in {snapshot, snapshot \ {id}}
            PROVE  i \in snapshot' \/ (spc'[s] = "marked" /\ target'[s] = i)
        BY <2>1, <2>3, <3>2, <4>1 DEF LooksUp
      <4>2. CASE Halts(s) /\ snapshot' = snapshot
        BY <2>1, <2>3, <2>5, <3>2, <4>2
      <4>3. CASE (Releases(s) \/ StopEnds(s)) /\ snapshot' = snapshot
        BY <2>1, <2>3, <3>2, <4>3 DEF Releases, StopEnds
      <4> QED BY <1>1, <3>2, <4>1, <4>2, <4>3
    <3> QED BY <3>1, <3>2
  <2> QED BY <2>4, <2>6, <2>7
<1>9. SettledGone'
  BY DEF SettledGone, Running
<1> QED BY <1>4, <1>5, <1>7, <1>8, <1>9 DEF ShutdownInv

\* A process that is gone; if by the end of StopAll, then without what was to
\* be stopped.
LEMMA ShutdownGone ==
    ASSUME DrainInv, NEW how \in {"exited", "panicked", "killed"}, ProcessGone(how),
           how = "exited" => settled \cap containers = {}
    PROVE  ShutdownInv'
<1>1. \A c \in containers : c \in Ids /\ c # Nil /\ c <= calls
  BY DrainTypes, HandlerTypes
<1>2. Unstarted' /\ StopsInOrder' /\ SettledListed' /\ SettledGone'
  BY DEF ProcessGone, Unstarted, StopsInOrder, SettledListed, SettledGone
<1>3. Contained'
  BY <1>1 DEF ProcessGone, Contained
<1> QED BY <1>2, <1>3 DEF ShutdownInv

\* The signal: what is listed is all that was answered, and no Stop is between
\* its container and the table.
LEMMA ShutdownSignal ==
    ASSUME DrainInv, Signal
    PROVE  ShutdownInv'
<1>0. HandlerInv /\ ShutdownInv
  BY DrainTypes
<1>1. /\ daemon = "up" /\ daemon' = "draining" /\ snapshot' = Live
      /\ settled' = {i \in Live : Answered(i)}
      /\ UNCHANGED <<deployments, heap, containers, pc, dep, calls, spc, target>>
  BY DEF Signal, schedulerVars, vars, tableVars, workerVars, stopVars
<1>2. Unstarted' /\ Contained' /\ StopsInOrder' /\ SettledGone'
  BY <1>0, <1>1
  DEF ShutdownInv, Unstarted, Contained, StopsInOrder, SettledGone
<1>3. SettledListed'
  <2> SUFFICES ASSUME NEW i \in Live, Answered(i)
               PROVE  /\ Quiet(i)
                      /\ i \in containers =>
                           /\ deployments[i] = i /\ heap[i].container = i
                           /\ \A s \in Stoppers : target[s] = i => spc[s] # "stopped"
    BY <1>1 DEF SettledListed, Quiet
  <2>1. i \in Ids /\ i # Nil /\ deployments[i] = i
    BY <1>0, HandlerTypes DEF Live
  <2>2. i \in 1..calls
    BY <1>0, <2>1, HandlerTypes DEF TypeInv, WellFormed
  <2>3. Quiet(i)
    <3>1. ASSUME NEW w \in Workers, dep[w] = i PROVE FALSE
      <4>1. heap[dep[w]].id = i
        BY <1>0, <2>1, <2>2, <3>1, HandlerTypes DEF OwnRecord
      <4> QED BY <2>1, <3>1, <4>1 DEF Answered
    <3> QED BY <2>2, <3>1 DEF Quiet
  <2>4. i \in containers => heap[i].container = i
    BY <1>0, <2>1, <2>3 DEF ShutdownInv, Contained, Quiet
  <2>5. \A s \in Stoppers : i \in containers /\ target[s] = i => spc[s] # "stopped"
    BY <1>0, <1>1 DEF ShutdownInv, StopsInOrder
  <2> QED BY <2>1, <2>3, <2>4, <2>5
<1> QED BY <1>2, <1>3 DEF ShutdownInv

LEMMA ShutdownStep ==
    ASSUME Orderly
    PROVE  DrainInv /\ [ProviderNext]_providerVars => ShutdownInv'
<1> SUFFICES ASSUME DrainInv, [ProviderNext]_providerVars PROVE ShutdownInv'
  OBVIOUS
<1> USE DEF schedulerVars, procVars, tunnelVars, gatewayVars
<1>0. HandlerInv /\ ShutdownInv /\ DaemonTypes /\ Placed
  BY DrainTypes, HandlerTypes
<1>1. ASSUME NEW w \in Workers, CallSchedule(w) \/ DeployReplies(w) \/ RegisterWrites(w)
      PROVE  ShutdownInv'
  <2>1. Schedule(w) /\ Running /\ UNCHANGED <<daemon, snapshot, settled>>
    BY <1>1 DEF CallSchedule, DeployReplies, RegisterWrites, Schedule
  <2> QED BY <2>1, ShutdownSchedule
<1>2. ASSUME NEW s \in Handlers, CallStop(s) \/ StopReplies(s) PROVE ShutdownInv'
  <2>1. AnyStop(s) /\ s \in Stoppers /\ Running /\ UNCHANGED <<daemon, snapshot, settled>>
    BY <1>0, <1>2, StopsAreStops, HandlerTypes DEF HandlerInv, CallStop, StopReplies
  <2> QED BY <2>1, ShutdownStop DEF Orderly
<1>3. CASE StopAll
  <2>1. AnyStop(Closer) /\ Running /\ UNCHANGED <<daemon, settled>>
    BY <1>0, <1>3, StopsAreStops
    DEF HandlerInv, StopAll, StopAllNext, StopAllStops, Running
  <2>2. snapshot' # snapshot => \E id \in Ids :
          StopLookup(Closer, id) /\ snapshot' = snapshot \ {id}
    BY <1>0, <1>3 DEF StopAll, StopAllNext, StopAllStops, DaemonTypes
  <2> QED BY <1>0, <2>1, <2>2, ShutdownStop, HandlerTypes DEF Orderly
<1>4. CASE Signal
  BY <1>4, ShutdownSignal
<1>5. CASE Exit
  <2>1. ProcessGone("exited") /\ settled \cap containers = {}
    BY <1>0, <1>5 DEF Exit, ShutdownInv, SettledListed
  <2> QED BY <2>1, ShutdownGone
<1>6. ASSUME \/ \E w \in Workers : DeployPanics(w)
             \/ \E s \in Stoppers : TornRead(s)
             \/ Kill
      PROVE  ShutdownInv'
  BY <1>6, ShutdownGone DEF DeployPanics, TornRead, Kill
<1>7. CASE Start
  <2>1. /\ daemon' = "up"
        /\ UNCHANGED <<deployments, heap, containers, pc, dep, calls, spc, target>>
        /\ \A s \in Stoppers : spc[s] = "idle"
    BY <1>0, <1>7 DEF Start, Placed, vars, tableVars, workerVars, stopVars
  <2> QED
    BY <1>0, <2>1 DEF ShutdownInv, Unstarted, Contained, StopsInOrder,
       SettledListed, SettledGone
<1>8. ASSUME UNCHANGED <<deployments, heap, pc, dep, calls, spc, target, daemon,
                         snapshot, settled>>,
             containers' \subseteq containers
      PROVE  ShutdownInv'
  <2>1. Unstarted' /\ Contained' /\ SettledGone'
    BY <1>0, <1>8 DEF ShutdownInv, Unstarted, Contained, SettledGone
  <2>2. StopsInOrder'
    BY <1>0, <1>8 DEF ShutdownInv, StopsInOrder
  <2>3. SettledListed'
    BY <1>0, <1>8 DEF ShutdownInv, SettledListed, Quiet
  <2> QED BY <2>1, <2>2, <2>3 DEF ShutdownInv
<1>9. ASSUME NEW w \in Workers, Expose(w) PROVE ShutdownInv'
  BY <1>8, <1>9 DEF Expose, vars, tableVars, workerVars, stopVars
<1>10. ASSUME NEW s \in Handlers,
              UnregisterWrites(s) \/ \E id \in Ids : StopArrives(s, id)
       PROVE  ShutdownInv'
  BY <1>8, <1>10 DEF UnregisterWrites, StopArrives, vars, tableVars, workerVars, stopVars
<1>11. CASE Connection \/ ContainerEnds \/ UNCHANGED providerVars
  <2>1. CASE Connection
    <3>1. UNCHANGED <<vars, procVars>>
      BY <2>1 DEF Connection, Respond, TunnelBreaks, ReaderEnds, GatewayReads, GatewayCleanup
    <3> QED BY <1>8, <3>1 DEF vars, tableVars, workerVars, stopVars
  <2>2. CASE ContainerEnds \/ UNCHANGED providerVars
    BY <1>8, <2>2 DEF ContainerEnds, ContainerExits, providerVars,
       vars, tableVars, workerVars, stopVars
  <2> QED BY <1>11, <2>1, <2>2
<1> QED
  BY <1>1, <1>2, <1>3, <1>4, <1>5, <1>6, <1>7, <1>9, <1>10, <1>11
  DEF ProviderNext, handleDeploy, handleStop

-----------------------------------------------------------------------------
(* The theorems *)

LEMMA AlwaysPlaced == ProviderSpec => []PlacedInv
  BY PlacedInit, PlacedStep, PTL DEF ProviderSpec

LEMMA AlwaysAccounts == ProviderSpec => []AccountsInv
  BY AlwaysPlaced, AccountsInit, AccountsStep, PTL DEF ProviderSpec

LEMMA AlwaysHandler == ASSUME Answering PROVE ProviderSpec => []HandlerInv
<1>1. ProviderInit => OwnRecord /\ CallsInv
  BY CallsInit, OwnRecordInit DEF ProviderInit
<1>2. PlacedInv /\ AccountsInv /\ OwnRecord /\ CallsInv /\ [ProviderNext]_providerVars
        => OwnRecord' /\ CallsInv'
  BY OwnRecordStep, CallsStep DEF Answering, HandlerInv
<1>3. PlacedInv /\ OwnRecord /\ CallsInv => HandlerInv
  BY DEF HandlerInv
<1> QED BY <1>1, <1>2, <1>3, AlwaysPlaced, AlwaysAccounts, PTL DEF ProviderSpec

LEMMA AlwaysDrain == ASSUME Orderly PROVE ProviderSpec => []DrainInv
<1>1. ProviderSpec => []HandlerInv
  BY AlwaysHandler DEF Orderly, Answering
<1>2. HandlerInv /\ ShutdownInv /\ [ProviderNext]_providerVars => ShutdownInv'
  BY ShutdownStep DEF DrainInv
<1>3. HandlerInv /\ ShutdownInv => DrainInv
  BY DEF DrainInv
<1> QED BY <1>1, <1>2, <1>3, ShutdownInit, PTL DEF ProviderSpec

\* The daemon's types: the scheduler's, the handlers' places, and the sets
\* StopAll and the tunnel keep, whatever clients ask for and whenever the
\* process ends.
THEOREM ProviderTypeCorrect == ProviderSpec => []ProviderTypeOK
<1>1. PlacedInv => ProviderTypeOK
  BY DEF PlacedInv
<1> QED BY <1>1, AlwaysPlaced, PTL

\* The books of the scheduler balance in every incarnation of the process:
\* used resources are those of the deployments in the table, with StopAll
\* beside the handlers, early stops, and failing docker.
THEOREM ProviderAccountsHold == ProviderSpec => []ProviderAccounting
<1>1. AccountsInv => ProviderAccounting
  BY DEF AccountsInv, ProviderAccounting, Accounting, Balanced
<1> QED BY <1>1, AlwaysAccounts, PTL

\* While the connection holds, what the gateway will route to once it has read
\* what is on its way is in the table as long as the daemon is up, and not what
\* a handleStop is about to report stopped, when clients stop only what they
\* were answered for.
THEOREM RoutesStayLive == ASSUME Answering PROVE ProviderSpec => []RoutesLive
<1>1. ASSUME HandlerInv PROVE RoutesLive
  <2> SUFFICES ASSUME Running, link = "open"
               PROVE  /\ daemon = "up" => \A i \in Ids : FinallyRouted(i) => i \in Live
                      /\ \A s \in Handlers : spc[s] = "done" => ~FinallyRouted(asked[s])
    BY DEF RoutesLive
  <2>1. Placed /\ DaemonTypes /\ Requested /\ Routed
    BY <1>1, HandlerTypes DEF HandlerInv, CallsInv
  <2>2. ASSUME daemon = "up", NEW i \in Ids, FinallyRouted(i) PROVE i \in Live
    <3>1. deployments[i] = i /\ i # Nil
      BY <2>1, <2>2, Names DEF Routed
    <3> QED BY <3>1 DEF Live
  <2>3. ASSUME NEW s \in Handlers, spc[s] = "done" PROVE ~FinallyRouted(asked[s])
    <3>1. asked[s] # Nil /\ cmu # s
      BY <2>1, <2>3 DEF Placed
    <3>2. asked[s] \in Ids
      BY <2>1, <3>1, Names DEF DaemonTypes
    <3> QED BY <2>1, <3>1, <3>2 DEF Requested
  <2> QED BY <2>2, <2>3
<1> QED BY <1>1, AlwaysHandler, PTL

\* No handler brings the process down before a shutdown: handleDeploy answers
\* only with a container that has an ID, and a Stop reads no record that
\* Schedule is still writing, when clients stop only what they were answered
\* for.
THEOREM HandlersDoNotPanic == ASSUME Answering PROVE ProviderSpec => NoPanicWhileUp
<1>1. ASSUME HandlerInv, daemon = "up", ProviderNext, daemon' = "panicked"
      PROVE  FALSE
  <2>0. CallsInv
    BY <1>1 DEF HandlerInv
  <2>1. ASSUME NEW w \in Workers, DeployPanics(w) PROVE FALSE
    <3>1. pc[w] = "done" /\ heap[dep[w]].container = Nil
      BY <2>1 DEF DeployPanics
    <3>2. deployments[dep[w]] = dep[w]
      BY <1>1, <2>0, <3>1 DEF CallsInv, Entered
    <3>3. heap[dep[w]].container = dep[w] /\ dep[w] # Nil
      BY <1>1, <2>0, <3>1, <3>2, HandlerTypes DEF CallsInv, Named
    <3> QED BY <3>1, <3>3
  <2>2. ASSUME NEW s \in Stoppers, TornRead(s) PROVE FALSE
    <3>1. PICK w \in Workers : pc[w] = "started" /\ deployments[heap[dep[w]].id] = sdep[s]
      BY <2>2 DEF TornRead
    <3>2. spc[s] = "marked" /\ sdep[s] = target[s] /\ sdep[s] # Nil
      BY <1>1, <2>0, <2>2, HandlerTypes DEF TornRead, CallsInv, LookedUp, TypeInv, WellFormed
    <3>3. dep[w] \in Ids /\ heap[dep[w]].id = dep[w] /\ deployments[dep[w]] \in {Nil, dep[w]}
      BY <1>1, <3>1, HandlerTypes
    <3>4. dep[w] = target[s]
      BY <3>1, <3>2, <3>3
    <3> QED BY <1>1, <3>2, <3>4, StopsQuiet DEF Quiet
  <2>3. ASSUME NEW w \in Workers, handleDeploy(w), ~DeployPanics(w) PROVE FALSE
    BY <1>1, <2>3 DEF handleDeploy, CallSchedule, DeployReplies, Expose, RegisterWrites,
       procVars
  <2>4. ASSUME NEW s \in Handlers, handleStop(s) PROVE FALSE
    BY <1>1, <2>4 DEF handleStop, StopArrives, UnregisterWrites, CallStop, StopReplies,
       procVars
  <2>5. ASSUME Signal \/ StopAll \/ Exit \/ Kill \/ Start \/ Connection \/ ContainerEnds
        PROVE  FALSE
    BY <1>1, <2>5 DEF Signal, StopAll, StopAllNext, StopAllStops, Exit, Kill, Start,
       Connection, Respond, TunnelBreaks, ReaderEnds, GatewayReads, GatewayCleanup,
       ContainerEnds, ProcessGone, procVars
  <2> QED BY <1>1, <2>1, <2>2, <2>3, <2>4, <2>5 DEF ProviderNext
<1>2. HandlerInv /\ [ProviderNext]_providerVars
        => [daemon = "up" => daemon' # "panicked"]_providerVars
  BY <1>1
<1> QED BY <1>2, AlwaysHandler, PTL DEF ProviderSpec, NoPanicWhileUp

\* When the process has left StopAll, no container is left of a deployment
\* that had been answered when the signal came, whatever the handlers did
\* beside StopAll, if docker stops what it is told to and clients stop only
\* what they were answered for.
THEOREM ShutdownComplete == ASSUME Orderly PROVE ProviderSpec => []ShutdownStopsSettled
<1>1. ASSUME DrainInv PROVE ShutdownStopsSettled
  <2>1. \A c \in containers : heap[c].id = c
    BY <1>1, DrainTypes, HandlerTypes DEF OwnRecord
  <2> QED BY <1>1, <2>1, DrainTypes DEF ShutdownStopsSettled, ShutdownInv, SettledGone
<1> QED BY <1>1, AlwaysDrain, PTL
===============================================================================
