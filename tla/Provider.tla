------------------------------- MODULE Provider -------------------------------
(***************************************************************************)
(* The provider daemon: the protocol handlers of internal/handler around   *)
(* the scheduler, the routes the tunnel client registers with the gateway, *)
(* and the life of the process (cmd/peercomputed): start, shutdown through *)
(* StopAll, panic, kill and restart.                                       *)
(*                                                                         *)
(* A worker is the goroutine of a deploy stream, a stopper that of a stop  *)
(* stream, and Closer is the main goroutine, which calls StopAll once it   *)
(* is told to shut down.  The handlers keep serving while it does.         *)
(*                                                                         *)
(* Each process dials the gateway at most once.  The client's mutex is     *)
(* held while a message is written, and a write blocks while the Cap       *)
(* messages the connection buffers are unread.  Of the tunnel only what    *)
(* these handlers send and wait for is here, and of the gateway what it    *)
(* keeps for the connection of the last process; the client's own routes   *)
(* and the answers are in Tunnel, connections that overlap in Gateway.     *)
(***************************************************************************)
EXTENDS Scheduler, Sequences

CONSTANTS
    Closer,     \* the main goroutine
    MaxStarts,  \* bound: starts of the process
    Cap,        \* messages a connection buffers
    Free,       \* the holder of a mutex nobody holds
    Visitor     \* the goroutine that answers a visitor, as its holder

ASSUME ProviderAssumption ==
    /\ Closer \in Stoppers /\ Workers \cap Stoppers = {}
    /\ MaxStarts \in Nat \ {0} /\ Cap \in Nat \ {0}
    /\ Free \notin Workers \cup Stoppers /\ Visitor \notin Workers \cup Stoppers
    /\ Free # Visitor

Handlers == Stoppers \ {Closer}

VARIABLES
    daemon,     \* the process: up, draining (in StopAll), or gone
    starts,     \* starts of the process so far
    asked,      \* per handleStop goroutine: the request's DeploymentID
    snapshot,   \* StopAll: the listed IDs it has still to stop
    settled,    \* history: answered deployments in the table at the signal
    connected,  \* Client.connected
    cmu,        \* the holder of Client.mu, while it writes a message
    link,       \* the connection of the last process to the gateway
    wire,       \* the messages on it that the gateway has not read
    gwRoutes    \* the IDs TunnelManager.routes maps to it

schedulerVars == vars
procVars   == <<daemon, starts, snapshot, settled>>
gatewayVars == <<link, wire, gwRoutes>>
tunnelVars == <<connected, cmu, gatewayVars>>
providerVars == <<schedulerVars, procVars, asked, tunnelVars>>

Running == daemon \in {"up", "draining"}

Registers(id)   == [type |-> "register", id |-> id]
Unregisters(id) == [type |-> "unregister", id |-> id]
Messages == [type : {"register", "unregister"}, id : Ids]

ProviderTypeOK ==
    /\ TypeOK
    /\ daemon \in {"up", "draining", "exited", "panicked", "killed"}
    /\ starts \in 1..MaxStarts
    /\ asked \in [Handlers -> 0..MaxDeploys]
    /\ snapshot \subseteq Ids /\ settled \subseteq Ids
    /\ connected \in BOOLEAN /\ cmu \in Workers \cup Handlers \cup {Free, Visitor}
    /\ link \in {"none", "open", "broken", "closed"}
    /\ wire \in Seq(Messages) /\ Len(wire) <= Cap
    /\ gwRoutes \subseteq Ids

-----------------------------------------------------------------------------
(* handleDeploy *)

\* A step of the Schedule call, short of its success.  The first is taken for a
\* well-formed request of a trusted peer whose image the handler has pulled
\* itself, and any other is answered with an error before anything happens.
CallSchedule(w) ==
    /\ Running /\ pc[w] # "done" /\ Schedule(w)
    /\ UNCHANGED <<procVars, asked, tunnelVars>>

\* The connection, if there is one, is at its end: what it held arrives or is
\* lost, and the gateway has yet to notice.
Breaks ==
    /\ link' = IF link = "open" THEN "broken" ELSE link
    /\ wire' \in {wire, <<>>}
    /\ UNCHANGED gwRoutes

\* What is left of the daemon's memory when the process is gone: the IDs of
\* containers, which docker keeps as labels.
ProcessGone(how) ==
    /\ daemon' = how
    /\ deployments' = [i \in Ids |-> Nil]
    /\ usedCPU' = 0 /\ usedMemory' = 0
    /\ pc' = [w \in Workers |-> "idle"] /\ dep' = [w \in Workers |-> Nil]
    /\ spc' = [s \in Stoppers |-> "idle"]
    /\ target' = [s \in Stoppers |-> Nil] /\ sdep' = [s \in Stoppers |-> Nil]
    /\ asked' = [s \in Handlers |-> Nil]
    /\ snapshot' = {}
    /\ connected' = FALSE /\ cmu' = Free
    /\ Breaks
    /\ settled' = IF how = "exited" THEN settled ELSE {}
    /\ UNCHANGED <<heap, calls, lastId, containers, starts>>

\* result.ContainerID[:12] of an empty ID: the goroutine panics, and nothing
\* recovers it.
DeployPanics(w) ==
    /\ Running /\ pc[w] = "done" /\ heap[dep[w]].container = Nil
    /\ ProcessGone("panicked")

\* Nothing is to be exposed, or the client is not connected: the reply.
DeployReplies(w) ==
    /\ Running /\ pc[w] = "done" /\ heap[dep[w]].container # Nil
    /\ cmu = Free
    /\ ScheduleReturns(w)
    /\ UNCHANGED <<procVars, asked, tunnelVars>>

\* The client is connected and send takes its mutex.  The three sections of
\* the mutex, in IsConnected, RegisterDeployment and send, are one step: the
\* first two only read connected, and a connection lost since then is no more
\* to the last than one whose loss nobody has noticed.
Expose(w) ==
    /\ Running /\ pc[w] = "done" /\ heap[dep[w]].container # Nil
    /\ connected /\ cmu = Free
    /\ cmu' = w
    /\ UNCHANGED <<schedulerVars, procVars, asked, connected, gatewayVars>>

\* The write ends and the mutex is given back: the message is on the
\* connection, or the connection is gone and the message lost, with an error
\* or without one.
Written(m) ==
    /\ \/ /\ link = "open" /\ Len(wire) < Cap
          /\ wire' = Append(wire, m)
       \/ link # "open" /\ UNCHANGED wire
    /\ cmu' = Free
    /\ UNCHANGED <<connected, link, gwRoutes>>

\* The handler only logs an error, and replies.
RegisterWrites(w) ==
    /\ Running /\ cmu = w
    /\ Written(Registers(heap[dep[w]].id))
    /\ ScheduleReturns(w)
    /\ UNCHANGED <<procVars, asked>>

-----------------------------------------------------------------------------
(* handleStop *)

\* Mutant: the route is left to the gateway.
StopArrivesKeepsRoute(s, id) ==
    /\ Running /\ asked[s] = Nil /\ cmu = Free
    /\ asked' = [asked EXCEPT ![s] = id]
    /\ UNCHANGED <<schedulerVars, procVars, tunnelVars>>

\* The deployment is withdrawn, if the client is connected, before it is even
\* looked up.
StopArrives(s, id) ==
    /\ Running /\ asked[s] = Nil /\ cmu = Free
    /\ asked' = [asked EXCEPT ![s] = id]
    /\ cmu' = IF connected THEN s ELSE Free
    /\ UNCHANGED <<schedulerVars, procVars, connected, gatewayVars>>

\* handleStop does not look at the error of UnregisterDeployment.
UnregisterWrites(s) ==
    /\ Running /\ cmu = s
    /\ Written(Unregisters(asked[s]))
    /\ UNCHANGED <<schedulerVars, procVars, asked>>

\* A step of the Stop call, short of its return.
CallStop(s) ==
    /\ Running /\ asked[s] # Nil /\ cmu # s
    /\ StopLookup(s, asked[s]) \/ StopContainer(s) \/ StopRelease(s)
    /\ UNCHANGED <<procVars, asked, tunnelVars>>

StopReplies(s) ==
    /\ Running /\ StopReturns(s)
    /\ asked' = [asked EXCEPT ![s] = Nil]
    /\ UNCHANGED <<procVars, tunnelVars>>

\* Stop reads ContainerID outside the lock.  A read that overlaps the write of
\* Publish may see the new length with the old nil pointer, and faults.
TornRead(s) ==
    /\ Running /\ spc[s] = "marked"
    /\ \E w \in Workers :
          /\ pc[w] = "started"
          /\ deployments[heap[dep[w]].id] = sdep[s]
    /\ ProcessGone("panicked")

-----------------------------------------------------------------------------
(* The connection, and the gateway at its other end *)

\* The answer to a visitor, by sendResponse: the mutex is held until it is
\* written or lost.  The answers the gateway has not read take room on the
\* connection, too: how long the write takes is left open.
Respond ==
    /\ \/ Running /\ cmu = Free /\ gwRoutes # {} /\ cmu' = Visitor
       \/ cmu = Visitor /\ cmu' = Free
    /\ UNCHANGED <<schedulerVars, procVars, asked, connected, gatewayVars>>

\* External: the connection to the gateway breaks; it is never made again.
TunnelBreaks ==
    /\ link = "open" /\ Breaks
    /\ UNCHANGED <<schedulerVars, procVars, asked, connected, cmu>>

\* The client's reader notices, once it has the mutex.
ReaderEnds ==
    /\ connected /\ link # "open" /\ cmu = Free
    /\ connected' = FALSE
    /\ UNCHANGED <<schedulerVars, procVars, asked, cmu, gatewayVars>>

\* The gateway's reader takes the next message.
GatewayReads ==
    /\ wire # <<>>
    /\ wire' = Tail(wire)
    /\ LET m == Head(wire)
       IN  gwRoutes' = IF m.type = "register" THEN gwRoutes \cup {m.id}
                                              ELSE gwRoutes \ {m.id}
    /\ UNCHANGED <<schedulerVars, procVars, asked, connected, cmu, link>>

\* Only when it has read all that came does it see the end of the connection.
GatewayCleanup ==
    /\ link = "broken" /\ wire = <<>>
    /\ link' = "closed" /\ gwRoutes' = {}
    /\ UNCHANGED <<schedulerVars, procVars, asked, connected, cmu, wire>>

-----------------------------------------------------------------------------
(* The process *)

\* Mutant: what is listed is the containers' IDs, "" among them.
SignalListsContainers ==
    /\ daemon = "up"
    /\ daemon' = "draining"
    /\ snapshot' = {heap[deployments[i]].container : i \in Live}
    /\ settled' = {i \in Live : Answered(i)}
    /\ UNCHANGED <<schedulerVars, starts, asked, tunnelVars>>

\* Mutant: only the deployments that are not running yet are listed.
SignalSkipsRunning ==
    /\ daemon = "up"
    /\ daemon' = "draining"
    /\ snapshot' = {i \in Live : heap[deployments[i]].status # "running"}
    /\ settled' = {i \in Live : Answered(i)}
    /\ UNCHANGED <<schedulerVars, starts, asked, tunnelVars>>

\* The signal ends run's wait, and StopAll lists the table.
Signal ==
    /\ daemon = "up"
    /\ daemon' = "draining"
    /\ snapshot' = Live
    /\ settled' = {i \in Live : Answered(i)}
    /\ UNCHANGED <<schedulerVars, starts, asked, tunnelVars>>

\* Mutant: the loop does not advance past a deployment it cannot find.
StopAllRepeats ==
    /\ daemon = "draining"
    /\ \E id \in snapshot :
          /\ StopLookup(Closer, id)
          /\ snapshot' = IF deployments[id] = Nil THEN snapshot
                         ELSE snapshot \ {id}
    /\ UNCHANGED <<daemon, starts, settled, asked, tunnelVars>>

\* StopAll turns to the next listed ID, in whatever order the map gave.
StopAllNext ==
    /\ daemon = "draining"
    /\ \E id \in snapshot :
          /\ StopLookup(Closer, id)
          /\ snapshot' = snapshot \ {id}
    /\ UNCHANGED <<daemon, starts, settled, asked, tunnelVars>>

\* A further step of the Stop call StopAll is in; its error is collected.
StopAllStops ==
    /\ daemon = "draining"
    /\ StopContainer(Closer) \/ StopRelease(Closer) \/ StopReturns(Closer)
    /\ UNCHANGED <<procVars, asked, tunnelVars>>

\* StopAll is through and run returns.  Client.Close is deferred if the dial
\* succeeded: it waits for the mutex, whoever holds it.  Then the process ends
\* with whatever its goroutines were doing.
Exit ==
    /\ daemon = "draining" /\ snapshot = {} /\ spc[Closer] = "idle"
    /\ link = "none" \/ cmu = Free
    /\ ProcessGone("exited")

\* External: the process is killed.
Kill == Running /\ ProcessGone("killed")

\* A new process: an empty scheduler, one attempt to reach the gateway, and no
\* look at the containers docker still runs.  What the gateway still does
\* about the last connection is left to Gateway.
Start ==
    /\ ~Running /\ starts < MaxStarts
    /\ daemon' = "up" /\ starts' = starts + 1
    /\ connected' \in BOOLEAN
    /\ link' = IF connected' THEN "open" ELSE "none"
    /\ wire' = <<>> /\ gwRoutes' = {} /\ settled' = {}
    /\ UNCHANGED <<schedulerVars, snapshot, asked, cmu>>

ContainerEnds ==
    ContainerExits /\ UNCHANGED <<procVars, asked, tunnelVars>>

ProviderInit ==
    /\ Init
    /\ daemon = "up" /\ starts = 1
    /\ asked = [s \in Handlers |-> Nil]
    /\ snapshot = {} /\ settled = {}
    /\ connected \in BOOLEAN /\ cmu = Free
    /\ link = (IF connected THEN "open" ELSE "none")
    /\ wire = <<>> /\ gwRoutes = {}

handleDeploy(w) ==
    \/ CallSchedule(w) \/ DeployPanics(w) \/ DeployReplies(w)
    \/ Expose(w) \/ RegisterWrites(w)

handleStop(s) ==
    \/ \E id \in Ids : Stoppable(id) /\ StopArrives(s, id)
    \/ UnregisterWrites(s) \/ CallStop(s) \/ StopReplies(s)

StopAll == StopAllNext \/ StopAllStops

Connection ==
    \/ Respond \/ TunnelBreaks \/ ReaderEnds
    \/ GatewayReads \/ GatewayCleanup

ProviderNext ==
    \/ \E w \in Workers : handleDeploy(w)
    \/ \E s \in Handlers : handleStop(s)
    \/ \E s \in Stoppers : TornRead(s)
    \/ Signal \/ StopAll \/ Exit \/ Kill \/ Start
    \/ Connection \/ ContainerEnds

\* StopAll waits for docker, which it has given no deadline.
DockerAsked == spc[Closer] = "marked" /\ heap[sdep[Closer]].container # Nil

\* The main goroutine is scheduled, is not for ever passed over by a mutex that
\* is given back again and again (a Go mutex goes to its oldest waiter after a
\* millisecond), and libp2p's Close returns.  Nothing is assumed of docker,
\* of the connection or of the gateway.
ProviderSpec ==
    /\ ProviderInit /\ [][ProviderNext]_providerVars
    /\ WF_providerVars(StopAll /\ ~DockerAsked)
    /\ SF_providerVars(Exit)

-----------------------------------------------------------------------------
(* Properties *)

\* What the gateway routes to the process once it has read what is on its way.
FinallyRouted(i) ==
    \/ \E k \in 1..Len(wire) :
          /\ wire[k] = Registers(i)
          /\ \A j \in 1..Len(wire) : wire[j] = Unregisters(i) => j < k
    \/ i \in gwRoutes /\ \A j \in 1..Len(wire) : wire[j] # Unregisters(i)

\* As long as the connection holds, what the gateway routes to the daemon, or
\* will once it has read what is on its way, is in the table: the withdrawal
\* is sent before the deployment goes.  And when handleStop is about to report
\* success for an ID, during a shutdown as well, its withdrawal is behind
\* every registration of it.  (The gateway may route to the ID until it reads
\* the withdrawal, and after a break until it has cleaned up.)
RoutesLive ==
    Running /\ link = "open" =>
        /\ daemon = "up" => \A i \in Ids : FinallyRouted(i) => i \in Live
        /\ \A s \in Handlers : spc[s] = "done" => ~FinallyRouted(asked[s])

\* A handler can bring the process down only while StopAll runs beside it.
NoPanicWhileUp ==
    [][daemon = "up" => daemon' # "panicked"]_providerVars

\* A shutdown leaves no container of a deployment that had been answered when
\* the signal came, whatever the handlers did meanwhile.
ShutdownStopsSettled ==
    daemon = "exited" => \A c \in containers : heap[c].id \notin settled

\* A shutdown ends, unless docker never answers a stop or a send keeps the
\* client's mutex for ever: StopAll gives docker no deadline, and Close waits
\* behind a send to a gateway that does not read.
ShutdownEnds ==
    []<>~DockerAsked /\ []<>(cmu = Free) => (daemon = "draining" ~> daemon # "draining")

\* The accounts are right in every incarnation of the process.
ProviderAccounting == Running => Accounting
=============================================================================
