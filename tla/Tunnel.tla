-------------------------------- MODULE Tunnel --------------------------------
(***************************************************************************)
(* One reverse tunnel: the TunnelConn the gateway keeps for a connection   *)
(* (cmd/gateway/main.go) and the tunnel client of the provider at its      *)
(* other end (internal/tunnel/client.go).                                  *)
(*                                                                         *)
(* At the gateway run one goroutine per HTTP request and one reader; at    *)
(* the client one reader, one goroutine per forwarded request, one per     *)
(* deployment that is being exposed and one per call of handleStop, which  *)
(* withdraws whatever deployment it is asked about.  Each side has a mutex *)
(* that Send and send hold while they write, and a write blocks while the  *)
(* connection's buffers are full: Cap messages fit in each direction.      *)
(***************************************************************************)
EXTENDS Integers, Sequences, FiniteSets

CONSTANTS
    Reqs,       \* HTTP requests, each with its goroutines at both ends
    Deps,       \* deployments, each exposed at most once
    Stops,      \* calls of handleStop
    Cap,        \* messages the connection buffers in one direction
    Free,       \* the holder of a mutex nobody holds
    GwReader,   \* the gateway's reader, as the holder of a mutex
    None        \* no message, request or deployment

ASSUME TunnelAssumption ==
    /\ IsFiniteSet(Reqs) /\ Reqs \cap Deps = {}
    /\ Stops \cap (Reqs \cup Deps) = {}
    /\ Cap \in Nat \ {0}
    /\ Free \notin Reqs \cup Deps \cup Stops \cup {GwReader}
    /\ GwReader \notin Reqs /\ None \notin Reqs \cup Deps

Jobs == Reqs \cup Deps \cup Stops

RequestIDs == 1..Cardinality(Reqs)

VARIABLES
    open,               \* the TCP connection
    toClient, toGateway,\* what is on its way, in order
    gmu, cmu,           \* the holders of TunnelConn.mu and Client.mu
    tmRoutes,           \* TunnelManager.routes: the deployments routed here
    pending,            \* TunnelConn.pending: RequestID -> waiting request
    inbox,              \* the one-place response channel of each request
    rpc, rdep, rid,     \* per request: place in Request, deployment, ID
    lastRid,            \* the latest RequestID generated
    gpc, gmsg,          \* the gateway's reader and the message it handles
    connected, routes,  \* Client.connected, Client.routes
    cpc,                \* the client's reader
    job,                \* per request, deployment and stop: its client goroutine
    status,             \* per request: the status its handler answers with
    target,             \* per stop: the deployment it was asked about
    raced               \* history: the deployments that were being registered
                        \*   while they were being withdrawn

connVars == <<open, toClient, toGateway>>
gatewayVars == <<gmu, tmRoutes, pending, inbox, rpc, rdep, rid, lastRid, gpc, gmsg>>
clientVars == <<cmu, connected, routes, cpc, job, status, target, raced>>
vars == <<connVars, gatewayVars, clientVars>>

Ended == {"notfound", "answered", "failed"}
Statuses == {200, 404, 502}

\* The TunnelMessages.  A response names the request it answers only by its
\* RequestID; `from' is the request whose handler wrote it.
RegisterMsg(d)   == [type |-> "register", dep |-> d]
UnregisterMsg(d) == [type |-> "unregister", dep |-> d]
ConfirmMsg(d)    == [type |-> "registered", dep |-> d]
RequestMsg(r)    == [type |-> "request", from |-> r]
ResponseMsg(r)   == [type |-> "response", from |-> r, code |-> status[r]]

Messages ==
    [type : {"register", "unregister", "registered"}, dep : Deps]
      \cup [type : {"request"}, from : Reqs]
      \cup [type : {"response"}, from : Reqs, code : Statuses]

TunnelTypeOK ==
    /\ open \in BOOLEAN /\ connected \in BOOLEAN
    /\ toClient \in Seq(Messages) /\ Len(toClient) <= Cap
    /\ toGateway \in Seq(Messages) /\ Len(toGateway) <= Cap
    /\ gmu \in Reqs \cup {GwReader, Free}
    /\ cmu \in Jobs \cup {Free}
    /\ tmRoutes \subseteq Deps /\ routes \subseteq Deps /\ raced \subseteq Deps
    /\ target \in [Stops -> Deps \cup {None}]
    /\ pending \in [RequestIDs -> Reqs \cup {None}]
    /\ inbox \in [Reqs -> Messages \cup {None}]
    /\ rpc \in [Reqs -> {"new", "routed", "sending", "writing", "waiting",
                         "dropping"} \cup Ended]
    /\ rdep \in [Reqs -> Deps \cup {None}]
    /\ rid \in [Reqs -> 0..Cardinality(Reqs)]
    /\ lastRid \in 0..Cardinality(Reqs)
    /\ gpc \in {"reading", "confirm", "confirming", "deliver", "closed"}
    /\ gmsg \in Messages \cup {None}
    /\ cpc \in {"lock", "read", "closed"}
    /\ job \in [Jobs -> {"none", "lookup", "forward", "send",
                                   "writing", "sent", "exposed", "gone"}]
    /\ status \in [Reqs -> Statuses]

-----------------------------------------------------------------------------
(* ServeHTTP and Request at the gateway *)

\* generateRequestID: the clock reading is new, or repeats the last one.
NewRequestIDs == {lastRid + 1} \cup ({lastRid} \ {0})

\* GetTunnel under the manager's lock, then a request with an ID of its own.
Route(r) ==
    /\ rpc[r] = "new"
    /\ \E d \in Deps :
         \/ /\ d \in tmRoutes
            /\ rdep' = [rdep EXCEPT ![r] = d]
            /\ \E i \in NewRequestIDs :
                  rid' = [rid EXCEPT ![r] = i] /\ lastRid' = i
            /\ rpc' = [rpc EXCEPT ![r] = "routed"]
         \/ /\ d \notin tmRoutes
            /\ rpc' = [rpc EXCEPT ![r] = "notfound"]
            /\ UNCHANGED <<rdep, rid, lastRid>>
    /\ UNCHANGED <<connVars, clientVars, gmu, tmRoutes, pending, inbox, gpc, gmsg>>

SetPending(r) ==
    /\ rpc[r] = "routed" /\ gmu = Free
    /\ pending' = [pending EXCEPT ![rid[r]] = r]
    /\ rpc' = [rpc EXCEPT ![r] = "sending"]
    /\ UNCHANGED <<connVars, clientVars, gmu, tmRoutes, inbox, rdep, rid,
                   lastRid, gpc, gmsg>>

\* Send takes the mutex ...
SendLocks(r) ==
    /\ rpc[r] = "sending" /\ gmu = Free
    /\ gmu' = r
    /\ rpc' = [rpc EXCEPT ![r] = "writing"]
    /\ UNCHANGED <<connVars, clientVars, tmRoutes, pending, inbox, rdep, rid,
                   lastRid, gpc, gmsg>>

\* ... and holds it until the message is in the connection's buffers.  On a
\* broken connection the write fails or is silently lost.
SendWrites(r) ==
    /\ rpc[r] = "writing"
    /\ \/ /\ open /\ Len(toClient) < Cap
          /\ toClient' = Append(toClient, RequestMsg(r))
          /\ rpc' = [rpc EXCEPT ![r] = "waiting"]
       \/ /\ ~open
          /\ rpc' \in {[rpc EXCEPT ![r] = "waiting"], [rpc EXCEPT ![r] = "dropping"]}
          /\ UNCHANGED toClient
    /\ gmu' = Free
    /\ UNCHANGED <<open, toGateway, clientVars, tmRoutes, pending, inbox, rdep,
                   rid, lastRid, gpc, gmsg>>

Receive(r) ==
    /\ rpc[r] = "waiting" /\ inbox[r] # None
    /\ rpc' = [rpc EXCEPT ![r] = "answered"]
    /\ UNCHANGED <<connVars, clientVars, gmu, tmRoutes, pending, inbox, rdep,
                   rid, lastRid, gpc, gmsg>>

\* Mutant: no timer on a connection that is gone.
TimesOutWhileOpen(r) ==
    /\ rpc[r] = "waiting" /\ open
    /\ rpc' = [rpc EXCEPT ![r] = "dropping"]
    /\ UNCHANGED <<connVars, clientVars, gmu, tmRoutes, pending, inbox, rdep,
                   rid, lastRid, gpc, gmsg>>

\* The 30 seconds are over; they only begin to run after the send.
TimesOut(r) ==
    /\ rpc[r] = "waiting"
    /\ rpc' = [rpc EXCEPT ![r] = "dropping"]
    /\ UNCHANGED <<connVars, clientVars, gmu, tmRoutes, pending, inbox, rdep,
                   rid, lastRid, gpc, gmsg>>

\* Mutant: a failed request leaves its channel behind.
DropPendingForgotten(r) ==
    /\ rpc[r] = "dropping" /\ gmu = Free
    /\ rpc' = [rpc EXCEPT ![r] = "failed"]
    /\ UNCHANGED <<connVars, clientVars, gmu, tmRoutes, pending, inbox, rdep,
                   rid, lastRid, gpc, gmsg>>

\* After a failed send or a timeout: whatever waits under the ID is removed.
DropPending(r) ==
    /\ rpc[r] = "dropping" /\ gmu = Free
    /\ pending' = [pending EXCEPT ![rid[r]] = None]
    /\ rpc' = [rpc EXCEPT ![r] = "failed"]
    /\ UNCHANGED <<connVars, clientVars, gmu, tmRoutes, inbox, rdep, rid,
                   lastRid, gpc, gmsg>>

-----------------------------------------------------------------------------
(* handleTunnelConn: the gateway's reader *)

\* The table changes before the confirmation is sent.
ReadRegister ==
    /\ gpc = "reading" /\ toGateway # <<>> /\ Head(toGateway).type = "register"
    /\ tmRoutes' = tmRoutes \cup {Head(toGateway).dep}
    /\ gmsg' = Head(toGateway) /\ toGateway' = Tail(toGateway)
    /\ gpc' = "confirm"
    /\ UNCHANGED <<open, toClient, clientVars, gmu, pending, inbox, rpc, rdep,
                   rid, lastRid>>

ConfirmLocks ==
    /\ gpc = "confirm" /\ gmu = Free
    /\ gmu' = GwReader /\ gpc' = "confirming"
    /\ UNCHANGED <<connVars, clientVars, tmRoutes, pending, inbox, rpc, rdep,
                   rid, lastRid, gmsg>>

ConfirmWrites ==
    /\ gpc = "confirming"
    /\ \/ /\ open /\ Len(toClient) < Cap
          /\ toClient' = Append(toClient, ConfirmMsg(gmsg.dep))
       \/ ~open /\ UNCHANGED toClient
    /\ gmu' = Free /\ gmsg' = None /\ gpc' = "reading"
    /\ UNCHANGED <<open, toGateway, clientVars, tmRoutes, pending, inbox, rpc,
                   rdep, rid, lastRid>>

\* Mutant: the route stays.
ReadUnregisterKeeps ==
    /\ gpc = "reading" /\ toGateway # <<>> /\ Head(toGateway).type = "unregister"
    /\ toGateway' = Tail(toGateway)
    /\ UNCHANGED <<open, toClient, clientVars, gmu, tmRoutes, pending, inbox,
                   rpc, rdep, rid, lastRid, gpc, gmsg>>

ReadUnregister ==
    /\ gpc = "reading" /\ toGateway # <<>> /\ Head(toGateway).type = "unregister"
    /\ tmRoutes' = tmRoutes \ {Head(toGateway).dep}
    /\ toGateway' = Tail(toGateway)
    /\ UNCHANGED <<open, toClient, clientVars, gmu, pending, inbox, rpc, rdep,
                   rid, lastRid, gpc, gmsg>>

ReadResponse ==
    /\ gpc = "reading" /\ toGateway # <<>> /\ Head(toGateway).type = "response"
    /\ gmsg' = Head(toGateway) /\ toGateway' = Tail(toGateway)
    /\ gpc' = "deliver"
    /\ UNCHANGED <<open, toClient, clientVars, gmu, tmRoutes, pending, inbox,
                   rpc, rdep, rid, lastRid>>

\* Mutant: the entry is not removed with the delivery.
DeliverKeepsPending ==
    /\ gpc = "deliver" /\ gmu = Free
    /\ LET to == pending[rid[gmsg.from]]
       IN  IF to = None THEN UNCHANGED inbox
           ELSE inbox[to] = None /\ inbox' = [inbox EXCEPT ![to] = gmsg]
    /\ gmsg' = None /\ gpc' = "reading"
    /\ UNCHANGED <<connVars, clientVars, gmu, tmRoutes, pending, rpc, rdep, rid,
                   lastRid>>

\* Mutant: responses are taken to come in the order of the requests.
DeliverInOrder ==
    /\ gpc = "deliver" /\ gmu = Free
    /\ LET waiting == {i \in RequestIDs : pending[i] # None}
           i == CHOOSE j \in waiting : \A k \in waiting : j <= k
       IN  IF waiting = {} THEN UNCHANGED <<pending, inbox>>
           ELSE /\ inbox[pending[i]] = None
                /\ inbox' = [inbox EXCEPT ![pending[i]] = gmsg]
                /\ pending' = [pending EXCEPT ![i] = None]
    /\ gmsg' = None /\ gpc' = "reading"
    /\ UNCHANGED <<connVars, clientVars, gmu, tmRoutes, rpc, rdep, rid, lastRid>>

\* Under the mutex, the response goes to the channel that waits under its
\* RequestID, if any.  A full channel would block the reader here.
Deliver ==
    /\ gpc = "deliver" /\ gmu = Free
    /\ LET i == rid[gmsg.from] to == pending[i]
       IN  IF to = None THEN UNCHANGED <<pending, inbox>>
           ELSE /\ inbox[to] = None
                /\ inbox' = [inbox EXCEPT ![to] = gmsg]
                /\ pending' = [pending EXCEPT ![i] = None]
    /\ gmsg' = None /\ gpc' = "reading"
    /\ UNCHANGED <<connVars, clientVars, gmu, tmRoutes, rpc, rdep, rid, lastRid>>

\* Mutant: the routes of a lost connection stay.
CleanupKeepsRoutes ==
    /\ gpc = "reading" /\ toGateway = <<>> /\ ~open
    /\ gpc' = "closed"
    /\ UNCHANGED <<connVars, clientVars, gmu, tmRoutes, pending, inbox, rpc,
                   rdep, rid, lastRid, gmsg>>

\* The read fails: the connection's routes are dropped.  Requests that wait
\* for an answer are left to their timeouts.
Cleanup ==
    /\ gpc = "reading" /\ toGateway = <<>> /\ ~open
    /\ tmRoutes' = {} /\ gpc' = "closed"
    /\ UNCHANGED <<connVars, clientVars, gmu, pending, inbox, rpc, rdep, rid,
                   lastRid, gmsg>>

-----------------------------------------------------------------------------
(* The client's reader, handleMessages *)

\* It takes the mutex before every read.
ReaderLocks ==
    /\ cpc = "lock" /\ cmu = Free
    /\ cpc' = "read"
    /\ UNCHANGED <<connVars, gatewayVars, cmu, connected, routes, job, status, target, raced>>

\* A request gets a goroutine; a confirmation is only logged.
ReaderReads ==
    /\ cpc = "read" /\ toClient # <<>>
    /\ LET m == Head(toClient)
       IN  job' = IF m.type = "request" THEN [job EXCEPT ![m.from] = "lookup"]
                  ELSE job
    /\ toClient' = Tail(toClient) /\ cpc' = "lock"
    /\ UNCHANGED <<open, toGateway, gatewayVars, cmu, connected, routes, status, target, raced>>

\* The read fails: the client is disconnected, and its reader returns.
ReaderEnds ==
    /\ cpc = "read" /\ toClient = <<>> /\ ~open /\ cmu = Free
    /\ connected' = FALSE /\ cpc' = "closed"
    /\ UNCHANGED <<connVars, gatewayVars, cmu, routes, job, status, target, raced>>

-----------------------------------------------------------------------------
(* handleRequest, RegisterDeployment and UnregisterDeployment *)

\* The port of the deployment is looked up, or the answer is 404.
Lookup(r) ==
    /\ job[r] = "lookup" /\ cmu = Free
    /\ IF rdep[r] \in routes
       THEN job' = [job EXCEPT ![r] = "forward"] /\ UNCHANGED status
       ELSE /\ job' = [job EXCEPT ![r] = "send"]
            /\ status' = [status EXCEPT ![r] = 404]
    /\ UNCHANGED <<connVars, gatewayVars, cmu, connected, routes, cpc, target, raced>>

\* Mutant: the answer for an unreachable container is built without a code.
ForwardNoStatus(r) ==
    /\ job[r] = "forward"
    /\ status' \in {[status EXCEPT ![r] = 200], [status EXCEPT ![r] = 0]}
    /\ job' = [job EXCEPT ![r] = "send"]
    /\ UNCHANGED <<connVars, gatewayVars, cmu, connected, routes, cpc, target, raced>>

\* The container answers, or cannot be reached within 30 seconds.
Forward(r) ==
    /\ job[r] = "forward"
    /\ status' \in {[status EXCEPT ![r] = 200], [status EXCEPT ![r] = 502]}
    /\ job' = [job EXCEPT ![r] = "send"]
    /\ UNCHANGED <<connVars, gatewayVars, cmu, connected, routes, cpc, target, raced>>

Busy == {"send", "writing", "sent"}

\* The deployments a stop is being carried out for.
Withdrawing == {target[s] : s \in {u \in Stops : job[u] \in Busy}}

\* RegisterDeployment checks the connection; without one nothing is exposed.
RegisterBegins(d) ==
    /\ job[d] = "none" /\ cmu = Free
    /\ job' = [job EXCEPT ![d] = IF connected THEN "send" ELSE "gone"]
    /\ raced' = IF d \in Withdrawing THEN raced \cup {d} ELSE raced
    /\ UNCHANGED <<connVars, gatewayVars, cmu, connected, routes, cpc, status, target>>

\* handleStop withdraws the deployment it is asked about, whatever has become
\* of it, if the client believes it is connected.
UnregisterBegins(s) ==
    /\ job[s] = "none" /\ cmu = Free
    /\ job' = [job EXCEPT ![s] = IF connected THEN "send" ELSE "gone"]
    /\ \E d \in Deps :
         /\ target' = [target EXCEPT ![s] = d]
         /\ raced' = IF job[d] \in Busy THEN raced \cup {d} ELSE raced
    /\ UNCHANGED <<connVars, gatewayVars, cmu, connected, routes, cpc, status>>

\* send takes the mutex ...
ClientLocks(p) ==
    /\ job[p] = "send" /\ cmu = Free
    /\ cmu' = p
    /\ job' = [job EXCEPT ![p] = "writing"]
    /\ UNCHANGED <<connVars, gatewayVars, connected, routes, cpc, status, target, raced>>

OutMsg(p) ==
    IF p \in Reqs THEN ResponseMsg(p)
    ELSE IF p \in Deps THEN RegisterMsg(p) ELSE UnregisterMsg(target[p])

\* ... and holds it until the message is in the connection's buffers.  On a
\* broken one the write fails or is silently lost; sendResponse ignores which.
\* A status that has been sent is forgotten.
ClientWrites(p) ==
    /\ job[p] = "writing"
    /\ \/ /\ open /\ Len(toGateway) < Cap
          /\ toGateway' = Append(toGateway, OutMsg(p))
          /\ job' = [job EXCEPT ![p] = "sent"]
       \/ /\ ~open
          /\ \E result \in {"sent"} \cup (IF p \in Reqs THEN {} ELSE {"gone"}) :
                job' = [job EXCEPT ![p] = result]
          /\ UNCHANGED toGateway
    /\ cmu' = Free
    /\ status' = [r \in Reqs |-> IF r = p THEN 200 ELSE status[r]]
    /\ UNCHANGED <<open, toClient, gatewayVars, connected, routes, cpc, target, raced>>

\* Mutant: the client keeps no route of its own.
SetRouteForgotten(d) ==
    /\ job[d] = "sent" /\ cmu = Free
    /\ job' = [job EXCEPT ![d] = "exposed"]
    /\ UNCHANGED <<connVars, gatewayVars, cmu, connected, routes, cpc, status,
                   target, raced>>

\* The client's own route follows the message it has sent, whatever was
\* withdrawn meanwhile.
SetRoute(d) ==
    /\ job[d] = "sent" /\ cmu = Free
    /\ routes' = routes \cup {d}
    /\ job' = [job EXCEPT ![d] = "exposed"]
    /\ UNCHANGED <<connVars, gatewayVars, cmu, connected, cpc, status, target, raced>>

\* So does its removal.  After a send that failed the route stays, and
\* handleStop goes on all the same.
RemoveRoute(s) ==
    /\ job[s] = "sent" /\ cmu = Free
    /\ routes' = routes \ {target[s]}
    /\ job' = [job EXCEPT ![s] = "gone"]
    /\ UNCHANGED <<connVars, gatewayVars, cmu, connected, cpc, status, target, raced>>

-----------------------------------------------------------------------------
\* External: the connection breaks; what it held arrives or is lost.
Breaks ==
    /\ open /\ open' = FALSE
    /\ toClient' \in {toClient, <<>>} /\ toGateway' \in {toGateway, <<>>}
    /\ UNCHANGED <<gatewayVars, clientVars>>

\* Client.Close, deferred by the daemon's run.  It needs the mutex, which a
\* send that cannot write holds.
Close ==
    /\ connected /\ cmu = Free
    /\ connected' = FALSE /\ open' = FALSE
    /\ toClient' = <<>> /\ toGateway' \in {toGateway, <<>>}
    /\ UNCHANGED <<gatewayVars, cmu, routes, cpc, job, status, target, raced>>

TunnelInit ==
    /\ open = TRUE /\ toClient = <<>> /\ toGateway = <<>>
    /\ gmu = Free /\ cmu = Free
    /\ tmRoutes = {} /\ routes = {}
    /\ target = [s \in Stops |-> None] /\ raced = {}
    /\ pending = [i \in RequestIDs |-> None] /\ inbox = [r \in Reqs |-> None]
    /\ rpc = [r \in Reqs |-> "new"] /\ rdep = [r \in Reqs |-> None]
    /\ rid = [r \in Reqs |-> 0] /\ lastRid = 0
    /\ gpc = "reading" /\ gmsg = None /\ cpc = "lock"
    /\ connected = TRUE
    /\ job = [p \in Jobs |-> "none"]
    /\ status = [r \in Reqs |-> 200]

Request(r) ==
    \/ SetPending(r) \/ SendLocks(r) \/ SendWrites(r)
    \/ Receive(r) \/ TimesOut(r) \/ DropPending(r)

GatewayReader ==
    \/ ReadRegister \/ ConfirmLocks \/ ConfirmWrites
    \/ ReadUnregister \/ ReadResponse \/ Deliver \/ Cleanup

ClientReader == ReaderLocks \/ ReaderReads \/ ReaderEnds

handleRequest(r) == Lookup(r) \/ Forward(r) \/ ClientLocks(r) \/ ClientWrites(r)

\* The steps of RegisterDeployment and UnregisterDeployment after their calls.
Exposure(d) == ClientLocks(d) \/ ClientWrites(d) \/ SetRoute(d)
Withdrawal(s) == ClientLocks(s) \/ ClientWrites(s) \/ RemoveRoute(s)

TunnelNext ==
    \/ \E r \in Reqs : Route(r) \/ Request(r) \/ handleRequest(r)
    \/ \E d \in Deps : RegisterBegins(d) \/ Exposure(d)
    \/ \E s \in Stops : UnregisterBegins(s) \/ Withdrawal(s)
    \/ GatewayReader \/ ClientReader \/ Breaks \/ Close

\* Goroutines are scheduled, timers fire, and a container answers or the
\* forwarding client's timeout stands in for it.  Whether a request arrives,
\* a deployment comes or goes and the connection breaks is left open.
TunnelFairness ==
    /\ \A r \in Reqs : WF_vars(Request(r)) /\ WF_vars(handleRequest(r))
    /\ \A d \in Deps : WF_vars(Exposure(d))
    /\ \A s \in Stops : WF_vars(Withdrawal(s))
    /\ WF_vars(GatewayReader) /\ WF_vars(ClientReader)

TunnelSpec == TunnelInit /\ [][TunnelNext]_vars /\ TunnelFairness

-----------------------------------------------------------------------------
(* Properties *)

\* An HTTP request is answered with the response of its own handler, unless
\* another one read the same clock value: late answers, timeouts and lost
\* messages alone never cross two requests over.
RightAnswer ==
    \A r \in Reqs :
        rpc[r] = "answered" /\ (\A q \in Reqs \ {r} : rid[q] # rid[r])
            => inbox[r].from = r

\* The reader never blocks on a response channel: one that is registered
\* under an ID is empty.
ChannelHasRoom ==
    \A i \in RequestIDs : pending[i] # None => inbox[pending[i]] = None

\* A request that has ended, answered or failed, has left nothing behind in
\* the pending table.
NoPendingLeft ==
    \A r \in Reqs, i \in RequestIDs : rpc[r] \in Ended => pending[i] # r

\* With nothing under way, the gateway routes to exactly the deployments the
\* client forwards for, unless a deployment was withdrawn while it was being
\* registered: send gives the mutex back before the client's own table is
\* changed, and then the two tables may have seen the two calls in different
\* orders for good.
RoutesAgree ==
    /\ open /\ toGateway = <<>> /\ gpc = "reading"
    /\ \A p \in Deps \cup Stops : job[p] \notin Busy
    => \A d \in Deps \ raced : d \in tmRoutes <=> d \in routes

\* A request is answered 404 by a client only if it came before the
\* registration was finished, or if a stop was asked for.
NotFoundIsTrue ==
    [][\A r \in Reqs :
          job[r] = "lookup" /\ status'[r] = 404 =>
            \/ job[rdep[r]] \in {"sent"}
            \/ \E s \in Stops : target[s] = rdep[r]]_vars

\* After the connection is lost nothing is routed to it for long, and the
\* client learns of it: from then on no deployment is told that it is exposed,
\* since nothing connects again.
LostConnectionCleared ==
    ~open ~> (tmRoutes = {} /\ gpc = "closed" /\ cpc = "closed" /\ ~connected)

\* Both sides are stuck: each mutex is held by a sender whose direction is
\* full, and each reader is that sender or waits for the mutex.
Wedged ==
    /\ open /\ gmu # Free /\ cmu # Free
    /\ Len(toClient) = Cap /\ Len(toGateway) = Cap
    /\ cpc = "lock" /\ gpc \in {"confirm", "confirming", "deliver"}

\* A request that was routed is answered or fails, whatever is lost, unless
\* the tunnel wedges: nothing else keeps a visitor waiting.
RequestEndsOrWedged ==
    \A r \in Reqs : rpc[r] = "routed" ~> (rpc[r] \in Ended \/ Wedged)

=============================================================================
