------------------------------- MODULE Gateway -------------------------------
(***************************************************************************)
(* The gateway's TunnelManager (cmd/gateway/main.go): two tables shared by *)
(* the readers of all tunnel connections, the visitors who are routed by   *)
(* them, and the shutdown of the process.                                  *)
(*                                                                         *)
(* A provider has one connection at a time, but the gateway may go on      *)
(* reading an old one long after the provider has lost it and dialled      *)
(* again, so two readers may work for one peer.  Every reader changes the  *)
(* tables in one section of the manager's mutex per message, and only it   *)
(* touches the Routes and the PeerID of its connection.                    *)
(*                                                                         *)
(* What happens on one connection (mutexes, buffers, answers) is module    *)
(* Tunnel's; here a connection carries registrations one way.  A           *)
(* connection that is gone and that nobody refers to may be used again as  *)
(* the name of a new one.                                                  *)
(***************************************************************************)
EXTENDS Integers, Sequences

CONSTANTS
    Peers,      \* providers
    Conns,      \* names of connections
    Deps,       \* deployment IDs
    Visitors,   \* HTTP requests at once
    Cap,        \* bound: messages on their way on one connection
    None        \* nobody, no connection

ASSUME GatewayAssumption ==
    None \notin Peers \cup Conns /\ Cap \in Nat \ {0}

VARIABLES
    dialler,    \* per connection: the provider at its other end
    open,       \* per connection: the provider's end is there
    sent,       \* per connection: what the provider sent, not yet read
    reading,    \* the connections whose handleTunnelConn is in its loop
    PeerID,     \* TunnelConn.PeerID
    Routes,     \* TunnelConn.Routes, the deployments
    tunnels,    \* TunnelManager.tunnels
    routes,     \* TunnelManager.routes
    visit,      \* per visitor: the connection its request was routed to
    phase,      \* where the gateway's run is
    crossed,    \* history: IDs that messages of two connections disputed
    overlapped  \* history: peers that registered over two connections

connVars == <<dialler, open, sent>>
tableVars == <<reading, PeerID, Routes, tunnels, routes, crossed, overlapped>>
vars == <<connVars, tableVars, visit, phase>>

Messages == [type : {"register", "unregister"}, dep : Deps, peer : Peers]

GatewayTypeOK ==
    /\ dialler \in [Conns -> Peers \cup {None}]
    /\ open \in [Conns -> BOOLEAN]
    /\ sent \in [Conns -> Seq(Messages)]
    /\ \A c \in Conns : Len(sent[c]) <= Cap
    /\ reading \subseteq Conns
    /\ PeerID \in [Conns -> Peers \cup {None}]
    /\ Routes \in [Conns -> SUBSET Deps]
    /\ tunnels \in [Peers -> Conns \cup {None}]
    /\ routes \in [Deps -> Conns \cup {None}]
    /\ visit \in [Visitors -> Conns \cup {None}]
    /\ phase \in {"serving", "draining", "drainingTLS", "drained", "closed",
                  "exited"}
    /\ crossed \subseteq Deps /\ overlapped \subseteq Peers

-----------------------------------------------------------------------------
(* The providers' side *)

\* Client.Connect of a daemon that starts, and the accept loop: the new
\* connection gets a TunnelConn and a reader.
Dial(p, c) ==
    /\ phase \in {"serving", "draining", "drainingTLS", "drained"}
    /\ c \notin reading /\ \A v \in Visitors : visit[v] # c
    /\ \A k \in Conns : dialler[k] = p => ~open[k]
    /\ dialler' = [dialler EXCEPT ![c] = p]
    /\ open' = [open EXCEPT ![c] = TRUE]
    /\ sent' = [sent EXCEPT ![c] = <<>>]
    /\ reading' = reading \cup {c}
    /\ UNCHANGED <<PeerID, Routes, tunnels, routes, crossed, overlapped, visit,
                   phase>>

\* Mutant: the message does not say who sends it.
SendsAnonymous(c, type, d) ==
    /\ open[c] /\ Len(sent[c]) < Cap /\ phase # "exited"
    /\ sent' = [sent EXCEPT ![c] =
          Append(@, [type |-> type, dep |-> d, peer |-> None])]
    /\ UNCHANGED <<dialler, open, tableVars, visit, phase>>

\* RegisterDeployment and UnregisterDeployment.  An ID is a clock reading, so
\* two providers may register the same one, and handleStop withdraws whatever
\* ID it is asked about, the provider's own or not.
Sends(c, type, d) ==
    /\ open[c] /\ Len(sent[c]) < Cap /\ phase # "exited"
    /\ sent' = [sent EXCEPT ![c] =
          Append(@, [type |-> type, dep |-> d, peer |-> dialler[c]])]
    /\ UNCHANGED <<dialler, open, tableVars, visit, phase>>

\* External: the provider ends, or the network loses the connection.
Breaks(c) ==
    /\ open[c]
    /\ open' = [open EXCEPT ![c] = FALSE]
    /\ UNCHANGED <<dialler, sent, tableVars, visit, phase>>

\* External: of what was on its way when the connection broke or was closed,
\* the last message is lost.
Loses(c) ==
    /\ ~open[c] /\ sent[c] # <<>>
    /\ sent' = [sent EXCEPT ![c] = SubSeq(@, 1, Len(@) - 1)]
    /\ UNCHANGED <<dialler, open, tableVars, visit, phase>>

-----------------------------------------------------------------------------
(* handleTunnelConn *)

\* The other connections that are read and work for peer p, or route d.
OthersRegistered(c, p) == {k \in reading \ {c} : PeerID[k] = p}
OthersRouting(c, d) == {k \in reading \ {c} : d \in Routes[k]}

Reads(c, type) ==
    /\ c \in reading /\ sent[c] # <<>> /\ Head(sent[c]).type = type
    /\ sent' = [sent EXCEPT ![c] = Tail(@)]

\* The connection takes both entries, whoever held them.  The confirmation is
\* module Tunnel's.
ReadRegister(c) ==
    LET m == Head(sent[c]) IN
    /\ Reads(c, "register")
    /\ PeerID' = [PeerID EXCEPT ![c] = m.peer]
    /\ Routes' = [Routes EXCEPT ![c] = @ \cup {m.dep}]
    /\ tunnels' = [tunnels EXCEPT ![m.peer] = c]
    /\ routes' = [routes EXCEPT ![m.dep] = c]
    /\ crossed' = IF OthersRouting(c, m.dep) = {} THEN crossed \ {m.dep}
                  ELSE crossed \cup {m.dep}
    /\ overlapped' = IF OthersRegistered(c, m.peer) = {} THEN overlapped \ {m.peer}
                     ELSE overlapped \cup {m.peer}
    /\ UNCHANGED <<dialler, open, reading, visit, phase>>

\* Mutant: only the connection forgets the deployment.
ReadUnregisterOwnTable(c) ==
    LET m == Head(sent[c]) IN
    /\ Reads(c, "unregister")
    /\ Routes' = [Routes EXCEPT ![c] = @ \ {m.dep}]
    /\ crossed' = IF OthersRouting(c, m.dep) = {} THEN crossed
                  ELSE crossed \cup {m.dep}
    /\ UNCHANGED <<dialler, open, reading, PeerID, tunnels, routes, overlapped,
                   visit, phase>>

\* The route goes, whichever connection it led to.
ReadUnregister(c) ==
    LET m == Head(sent[c]) IN
    /\ Reads(c, "unregister")
    /\ Routes' = [Routes EXCEPT ![c] = @ \ {m.dep}]
    /\ routes' = [routes EXCEPT ![m.dep] = None]
    /\ crossed' = IF OthersRouting(c, m.dep) = {} THEN crossed
                  ELSE crossed \cup {m.dep}
    /\ UNCHANGED <<dialler, open, reading, PeerID, tunnels, overlapped, visit,
                   phase>>

\* The read fails and the reader is about to return.  Nobody reads the fields
\* of the TunnelConn after its cleanup, so they are those of a new one.
ReadEnds(c) ==
    /\ c \in reading /\ ~open[c] /\ sent[c] = <<>>
    /\ reading' = reading \ {c}
    /\ dialler' = [dialler EXCEPT ![c] = None]
    /\ PeerID' = [PeerID EXCEPT ![c] = None]
    /\ Routes' = [Routes EXCEPT ![c] = {}]
    /\ UNCHANGED <<open, sent, crossed, overlapped, visit, phase>>

\* Mutant: the routes of the peer are dropped, not those of the connection.
CleanupOfPeer(c) ==
    /\ ReadEnds(c)
    /\ tunnels' = [p \in Peers |-> IF p = PeerID[c] THEN None ELSE tunnels[p]]
    /\ routes' = [d \in Deps |->
          IF routes[d] # None /\ PeerID[routes[d]] = PeerID[c] THEN None
          ELSE routes[d]]

\* Mutant: a connection that has no routes left has nothing to clean up.
CleanupIfRouting(c) ==
    /\ ReadEnds(c)
    /\ tunnels' = [p \in Peers |->
          IF p = PeerID[c] /\ Routes[c] # {} THEN None ELSE tunnels[p]]
    /\ routes' = [d \in Deps |-> IF d \in Routes[c] THEN None ELSE routes[d]]

\* The peer's tunnel is dropped and the routes of the connection, whatever
\* connections the two tables hold there by now.
Cleanup(c) ==
    /\ ReadEnds(c)
    /\ tunnels' = [p \in Peers |-> IF p = PeerID[c] THEN None ELSE tunnels[p]]
    /\ routes' = [d \in Deps |-> IF d \in Routes[c] THEN None ELSE routes[d]]

-----------------------------------------------------------------------------
(* Visitors and the shutdown *)

\* ServeHTTP finds a connection for the deployment; without one the visitor
\* has its 404 at once.  The request goes on with the TunnelConn it was given.
\* The server the visitors come to, HTTPS unless TLS is disabled, accepts until
\* its own Shutdown begins, and the one for HTTP is shut down first.
Visit(v, d) ==
    /\ phase \in {"serving", "draining"} /\ visit[v] = None /\ routes[d] # None
    /\ visit' = [visit EXCEPT ![v] = routes[d]]
    /\ UNCHANGED <<connVars, tableVars, phase>>

\* The request is answered or fails.  It may also hang (module Tunnel).
Leaves(v) ==
    /\ visit[v] # None /\ phase # "exited"
    /\ visit' = [visit EXCEPT ![v] = None]
    /\ UNCHANGED <<connVars, tableVars, phase>>

\* SIGINT or SIGTERM: run calls Shutdown of the HTTP server.
Signal ==
    /\ phase = "serving"
    /\ phase' = "draining"
    /\ UNCHANGED <<connVars, tableVars, visit>>

\* It returns, since no request is left or its deadline has passed, and run
\* calls Shutdown of the HTTPS server.
ShutdownHTTP ==
    /\ phase = "draining"
    /\ phase' = "drainingTLS"
    /\ UNCHANGED <<connVars, tableVars, visit>>

\* Mutant: Shutdown is given a context without a deadline.
ShutdownPatient ==
    /\ phase = "drainingTLS"
    /\ \A v \in Visitors : visit[v] = None
    /\ phase' = "drained"
    /\ UNCHANGED <<connVars, tableVars, visit>>

\* The HTTPS server's Shutdown returns once no request is left, or when the 30
\* seconds that both servers share are over.
Shutdown ==
    /\ phase = "drainingTLS"
    /\ phase' = "drained"
    /\ UNCHANGED <<connVars, tableVars, visit>>

\* TunnelManager.Close: the listener and, under the mutex, the connections the
\* tunnels table holds.
Close ==
    /\ phase = "drained"
    /\ phase' = "closed"
    /\ open' = [c \in Conns |-> open[c] /\ \A p \in Peers : tunnels[p] # c]
    /\ UNCHANGED <<dialler, sent, tableVars, visit>>

\* run returns, and the process ends with everything in it.
Exit ==
    /\ phase = "closed"
    /\ phase' = "exited"
    /\ open' = [c \in Conns |-> FALSE]
    /\ sent' = [c \in Conns |-> <<>>]
    /\ visit' = [v \in Visitors |-> None]
    /\ UNCHANGED <<dialler, tableVars>>

-----------------------------------------------------------------------------
GatewayInit ==
    /\ dialler = [c \in Conns |-> None] /\ open = [c \in Conns |-> FALSE]
    /\ sent = [c \in Conns |-> <<>>] /\ reading = {}
    /\ PeerID = [c \in Conns |-> None] /\ Routes = [c \in Conns |-> {}]
    /\ tunnels = [p \in Peers |-> None] /\ routes = [d \in Deps |-> None]
    /\ visit = [v \in Visitors |-> None] /\ phase = "serving"
    /\ crossed = {} /\ overlapped = {}

handleTunnelConn(c) ==
    phase # "exited" /\ (ReadRegister(c) \/ ReadUnregister(c) \/ Cleanup(c))

GatewayNext ==
    \/ \E c \in Conns :
          \/ \E p \in Peers : Dial(p, c)
          \/ \E d \in Deps, type \in {"register", "unregister"} : Sends(c, type, d)
          \/ Breaks(c) \/ Loses(c) \/ handleTunnelConn(c)
    \/ \E v \in Visitors : Leaves(v) \/ \E d \in Deps : Visit(v, d)
    \/ Signal \/ ShutdownHTTP \/ Shutdown \/ Close \/ Exit

\* The main goroutine is scheduled and the timer of the shutdowns fires; nothing
\* is assumed of readers, providers, visitors or the signal.
GatewaySpec ==
    /\ GatewayInit /\ [][GatewayNext]_vars
    /\ WF_vars(ShutdownHTTP) /\ WF_vars(Shutdown) /\ WF_vars(Close) /\ WF_vars(Exit)

-----------------------------------------------------------------------------
(* Properties *)

(***************************************************************************)
(* A visitor is only ever handed to a connection that is still read and on *)
(* which the provider registered the deployment, whatever IDs collide, old *)
(* connections linger and providers come back.                             *)
(***************************************************************************)
RoutesServed ==
    \A d \in Deps : routes[d] # None =>
        routes[d] \in reading /\ d \in Routes[routes[d]]

(***************************************************************************)
(* No deployment loses its route to somebody else's cleanup: one that a    *)
(* connection in service has registered is routed to it, unless a message  *)
(* of another connection named the same ID.                                *)
(***************************************************************************)
RoutesKept ==
    \A c \in reading : \A d \in Routes[c] \ crossed : routes[d] = c

(***************************************************************************)
(* The tunnels table, by which Close finds the connections, holds only     *)
(* connections in service, each under its own peer; and it holds each one  *)
(* that registered, unless its peer last registered while an older         *)
(* connection of it was still read, whose cleanup removes the entry.       *)
(***************************************************************************)
TunnelsListed ==
    /\ \A p \in Peers : tunnels[p] # None =>
          tunnels[p] \in reading /\ PeerID[tunnels[p]] = p
    /\ \A c \in reading : PeerID[c] \notin overlapped \cup {None} =>
          tunnels[PeerID[c]] = c

(***************************************************************************)
(* Once signalled the gateway exits, although a visitor's request may hang *)
(* for good, as it does on a wedged tunnel.                                *)
(***************************************************************************)
GatewayStops == phase = "draining" ~> phase = "exited"
=============================================================================
