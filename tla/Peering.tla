------------------------------- MODULE Peering -------------------------------
(***************************************************************************)
(* Connections between peers, and the deploy command that uses one.        *)
(*                                                                         *)
(* Every machine runs at most one daemon and one `peerctl deploy'.  Each   *)
(* is a process with a libp2p host of its own (internal/p2p/host.go) and   *)
(* its own copy of the machine's trust list, taken when it started; both   *)
(* have the identity of the machine.  The connection gater asks the copy   *)
(* at both ends of a connection, but not at the same moment: the dialler   *)
(* is through as soon as the handshake is, and the other end decides then. *)
(*                                                                         *)
(* libp2p itself is external: a listen on a port that is in use fails or   *)
(* shares it (SO_REUSEPORT), and a dial to a port reaches one of those     *)
(* that listen on it.                                                      *)
(***************************************************************************)
EXTENDS FiniteSets

CONSTANTS
    Nodes,      \* machines, which is to say peer IDs
    Users,      \* the machines on which deploy commands are run
    Nobody      \* no peer

ASSUME PeeringAssumption == Users \subseteq Nodes /\ Nobody \notin Nodes

VARIABLES
    listed,     \* trusted_peers.json of each machine
    up, list,   \* per host: whether it runs, and its copy of the list
    port,       \* per host: the port it listens on
    links,      \* the connections: [from, to, full]
    todo,       \* per daemon: the peers connectToKnownPeers has still to dial
    pc, goal,   \* per machine: its deploy command, and the target peer
    streams,    \* deploy requests being served: [from, to, at, open]
    made        \* history, per machine: this command's container was started

vars == <<listed, up, list, port, links, todo, pc, goal, streams, made>>
cliVars == <<pc, goal, made>>

Daemon(n) == <<n, "daemon">>
CLI(n) == <<n, "cli">>
Hosts == Nodes \X {"daemon", "cli"}
ID(h) == h[1]

Others(n) == Nodes \ {n}
Links == [from : Hosts, to : Hosts, full : BOOLEAN]
Places == {"arrived", "serving", "started", "registered", "hung"}
Streams == [from : Nodes, to : Nodes, at : Places, open : BOOLEAN]
Stages == {"idle", "loaded", "hosted", "connected", "sent", "done", "refused", "failed"}

\* Types; and a request whose stream is open is one its command waits for.
PeeringTypeOK ==
    /\ listed \in [Nodes -> SUBSET Nodes]
    /\ up \in [Hosts -> BOOLEAN]
    /\ list \in [Hosts -> SUBSET Nodes]
    /\ port \in [Hosts -> {"none", "default"}]
    /\ links \subseteq Links
    /\ todo \in [Nodes -> SUBSET Nodes]
    /\ pc \in [Nodes -> Stages]
    /\ goal \in [Nodes -> Nodes \cup {Nobody}]
    /\ streams \subseteq Streams
    /\ \A s \in streams : s.open => pc[s.from] = "sent" /\ goal[s.from] = s.to
    /\ made \in [Nodes -> BOOLEAN]

-----------------------------------------------------------------------------
(* Hosts and connections *)

Touches(l, h) == l.from = h \/ l.to = h

\* The connections of host h with peer m.
LinksWith(h, m) ==
    {l \in links : \/ l.from = h /\ ID(l.to) = m
                   \/ l.to = h /\ ID(l.from) = m}

\* InterceptPeerDial, InterceptAddrDial and InterceptSecured.
IsTrusted(h, m) == m \in list[h]

\* Both programs pass the port they are given to NewHost: the daemon its flag,
\* 9000 unless set, the command 0.  NewHost takes 0 for the default port.
ListenPort(h) == "default"

HostStarts(h) ==
    /\ up' = [up EXCEPT ![h] = TRUE]
    /\ port' = [port EXCEPT ![h] = ListenPort(h)]

HostCloses(h) ==
    /\ up' = [up EXCEPT ![h] = FALSE]
    /\ list' = [list EXCEPT ![h] = {}]
    /\ port' = [port EXCEPT ![h] = "none"]
    /\ links' = {l \in links : ~Touches(l, h)}

\* Host h dials the address it has for peer m, which is that of the daemon.
Dial(h, m) ==
    \E t \in {Daemon(m), CLI(m)} :
        /\ IsTrusted(h, m)
        /\ up[t] /\ port[t] = "default"
        /\ links' = links \cup {[from |-> h, to |-> t, full |-> FALSE]}

\* Mutant: the accepting end relies on the dialling one.
AcceptUngated(l) ==
    /\ l \in links /\ ~l.full
    /\ links' = (links \ {l}) \cup {[l EXCEPT !.full = TRUE]}
    /\ UNCHANGED <<listed, up, list, port, todo, cliVars, streams>>

\* InterceptSecured at the accepting end keeps the connection or closes it.
Accept(l) ==
    /\ l \in links /\ ~l.full
    /\ links' = (links \ {l}) \cup
                  {k \in {[l EXCEPT !.full = TRUE]} : IsTrusted(l.to, ID(l.from))}
    /\ UNCHANGED <<listed, up, list, port, todo, cliVars, streams>>

\* A request travels on a connection of the command with the daemon.
Carries(l, s) == Touches(l, CLI(s.from)) /\ Touches(l, Daemon(s.to))

\* External: a connection breaks, and the streams it carried with it.  Their
\* handlers serve on, and nobody reads what they answer.
Breaks(l) ==
    /\ l \in links
    /\ links' = links \ {l}
    /\ \/ streams' = {[s EXCEPT !.open = @ /\ ~Carries(l, s)] : s \in streams}
       \/ /\ \A s \in streams :
               s.open /\ Carries(l, s) => \E k \in links' : Carries(k, s)
          /\ UNCHANGED streams
    /\ UNCHANGED <<listed, up, list, port, todo, cliVars>>

-----------------------------------------------------------------------------
(* The daemon *)

\* The user edits the trust list with peerctl.
Edits(n, m) ==
    /\ listed' \in {[listed EXCEPT ![n] = @ \cup {m}], [listed EXCEPT ![n] = @ \ {m}]}
    /\ UNCHANGED <<up, list, port, links, todo, cliVars, streams>>

DaemonStarts(n) ==
    /\ ~up[Daemon(n)]
    /\ HostStarts(Daemon(n))
    /\ list' = [list EXCEPT ![Daemon(n)] = listed[n]]
    /\ todo' = [todo EXCEPT ![n] = listed[n]]
    /\ UNCHANGED <<listed, links, cliVars, streams>>

\* connectToKnownPeers dials each listed peer once, and shrugs off an error.
KnownPeer(n, m) ==
    /\ m \in todo[n]
    /\ todo' = [todo EXCEPT ![n] = @ \ {m}]
    /\ IF LinksWith(Daemon(n), m) # {} THEN UNCHANGED links
       ELSE Dial(Daemon(n), m) \/ UNCHANGED links
    /\ UNCHANGED <<listed, up, list, port, cliVars, streams>>

DaemonEnds(n) ==
    /\ up[Daemon(n)]
    /\ HostCloses(Daemon(n))
    /\ todo' = [todo EXCEPT ![n] = {}]
    /\ streams' = {s \in streams : s.to # n}
    /\ UNCHANGED <<listed, cliVars>>

\* handleDeploy asks the trust list once more.
CheckTrust(s) == IsTrusted(Daemon(s.to), s.from)

\* An answer on the stream, which the command reads if it is still there.
Answers(s, success) ==
    /\ streams' = streams \ {s}
    /\ pc' = IF s.open /\ pc[s.from] = "sent"
             THEN [pc EXCEPT ![s.from] = IF success THEN "done" ELSE "refused"]
             ELSE pc

\* The handler of s goes on to the next of its calls.
GoesTo(s, place) ==
    streams' = (streams \ {s}) \cup {[s EXCEPT !.at = place]}

\* The handler refuses the request, or begins to serve it.
Arrives(s) ==
    /\ s \in streams /\ s.at = "arrived"
    /\ \/ ~CheckTrust(s) /\ Answers(s, FALSE)
       \/ CheckTrust(s) /\ GoesTo(s, "serving") /\ UNCHANGED pc
    /\ UNCHANGED <<listed, up, list, port, links, todo, goal, made>>

\* Mutant: the error of the first pull is sent, but the handler goes on.
SchedulesAnyway(s) ==
    /\ s \in streams /\ s.at = "serving"
    /\ GoesTo(s, "started")
    /\ made' = [made EXCEPT ![s.from] = s.open \/ @]
    /\ pc' \in {pc, [pc EXCEPT ![s.from] = IF s.open THEN "refused" ELSE @]}
    /\ UNCHANGED <<listed, up, list, port, links, todo, goal>>

\* The image is pulled and the container started; or an error is the answer.
Schedules(s) ==
    /\ s \in streams /\ s.at = "serving"
    /\ \/ /\ GoesTo(s, "started")
          /\ made' = [made EXCEPT ![s.from] = s.open \/ @]
          /\ UNCHANGED pc
       \/ Answers(s, FALSE) /\ UNCHANGED made
    /\ UNCHANGED <<listed, up, list, port, links, todo, goal>>

\* Mutant: the request fails when its registration does.
RegistersOrFails(s) ==
    /\ s \in streams /\ s.at = "started"
    /\ \/ GoesTo(s, "registered") /\ UNCHANGED pc
       \/ Answers(s, FALSE)
    /\ UNCHANGED <<listed, up, list, port, links, todo, goal, made>>

\* The deployment is registered with the gateway, if it is to be exposed and
\* the tunnel is up.  An error is only logged.
Registers(s) ==
    /\ s \in streams /\ s.at = "started"
    /\ GoesTo(s, "registered")
    /\ UNCHANGED <<listed, up, list, port, links, todo, cliVars>>

Replies(s) ==
    /\ s \in streams /\ s.at = "registered"
    /\ Answers(s, TRUE)
    /\ UNCHANGED <<listed, up, list, port, links, todo, goal, made>>

\* The handler never returns from a call.  Docker is external and given no
\* deadline; RegisterDeployment waits for the tunnel client's mutex and for the
\* gateway to read, and has none either.
Hangs(s) ==
    /\ s \in streams /\ s.at \in {"serving", "started"}
    /\ GoesTo(s, "hung")
    /\ UNCHANGED <<listed, up, list, port, links, todo, cliVars>>

-----------------------------------------------------------------------------
(* peerctl deploy *)

\* The list is loaded and the target found in it; otherwise the command ends
\* before it does anything.
Begins(n, m) ==
    /\ n \in Users /\ pc[n] = "idle" /\ m \in listed[n]
    /\ pc' = [pc EXCEPT ![n] = "loaded"]
    /\ goal' = [goal EXCEPT ![n] = m]
    /\ made' = [made EXCEPT ![n] = FALSE]
    /\ list' = [list EXCEPT ![CLI(n)] = listed[n]]
    /\ UNCHANGED <<listed, up, port, links, todo, streams>>

NewHost(n) ==
    /\ pc[n] = "loaded"
    /\ HostStarts(CLI(n))
    /\ pc' = [pc EXCEPT ![n] = "hosted"]
    /\ UNCHANGED <<listed, list, links, todo, goal, streams, made>>

\* host.Connect returns at once if the peer is connected already.
Connects(n) ==
    /\ pc[n] = "hosted"
    /\ IF LinksWith(CLI(n), goal[n]) # {} THEN UNCHANGED links
       ELSE Dial(CLI(n), goal[n])
    /\ pc' = [pc EXCEPT ![n] = "connected"]
    /\ UNCHANGED <<listed, up, list, port, todo, goal, streams, made>>

\* NewStream needs the other end's consent and its deploy handler; the request
\* follows on the stream.
Sends(n) ==
    /\ pc[n] = "connected"
    /\ \E l \in LinksWith(CLI(n), goal[n]) :
          l.full /\ Touches(l, Daemon(goal[n]))
    /\ streams' = streams \cup
         {[from |-> n, to |-> goal[n], at |-> "arrived", open |-> TRUE]}
    /\ pc' = [pc EXCEPT ![n] = "sent"]
    /\ UNCHANGED <<listed, up, list, port, links, todo, goal, made>>

\* Mutant: no deadline on NewStream either.
GivesUpUnconnected(n) ==
    /\ pc[n] \in {"loaded", "hosted"}
    /\ pc' = [pc EXCEPT ![n] = "failed"]
    /\ UNCHANGED <<listed, up, list, port, links, todo, goal, streams, made>>

\* Before the request is sent: an error, or the --timeout of the context.
GivesUp(n) ==
    /\ pc[n] \in {"loaded", "hosted", "connected"}
    /\ pc' = [pc EXCEPT ![n] = "failed"]
    /\ UNCHANGED <<listed, up, list, port, links, todo, goal, streams, made>>

\* After it: the read fails because the stream is gone.  It has no deadline.
ReadFails(n) ==
    /\ pc[n] = "sent"
    /\ ~\E s \in streams : s.from = n /\ s.open
    /\ pc' = [pc EXCEPT ![n] = "failed"]
    /\ UNCHANGED <<listed, up, list, port, links, todo, goal, streams, made>>

\* The result is printed, the process ends and its host with it.
Finishes(n) ==
    /\ pc[n] \in {"done", "refused", "failed"}
    /\ HostCloses(CLI(n))
    /\ pc' = [pc EXCEPT ![n] = "idle"]
    /\ goal' = [goal EXCEPT ![n] = Nobody]
    /\ made' = [made EXCEPT ![n] = FALSE]
    /\ streams' = {[s EXCEPT !.open = @ /\ s.from # n] : s \in streams}
    /\ UNCHANGED <<listed, todo>>

-----------------------------------------------------------------------------
PeeringInit ==
    /\ listed \in [Nodes -> SUBSET Nodes] /\ \A n \in Nodes : n \notin listed[n]
    /\ up = [h \in Hosts |-> FALSE]
    /\ list = [h \in Hosts |-> {}] /\ port = [h \in Hosts |-> "none"]
    /\ links = {} /\ streams = {}
    /\ todo = [n \in Nodes |-> {}]
    /\ pc = [n \in Nodes |-> "idle"] /\ goal = [n \in Nodes |-> Nobody]
    /\ made = [n \in Nodes |-> FALSE]

Command(n) ==
    NewHost(n) \/ Connects(n) \/ Sends(n) \/ GivesUp(n) \/ ReadFails(n) \/ Finishes(n)

\* A handler of a request of n goes on.
Handler(n) ==
    \E s \in streams :
        s.from = n /\ (Arrives(s) \/ Schedules(s) \/ Registers(s) \/ Replies(s))

PeeringNext ==
    \/ \E n \in Nodes : 
          DaemonStarts(n) \/ DaemonEnds(n) \/ Command(n) \/ Handler(n)
    \/ \E n \in Nodes : \E m \in Others(n) :
          Edits(n, m) \/ KnownPeer(n, m) \/ Begins(n, m)
    \/ \E l \in links : Accept(l) \/ Breaks(l)
    \/ \E s \in streams : Hangs(s)

\* The command's process is scheduled and its context times out; a handler
\* goes on until it hangs.
PeeringSpec ==
    /\ PeeringInit /\ [][PeeringNext]_vars
    /\ \A n \in Nodes : WF_vars(Command(n)) /\ WF_vars(Handler(n))

-----------------------------------------------------------------------------
(* Properties *)

(***************************************************************************)
(* A connection both ends have accepted, and a request a handler serves,   *)
(* exist only between peers that trust each other: each end's copy of the  *)
(* list names the other, whoever dialled and whatever was edited since.    *)
(***************************************************************************)
MutualTrust ==
    /\ \A l \in links :
          l.full => IsTrusted(l.from, ID(l.to)) /\ IsTrusted(l.to, ID(l.from))
    /\ \A s \in streams :
          s.at # "arrived" => IsTrusted(Daemon(s.to), s.from)

(***************************************************************************)
(* What the handler's answer makes the command print is so: a success      *)
(* stands for a container that was started for this very request, and a    *)
(* refusal for none, although the handler fails in the middle, goes on     *)
(* after the trust check, and registers with the gateway once the          *)
(* container runs.  (A command whose connection is lost learns neither:    *)
(* "failed" says nothing of the container.)                                *)
(***************************************************************************)
AnswerIsTrue ==
    \A n \in Nodes : (pc[n] = "done" => made[n]) /\ (pc[n] = "refused" => ~made[n])

\* Every deploy command comes to an end, whatever breaks, dies or refuses,
\* unless the handler of its request hangs, in docker or in RegisterDeployment:
\* the read of the response is the one step of the command without a deadline.
CommandEnds ==
    \A n \in Nodes : pc[n] # "idle" ~>
        (pc[n] = "idle" \/ \E s \in streams : s.from = n /\ s.open /\ s.at = "hung")
=============================================================================
