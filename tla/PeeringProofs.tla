---------------------------- MODULE PeeringProofs ----------------------------
(***************************************************************************)
(* Proofs about Peering, for every number of machines and commands.        *)
(***************************************************************************)
EXTENDS Peering, TLAPS

\* A connection is between two running hosts, and its dialler trusts the
\* other end; the accepting end trusts the dialler once it has decided.
LinksInv ==
    \A l \in links :
        /\ up[l.from] /\ up[l.to]
        /\ ID(l.to) \in list[l.from]
        /\ l.full => ID(l.from) \in list[l.to]

\* A request is with a running daemon, which trusts its sender once the
\* handler has asked.
StreamsInv ==
    \A s \in streams :
        up[Daemon(s.to)] /\ (s.at # "arrived" => s.from \in list[Daemon(s.to)])

\* A command has a host only after it has loaded its list, so that a list is
\* never replaced under a running host; and whoever dials has a host.
HostInv ==
    \A n \in Nodes :
        /\ pc[n] \in {"idle", "loaded"} => ~up[CLI(n)]
        /\ pc[n] \in {"hosted", "connected"} => up[CLI(n)]
        /\ todo[n] # {} => up[Daemon(n)]

\* The types alone.
Types ==
    /\ listed \in [Nodes -> SUBSET Nodes]
    /\ up \in [Hosts -> BOOLEAN]
    /\ list \in [Hosts -> SUBSET Nodes]
    /\ port \in [Hosts -> {"none", "default"}]
    /\ links \subseteq Links
    /\ todo \in [Nodes -> SUBSET Nodes]
    /\ pc \in [Nodes -> Stages]
    /\ goal \in [Nodes -> Nodes \cup {Nobody}]
    /\ streams \subseteq Streams
    /\ made \in [Nodes -> BOOLEAN]

\* A request whose stream is open is the only one its command waits for, and
\* its handler is beyond the start of the container if there is one.
OpenInv ==
    \A s \in streams : s.open =>
        /\ pc[s.from] = "sent" /\ goal[s.from] = s.to
        /\ \A t \in streams : t.open /\ t.from = s.from => t = s
        /\ s.at \in {"arrived", "serving"} => ~made[s.from]
        /\ s.at \in {"started", "registered"} => made[s.from]

\* A command that has not sent its request has no container.
MadeInv ==
    \A n \in Nodes :
        /\ pc[n] \in {"loaded", "hosted", "connected", "refused"} => ~made[n]
        /\ pc[n] = "done" => made[n]

PInv == Types /\ LinksInv /\ StreamsInv /\ HostInv /\ OpenInv /\ MadeInv

USE PeeringAssumption

\* The two hosts of a machine are different, and different machines have
\* different hosts.
LEMMA HostFacts ==
    ASSUME NEW n \in Nodes
    PROVE  /\ Daemon(n) \in Hosts /\ CLI(n) \in Hosts
           /\ ID(Daemon(n)) = n /\ ID(CLI(n)) = n
           /\ \A m \in Nodes : Daemon(n) # CLI(m) /\ CLI(n) # Daemon(m)
           /\ \A m \in Nodes \ {n} : Daemon(n) # Daemon(m) /\ CLI(n) # CLI(m)
  BY DEF Daemon, CLI, Hosts, ID

LEMMA IDType == ASSUME NEW h \in Hosts PROVE ID(h) \in Nodes
  BY DEF Hosts, ID

LEMMA PInit == PeeringInit => PInv
<1> SUFFICES ASSUME PeeringInit PROVE PInv
  OBVIOUS
<1>1. Types
  BY DEF PeeringInit, Types, Stages
<1>2. LinksInv /\ StreamsInv /\ OpenInv
  BY DEF PeeringInit, LinksInv, StreamsInv, OpenInv
<1>3. HostInv
  BY HostFacts DEF PeeringInit, HostInv
<1>4. MadeInv
  BY DEF PeeringInit, MadeInv
<1> QED BY <1>1, <1>2, <1>3, <1>4 DEF PInv

\* What a new connection needs.
LEMMA DialLinks ==
    ASSUME PInv, NEW h \in Hosts, up[h], NEW m \in Nodes, Dial(h, m),
           UNCHANGED <<up, list>>
    PROVE  links' \subseteq Links /\ LinksInv'
<1>1. PICK t \in {Daemon(m), CLI(m)} :
         /\ m \in list[h] /\ up[t]
         /\ links' = links \cup {[from |-> h, to |-> t, full |-> FALSE]}
  BY DEF Dial, IsTrusted
<1>2. t \in Hosts /\ ID(t) = m
  BY <1>1, HostFacts
<1>3. [from |-> h, to |-> t, full |-> FALSE] \in Links
  BY <1>2 DEF Links
<1>4. links' \subseteq Links
  BY <1>1, <1>3 DEF PInv, Types
<1>5. LinksInv'
  BY <1>1, <1>2 DEF PInv, LinksInv
<1> QED BY <1>4, <1>5

\* A host that closes takes its connections along.
LEMMA CloseLinks ==
    ASSUME PInv, NEW h \in Hosts, HostCloses(h)
    PROVE  links' \subseteq Links /\ LinksInv'
<1>1. /\ up' = [up EXCEPT ![h] = FALSE] /\ list' = [list EXCEPT ![h] = {}]
      /\ links' = {l \in links : l.from # h /\ l.to # h}
  BY DEF HostCloses, Touches
<1>2. links \subseteq Links /\ up \in [Hosts -> BOOLEAN]
      /\ list \in [Hosts -> SUBSET Nodes]
  BY DEF PInv, Types
<1>3. \A l \in links : l.from \in Hosts /\ l.to \in Hosts
  BY <1>2 DEF Links
<1>4. LinksInv'
  BY <1>1, <1>2, <1>3 DEF PInv, LinksInv
<1> QED BY <1>1, <1>2, <1>4

-----------------------------------------------------------------------------
LEMMA AcceptStep ==
    ASSUME PInv, NEW l \in links, Accept(l)
    PROVE  PInv'
<1> DEFINE k == [l EXCEPT !.full = TRUE]
<1>1. /\ links' = (links \ {l}) \cup {x \in {k} : ID(l.from) \in list[l.to]}
      /\ UNCHANGED <<listed, up, list, port, todo, pc, goal, made, streams>>
  BY DEF Accept, IsTrusted, cliVars
<1>2. l \in Links
  BY DEF PInv, Types
<1>3. k \in Links /\ k.from = l.from /\ k.to = l.to
  BY <1>2 DEF Links
<1> HIDE DEF k
<1>4. Types'
  BY <1>1, <1>3 DEF PInv, Types
<1>5. LinksInv'
  BY <1>1, <1>3 DEF PInv, LinksInv
<1>6. StreamsInv' /\ HostInv' /\ MadeInv'
  BY <1>1 DEF PInv, StreamsInv, HostInv, MadeInv
<1>7. OpenInv'
  BY <1>1 DEF PInv, OpenInv
<1> QED BY <1>4, <1>5, <1>6, <1>7 DEF PInv

\* Streams that are dropped, or only closed, keep their invariant.
LEMMA StreamsKept ==
    ASSUME PInv,
           \A t \in streams' : \E s \in streams :
               t.from = s.from /\ t.to = s.to /\ t.at = s.at,
           \A s \in streams' : /\ up'[Daemon(s.to)] = up[Daemon(s.to)]
                               /\ list'[Daemon(s.to)] = list[Daemon(s.to)]
    PROVE  StreamsInv'
  BY DEF PInv, StreamsInv

LEMMA OpenKept ==
    ASSUME PInv,
           \A t \in streams' : t.open =>
               /\ t \in streams /\ pc'[t.from] = pc[t.from]
               /\ goal'[t.from] = goal[t.from] /\ made'[t.from] = made[t.from]
    PROVE  OpenInv'
  BY DEF PInv, OpenInv

LEMMA BreaksStep ==
    ASSUME PInv, NEW l \in links, Breaks(l)
    PROVE  PInv'
<1>1. /\ links' = links \ {l}
      /\ UNCHANGED <<listed, up, list, port, todo, pc, goal, made>>
  BY DEF Breaks, cliVars
<1>2. \A t \in streams' :
        /\ t \in Streams /\ (t.open => t \in streams)
        /\ \E s \in streams : t.from = s.from /\ t.to = s.to /\ t.at = s.at
  <2>1. CASE streams' = {[s EXCEPT !.open = @ /\ ~Carries(l, s)] : s \in streams}
    <3> SUFFICES ASSUME NEW t \in streams'
                 PROVE  /\ t \in Streams /\ (t.open => t \in streams)
                        /\ \E s \in streams :
                              t.from = s.from /\ t.to = s.to /\ t.at = s.at
      OBVIOUS
    <3>1. PICK s \in streams : t = [s EXCEPT !.open = s.open /\ ~Carries(l, s)]
      BY <2>1
    <3>2. s \in Streams /\ (s.open /\ ~Carries(l, s)) \in BOOLEAN
      BY DEF PInv, Types
    <3>3. /\ t \in Streams /\ t.from = s.from /\ t.to = s.to /\ t.at = s.at
          /\ t.open => t = s
      BY <3>1, <3>2 DEF Streams
    <3> QED BY <3>3
  <2>2. CASE UNCHANGED streams
    BY <2>2 DEF PInv, Types
  <2> QED BY <2>1, <2>2 DEF Breaks
<1>3. Types'
  BY <1>1, <1>2 DEF PInv, Types, Stages
<1>4. LinksInv' /\ HostInv' /\ MadeInv'
  BY <1>1 DEF PInv, LinksInv, HostInv, MadeInv
<1>5. StreamsInv'
  BY <1>1, <1>2, StreamsKept
<1>6. OpenInv'
  BY <1>1, <1>2, OpenKept
<1> QED BY <1>3, <1>4, <1>5, <1>6 DEF PInv

LEMMA EditsStep ==
    ASSUME PInv, NEW n \in Nodes, NEW m \in Nodes, Edits(n, m)
    PROVE  PInv'
<1>1. listed' \in [Nodes -> SUBSET Nodes]
  BY DEF PInv, Types, Edits
<1>2. UNCHANGED <<up, list, port, links, todo, pc, goal, made, streams>>
  BY DEF Edits, cliVars
<1> QED BY <1>1, <1>2 DEF PInv, Types, LinksInv, StreamsInv, HostInv, OpenInv,
                         MadeInv

LEMMA DaemonStartsStep ==
    ASSUME PInv, NEW n \in Nodes, DaemonStarts(n)
    PROVE  PInv'
<1>1. /\ ~up[Daemon(n)]
      /\ up' = [up EXCEPT ![Daemon(n)] = TRUE]
      /\ port' = [port EXCEPT ![Daemon(n)] = "default"]
      /\ list' = [list EXCEPT ![Daemon(n)] = listed[n]]
      /\ todo' = [todo EXCEPT ![n] = listed[n]]
      /\ UNCHANGED <<listed, links, pc, goal, made, streams>>
  BY DEF DaemonStarts, HostStarts, ListenPort, cliVars
<1>2. Daemon(n) \in Hosts /\ \A m \in Nodes : CLI(m) \in Hosts /\ CLI(m) # Daemon(n)
  BY HostFacts
<1>3. Types'
  BY <1>1, <1>2 DEF PInv, Types, Stages
<1>4. LinksInv'
  <2>1. \A l \in links : l.from \in Hosts /\ l.to \in Hosts
    BY DEF PInv, Types, Links
  <2> QED BY <1>1, <1>2, <2>1 DEF PInv, Types, LinksInv
<1>5. StreamsInv'
  <2>1. \A s \in streams : Daemon(s.to) \in Hosts
    BY HostFacts DEF PInv, Types, Streams
  <2> QED BY <1>1, <1>2, <2>1 DEF PInv, Types, StreamsInv
<1>6. HostInv'
  <2> SUFFICES ASSUME NEW k \in Nodes
               PROVE  /\ pc[k] \in {"idle", "loaded"} => ~up'[CLI(k)]
                      /\ pc[k] \in {"hosted", "connected"} => up'[CLI(k)]
                      /\ todo'[k] # {} => up'[Daemon(k)]
    BY <1>1 DEF HostInv
  <2>1. CLI(k) \in Hosts /\ CLI(k) # Daemon(n) /\ Daemon(k) \in Hosts
        /\ (k # n => Daemon(k) # Daemon(n))
    BY HostFacts
  <2> QED BY <1>1, <1>2, <2>1 DEF PInv, Types, HostInv
<1>7. MadeInv'
  BY <1>1 DEF PInv, MadeInv
<1>8. OpenInv'
  BY <1>1, OpenKept
<1> QED BY <1>3, <1>4, <1>5, <1>6, <1>7, <1>8 DEF PInv

LEMMA KnownPeerStep ==
    ASSUME PInv, NEW n \in Nodes, NEW m \in Nodes, KnownPeer(n, m)
    PROVE  PInv'
<1>1. /\ todo' = [todo EXCEPT ![n] = @ \ {m}]
      /\ UNCHANGED <<listed, up, list, port, pc, goal, made, streams>>
      /\ UNCHANGED links \/ Dial(Daemon(n), m)
      /\ m \in todo[n]
  BY DEF KnownPeer, cliVars
<1>2. links' \subseteq Links /\ LinksInv'
  <2>1. CASE UNCHANGED links
    BY <1>1, <2>1 DEF PInv, Types, LinksInv
  <2>2. CASE Dial(Daemon(n), m)
    <3>1. up[Daemon(n)] /\ Daemon(n) \in Hosts
      BY <1>1, HostFacts DEF PInv, HostInv
    <3> QED BY <1>1, <2>2, <3>1, DialLinks
  <2> QED BY <1>1, <2>1, <2>2
<1>3. Types'
  BY <1>1, <1>2 DEF PInv, Types, Stages
<1>4. StreamsInv' /\ MadeInv'
  BY <1>1 DEF PInv, StreamsInv, MadeInv
<1>5. HostInv'
  BY <1>1 DEF PInv, Types, HostInv
<1>6. OpenInv'
  BY <1>1, OpenKept
<1> QED BY <1>2, <1>3, <1>4, <1>5, <1>6 DEF PInv

LEMMA DaemonEndsStep ==
    ASSUME PInv, NEW n \in Nodes, DaemonEnds(n)
    PROVE  PInv'
<1>1. /\ HostCloses(Daemon(n))
      /\ up' = [up EXCEPT ![Daemon(n)] = FALSE]
      /\ list' = [list EXCEPT ![Daemon(n)] = {}]
      /\ port' = [port EXCEPT ![Daemon(n)] = "none"]
      /\ todo' = [todo EXCEPT ![n] = {}]
      /\ streams' = {s \in streams : s.to # n}
      /\ UNCHANGED <<listed, pc, goal, made>>
  BY DEF DaemonEnds, HostCloses, cliVars
<1>2. Daemon(n) \in Hosts
  BY HostFacts
<1>3. links' \subseteq Links /\ LinksInv'
  BY <1>1, <1>2, CloseLinks
<1>4. Types'
  BY <1>1, <1>2, <1>3 DEF PInv, Types
<1>5. StreamsInv'
  <2>1. \A s \in streams' : Daemon(s.to) \in Hosts /\ Daemon(s.to) # Daemon(n)
    BY <1>1, HostFacts DEF PInv, Types, Streams
  <2> QED BY <1>1, <1>2, <2>1 DEF PInv, Types, StreamsInv
<1>6. HostInv'
  <2> SUFFICES ASSUME NEW k \in Nodes
               PROVE  /\ pc[k] \in {"idle", "loaded"} => ~up'[CLI(k)]
                      /\ pc[k] \in {"hosted", "connected"} => up'[CLI(k)]
                      /\ todo'[k] # {} => up'[Daemon(k)]
    BY <1>1 DEF HostInv
  <2>1. CLI(k) \in Hosts /\ CLI(k) # Daemon(n) /\ Daemon(k) \in Hosts
        /\ (k # n => Daemon(k) # Daemon(n))
    BY HostFacts
  <2> QED BY <1>1, <1>2, <2>1 DEF PInv, Types, HostInv
<1>7. MadeInv'
  BY <1>1 DEF PInv, MadeInv
<1>8. OpenInv'
  BY <1>1, OpenKept
<1> QED BY <1>3, <1>4, <1>5, <1>6, <1>7, <1>8 DEF PInv

-----------------------------------------------------------------------------
(* The handler *)

\* An answer ends its stream, and the command that waits for it.
LEMMA AnswersStep ==
    ASSUME PInv, NEW s \in streams, NEW success \in BOOLEAN, Answers(s, success),
           s.at \in (IF success THEN {"started", "registered"} ELSE {"arrived", "serving"}),
           UNCHANGED <<listed, up, list, port, links, todo, goal, made>>
    PROVE  PInv'
<1>1. s.from \in Nodes /\ pc \in [Nodes -> Stages]
  BY DEF PInv, Types, Streams
<1>2. /\ streams' = streams \ {s} /\ pc' \in [Nodes -> Stages]
      /\ \A n \in Nodes :
            \/ pc'[n] = pc[n]
            \/ /\ n = s.from /\ s.open
               /\ pc[n] = "sent" /\ pc'[n] = IF success THEN "done" ELSE "refused"
  BY <1>1 DEF Answers, Stages
<1>3. Types'
  BY <1>2 DEF PInv, Types
<1>4. LinksInv' /\ StreamsInv' /\ HostInv'
  BY <1>2 DEF PInv, LinksInv, StreamsInv, HostInv
<1>5. OpenInv'
  <2> SUFFICES ASSUME NEW t \in streams', t.open
               PROVE  t \in streams /\ pc'[t.from] = pc[t.from]
    BY OpenKept
  <2>1. t \in streams /\ t # s /\ t.from \in Nodes
    BY <1>2 DEF PInv, Types, Streams
  <2>2. s.open => t.from # s.from
    BY <2>1 DEF PInv, OpenInv
  <2> QED BY <1>2, <2>1, <2>2
<1>6. MadeInv'
  <2>1. s.open => (success <=> made[s.from])
    BY DEF PInv, OpenInv
  <2> QED BY <1>2, <2>1 DEF PInv, MadeInv
<1> QED BY <1>3, <1>4, <1>5, <1>6 DEF PInv

\* The handler goes from one of its calls to the next.
LEMMA GoesToStep ==
    ASSUME PInv, NEW s \in streams, NEW place \in Places, GoesTo(s, place),
           UNCHANGED <<listed, up, list, port, links, todo, pc, goal>>,
           place # "arrived", s.at # "arrived" \/ CheckTrust(s),
           made' \in [Nodes -> BOOLEAN],
           \A n \in Nodes : made'[n] = made[n] \/ (n = s.from /\ s.open),
           s.open =>
               /\ place = "serving" => ~made'[s.from]
               /\ place \in {"started", "registered"} => made'[s.from]
    PROVE  PInv'
<1> DEFINE u == [s EXCEPT !.at = place]
<1>1. s \in Streams
  BY DEF PInv, Types
<1>2. /\ u \in Streams /\ u.to = s.to /\ u.from = s.from /\ u.at = place
      /\ u.open = s.open /\ s.from \in Nodes
  BY <1>1 DEF Streams
<1>3. streams' = (streams \ {s}) \cup {u}
  BY DEF GoesTo
<1> HIDE DEF u
<1>4. Types'
  BY <1>2, <1>3 DEF PInv, Types
<1>5. StreamsInv'
  BY <1>2, <1>3 DEF PInv, StreamsInv, CheckTrust, IsTrusted
<1>6. LinksInv' /\ HostInv'
  BY DEF PInv, LinksInv, HostInv
<1>7. s.open => pc[s.from] = "sent"
  BY DEF PInv, OpenInv
<1>8. OpenInv'
  <2>1. ASSUME NEW t \in streams, t # s, t.open
        PROVE  t.from \in Nodes /\ made'[t.from] = made[t.from]
    <3>1. t.from \in Nodes
      BY DEF PInv, Types, Streams
    <3>2. s.open => t.from # s.from
      BY <2>1 DEF PInv, OpenInv
    <3> QED BY <3>1, <3>2
  <2>2. ASSUME NEW t \in streams', t.open
        PROVE  /\ pc[t.from] = "sent" /\ goal[t.from] = t.to
               /\ \A v \in streams' : v.open /\ v.from = t.from => v = t
    BY <1>2, <1>3, <2>2 DEF PInv, OpenInv
  <2>3. ASSUME NEW t \in streams', t.open
        PROVE  /\ t.at \in {"arrived", "serving"} => ~made'[t.from]
               /\ t.at \in {"started", "registered"} => made'[t.from]
    <3>1. CASE t = u
      BY <1>2, <2>3, <3>1
    <3>2. CASE t # u
      <4>1. t \in streams /\ t # s
        BY <1>3, <3>2
      <4> QED BY <2>1, <2>3, <4>1 DEF PInv, OpenInv
    <3> QED BY <3>1, <3>2
  <2> QED BY <2>2, <2>3 DEF OpenInv
<1>9. MadeInv'
  BY <1>7 DEF PInv, MadeInv
<1> QED BY <1>4, <1>5, <1>6, <1>8, <1>9 DEF PInv

LEMMA ArrivesStep ==
    ASSUME PInv, NEW s \in streams, Arrives(s)
    PROVE  PInv'
<1>1. UNCHANGED <<listed, up, list, port, links, todo, goal, made>> /\ s.at = "arrived"
  BY DEF Arrives
<1>2. CASE Answers(s, FALSE)
  BY <1>1, <1>2, AnswersStep
<1>3. CASE CheckTrust(s) /\ GoesTo(s, "serving") /\ UNCHANGED pc
  <2>1. "serving" \in Places /\ made' \in [Nodes -> BOOLEAN]
    BY <1>1 DEF Places, PInv, Types
  <2>2. s.open => ~made[s.from]
    BY <1>1 DEF PInv, OpenInv
  <2> QED BY <1>1, <1>3, <2>1, <2>2, GoesToStep
<1> QED BY <1>2, <1>3 DEF Arrives

LEMMA SchedulesStep ==
    ASSUME PInv, NEW s \in streams, Schedules(s)
    PROVE  PInv'
<1>1. UNCHANGED <<listed, up, list, port, links, todo, goal>> /\ s.at = "serving"
  BY DEF Schedules
<1>2. CASE Answers(s, FALSE) /\ UNCHANGED made
  BY <1>1, <1>2, AnswersStep
<1>3. CASE /\ GoesTo(s, "started") /\ UNCHANGED pc
           /\ made' = [made EXCEPT ![s.from] = s.open \/ @]
  <2>1. s.from \in Nodes /\ s.open \in BOOLEAN /\ made \in [Nodes -> BOOLEAN]
    BY DEF PInv, Types, Streams
  <2>2. /\ made' \in [Nodes -> BOOLEAN] /\ (s.open => made'[s.from])
        /\ \A n \in Nodes : made'[n] = made[n] \/ (n = s.from /\ s.open)
    BY <1>3, <2>1
  <2>3. "started" \in Places
    BY DEF Places
  <2> QED BY <1>1, <1>3, <2>2, <2>3, GoesToStep
<1> QED BY <1>2, <1>3 DEF Schedules

LEMMA RegistersStep ==
    ASSUME PInv, NEW s \in streams, Registers(s) \/ Hangs(s)
    PROVE  PInv'
<1>1. /\ UNCHANGED <<listed, up, list, port, links, todo, pc, goal, made>>
      /\ s.at # "arrived"
      /\ \/ GoesTo(s, "registered") /\ s.at = "started"
         \/ GoesTo(s, "hung")
  BY DEF Registers, Hangs, cliVars
<1>2. "registered" \in Places /\ "hung" \in Places /\ made' \in [Nodes -> BOOLEAN]
  BY <1>1 DEF Places, PInv, Types
<1>3. s.open /\ s.at = "started" => made'[s.from]
  BY <1>1 DEF PInv, OpenInv
<1>4. CASE GoesTo(s, "registered") /\ s.at = "started"
  BY <1>1, <1>2, <1>3, <1>4, GoesToStep
<1>5. CASE GoesTo(s, "hung")
  BY <1>1, <1>2, <1>5, GoesToStep
<1> QED BY <1>1, <1>4, <1>5

LEMMA RepliesStep ==
    ASSUME PInv, NEW s \in streams, Replies(s)
    PROVE  PInv'
  BY AnswersStep DEF Replies

-----------------------------------------------------------------------------
(* The deploy command *)

\* No request of a command that does not wait is open.
LEMMA WaitingKept ==
    ASSUME PInv, NEW n \in Nodes, UNCHANGED streams,
           pc[n] # "sent" \/ ~\E s \in streams : s.from = n /\ s.open,
           \E x : pc' = [pc EXCEPT ![n] = x],
           UNCHANGED goal \/ \E x : goal' = [goal EXCEPT ![n] = x],
           UNCHANGED made \/ \E x : made' = [made EXCEPT ![n] = x]
    PROVE  OpenInv'
<1> SUFFICES ASSUME NEW t \in streams, t.open
             PROVE  /\ pc'[t.from] = pc[t.from] /\ goal'[t.from] = goal[t.from]
                    /\ made'[t.from] = made[t.from]
  BY OpenKept
<1>1. t.from \in Nodes /\ t.from # n
  BY DEF PInv, Types, Streams, OpenInv
<1> QED BY <1>1 DEF PInv, Types, Stages

LEMMA BeginsStep ==
    ASSUME PInv, NEW n \in Nodes, NEW m \in Nodes, Begins(n, m)
    PROVE  PInv'
<1>1. /\ pc[n] = "idle" /\ pc' = [pc EXCEPT ![n] = "loaded"]
      /\ goal' = [goal EXCEPT ![n] = m] /\ made' = [made EXCEPT ![n] = FALSE]
      /\ list' = [list EXCEPT ![CLI(n)] = listed[n]]
      /\ UNCHANGED <<listed, up, port, links, todo, streams>>
  BY DEF Begins
<1>2. CLI(n) \in Hosts /\ ~up[CLI(n)]
  BY <1>1, HostFacts DEF PInv, HostInv
<1>3. Types'
  BY <1>1, <1>2 DEF PInv, Types, Stages
<1>4. LinksInv'
  <2>1. \A l \in links : l.from \in Hosts /\ l.to \in Hosts
    BY DEF PInv, Types, Links
  <2> QED BY <1>1, <1>2, <2>1 DEF PInv, Types, LinksInv
<1>5. StreamsInv'
  <2>1. \A s \in streams : Daemon(s.to) \in Hosts /\ Daemon(s.to) # CLI(n)
    BY HostFacts DEF PInv, Types, Streams
  <2> QED BY <1>1, <2>1 DEF PInv, Types, StreamsInv
<1>6. HostInv' /\ MadeInv'
  BY <1>1, <1>2 DEF PInv, Types, HostInv, MadeInv
<1>7. OpenInv'
  BY <1>1, WaitingKept
<1> QED BY <1>3, <1>4, <1>5, <1>6, <1>7 DEF PInv

LEMMA NewHostStep ==
    ASSUME PInv, NEW n \in Nodes, NewHost(n)
    PROVE  PInv'
<1>1. /\ pc[n] = "loaded" /\ pc' = [pc EXCEPT ![n] = "hosted"]
      /\ up' = [up EXCEPT ![CLI(n)] = TRUE]
      /\ port' = [port EXCEPT ![CLI(n)] = "default"]
      /\ UNCHANGED <<listed, list, links, todo, goal, streams, made>>
  BY DEF NewHost, HostStarts, ListenPort
<1>2. CLI(n) \in Hosts
  BY HostFacts
<1>3. Types'
  BY <1>1, <1>2 DEF PInv, Types, Stages
<1>4. LinksInv'
  <2>1. \A l \in links : l.from \in Hosts /\ l.to \in Hosts
    BY DEF PInv, Types, Links
  <2> QED BY <1>1, <1>2, <2>1 DEF PInv, Types, LinksInv
<1>5. StreamsInv'
  <2>1. \A s \in streams : Daemon(s.to) \in Hosts
    BY HostFacts DEF PInv, Types, Streams
  <2> QED BY <1>1, <2>1 DEF PInv, Types, StreamsInv
<1>6. HostInv'
  <2> SUFFICES ASSUME NEW k \in Nodes
               PROVE  /\ pc'[k] \in {"idle", "loaded"} => ~up'[CLI(k)]
                      /\ pc'[k] \in {"hosted", "connected"} => up'[CLI(k)]
                      /\ todo[k] # {} => up'[Daemon(k)]
    BY <1>1 DEF HostInv
  <2>1. CLI(k) \in Hosts /\ Daemon(k) \in Hosts /\ (k # n => CLI(k) # CLI(n))
        /\ Daemon(k) # CLI(n)
    BY HostFacts
  <2> QED BY <1>1, <1>2, <2>1 DEF PInv, Types, HostInv
<1>7. MadeInv'
  BY <1>1 DEF PInv, Types, MadeInv
<1>8. OpenInv'
  BY <1>1, WaitingKept
<1> QED BY <1>3, <1>4, <1>5, <1>6, <1>7, <1>8 DEF PInv

LEMMA ConnectsStep ==
    ASSUME PInv, NEW n \in Nodes, Connects(n)
    PROVE  PInv'
<1>1. /\ pc[n] = "hosted" /\ pc' = [pc EXCEPT ![n] = "connected"]
      /\ UNCHANGED links \/ Dial(CLI(n), goal[n])
      /\ UNCHANGED <<listed, up, list, port, todo, goal, streams, made>>
  BY DEF Connects
<1>2. links' \subseteq Links /\ LinksInv'
  <2>1. CASE UNCHANGED links
    BY <1>1, <2>1 DEF PInv, Types, LinksInv
  <2>2. CASE Dial(CLI(n), goal[n])
    <3>1. CLI(n) \in Hosts /\ up[CLI(n)]
      BY <1>1, HostFacts DEF PInv, HostInv
    <3>2. goal[n] \in list[CLI(n)]
      BY <2>2 DEF Dial, IsTrusted
    <3>3. goal[n] \in Nodes
      BY <3>1, <3>2 DEF PInv, Types
    <3> QED BY <1>1, <2>2, <3>1, <3>3, DialLinks
  <2> QED BY <1>1, <2>1, <2>2
<1>3. Types'
  BY <1>1, <1>2 DEF PInv, Types, Stages
<1>4. StreamsInv'
  BY <1>1 DEF PInv, StreamsInv
<1>5. HostInv' /\ MadeInv'
  BY <1>1 DEF PInv, Types, HostInv, MadeInv
<1>6. OpenInv'
  BY <1>1, WaitingKept
<1> QED BY <1>2, <1>3, <1>4, <1>5, <1>6 DEF PInv

LEMMA SendsStep ==
    ASSUME PInv, NEW n \in Nodes, Sends(n)
    PROVE  PInv'
<1> DEFINE s == [from |-> n, to |-> goal[n], at |-> "arrived", open |-> TRUE]
<1>1. /\ pc[n] = "connected" /\ pc' = [pc EXCEPT ![n] = "sent"]
      /\ streams' = streams \cup {s}
      /\ UNCHANGED <<listed, up, list, port, links, todo, goal, made>>
  BY DEF Sends
<1>2. PICK l \in LinksWith(CLI(n), goal[n]) : Touches(l, Daemon(goal[n]))
  BY DEF Sends
<1>3. l \in links /\ l \in Links /\ (ID(l.to) = goal[n] \/ ID(l.from) = goal[n])
  BY <1>2 DEF LinksWith, PInv, Types
<1>4. goal[n] \in Nodes
  BY <1>3, IDType DEF Links
<1>5. up[Daemon(goal[n])]
  BY <1>2, <1>3 DEF Touches, PInv, LinksInv
<1>6. s \in Streams /\ s.to = goal[n] /\ s.at = "arrived" /\ s.from = n
  BY <1>4 DEF Streams, Places
<1> HIDE DEF s
<1>7. Types'
  BY <1>1, <1>6 DEF PInv, Types, Stages
<1>8. StreamsInv'
  BY <1>1, <1>5, <1>6 DEF PInv, StreamsInv
<1>9. LinksInv' /\ HostInv' /\ MadeInv'
  BY <1>1 DEF PInv, Types, LinksInv, HostInv, MadeInv
<1>10. OpenInv'
  <2>1. \A t \in streams : t.open => t.from \in Nodes /\ t.from # n
    BY <1>1 DEF PInv, Types, Streams, OpenInv
  <2>2. ~made[n] /\ pc'[n] = "sent" /\ \A k \in Nodes : k # n => pc'[k] = pc[k]
    BY <1>1 DEF PInv, Types, MadeInv
  <2>3. ASSUME NEW t \in streams', t.open
        PROVE  /\ pc'[t.from] = "sent" /\ goal[t.from] = t.to
               /\ \A v \in streams' : v.open /\ v.from = t.from => v = t
               /\ t.at \in {"arrived", "serving"} => ~made[t.from]
               /\ t.at \in {"started", "registered"} => made[t.from]
    <3>1. CASE t = s
      BY <1>1, <1>6, <2>1, <2>2, <3>1
    <3>2. CASE t # s
      <4>1. t \in streams
        BY <1>1, <3>2
      <4> QED BY <1>1, <1>6, <2>1, <2>2, <2>3, <4>1 DEF PInv, OpenInv
    <3> QED BY <3>1, <3>2
  <2> QED BY <1>1, <2>3 DEF OpenInv
<1> QED BY <1>7, <1>8, <1>9, <1>10 DEF PInv

LEMMA FailsStep ==
    ASSUME PInv, NEW n \in Nodes, GivesUp(n) \/ ReadFails(n)
    PROVE  PInv'
<1>1. /\ pc' = [pc EXCEPT ![n] = "failed"]
      /\ UNCHANGED <<listed, up, list, port, links, todo, goal, streams, made>>
  BY DEF GivesUp, ReadFails
<1>2. Types'
  BY <1>1 DEF PInv, Types, Stages
<1>3. LinksInv' /\ StreamsInv'
  BY <1>1 DEF PInv, LinksInv, StreamsInv
<1>4. HostInv' /\ MadeInv'
  BY <1>1 DEF PInv, Types, HostInv, MadeInv
<1>5. OpenInv'
  BY <1>1, WaitingKept DEF GivesUp, ReadFails
<1> QED BY <1>2, <1>3, <1>4, <1>5 DEF PInv

LEMMA FinishesStep ==
    ASSUME PInv, NEW n \in Nodes, Finishes(n)
    PROVE  PInv'
<1>1. /\ HostCloses(CLI(n))
      /\ up' = [up EXCEPT ![CLI(n)] = FALSE]
      /\ list' = [list EXCEPT ![CLI(n)] = {}]
      /\ port' = [port EXCEPT ![CLI(n)] = "none"]
      /\ pc' = [pc EXCEPT ![n] = "idle"] /\ goal' = [goal EXCEPT ![n] = Nobody]
      /\ made' = [made EXCEPT ![n] = FALSE]
      /\ streams' = {[s EXCEPT !.open = @ /\ s.from # n] : s \in streams}
      /\ UNCHANGED <<listed, todo>>
  BY DEF Finishes, HostCloses
<1>2. CLI(n) \in Hosts
  BY HostFacts
<1>3. links' \subseteq Links /\ LinksInv'
  BY <1>1, <1>2, CloseLinks
<1>4. \A t \in streams' :
        /\ t \in Streams /\ (t.open => t \in streams /\ t.from # n)
        /\ \E s \in streams : t.from = s.from /\ t.to = s.to /\ t.at = s.at
  <2> SUFFICES ASSUME NEW t \in streams'
               PROVE  /\ t \in Streams /\ (t.open => t \in streams /\ t.from # n)
                      /\ \E s \in streams :
                            t.from = s.from /\ t.to = s.to /\ t.at = s.at
    OBVIOUS
  <2>1. PICK s \in streams : t = [s EXCEPT !.open = s.open /\ s.from # n]
    BY <1>1
  <2>2. s \in Streams /\ (s.open /\ s.from # n) \in BOOLEAN
    BY DEF PInv, Types
  <2>3. /\ t \in Streams /\ t.from = s.from /\ t.to = s.to /\ t.at = s.at
        /\ t.open => t = s /\ t.from # n
    BY <2>1, <2>2 DEF Streams
  <2> QED BY <2>3
<1>5. Types'
  BY <1>1, <1>2, <1>3, <1>4 DEF PInv, Types, Stages
<1>6. StreamsInv'
  <2>1. \A s \in streams' : Daemon(s.to) \in Hosts /\ Daemon(s.to) # CLI(n)
    BY <1>4, HostFacts DEF Streams
  <2>2. \A s \in streams' : /\ up'[Daemon(s.to)] = up[Daemon(s.to)]
                            /\ list'[Daemon(s.to)] = list[Daemon(s.to)]
    BY <1>1, <2>1 DEF PInv, Types
  <2> QED BY <1>4, <2>2, StreamsKept
<1>7. HostInv'
  <2> SUFFICES ASSUME NEW k \in Nodes
               PROVE  /\ pc'[k] \in {"idle", "loaded"} => ~up'[CLI(k)]
                      /\ pc'[k] \in {"hosted", "connected"} => up'[CLI(k)]
                      /\ todo[k] # {} => up'[Daemon(k)]
    BY <1>1 DEF HostInv
  <2>1. CLI(k) \in Hosts /\ Daemon(k) \in Hosts /\ (k # n => CLI(k) # CLI(n))
        /\ Daemon(k) # CLI(n)
    BY HostFacts
  <2> QED BY <1>1, <1>2, <2>1 DEF PInv, Types, HostInv
<1>8. MadeInv'
  BY <1>1 DEF PInv, Types, MadeInv
<1>9. OpenInv'
  <2>1. \A t \in streams' : t.open => t \in streams /\ t.from \in Nodes \ {n}
    BY <1>4 DEF Streams
  <2>2. \A t \in streams' : t.open =>
          /\ pc'[t.from] = pc[t.from] /\ goal'[t.from] = goal[t.from]
          /\ made'[t.from] = made[t.from]
    BY <1>1, <2>1 DEF PInv, Types
  <2> QED BY <2>1, <2>2, OpenKept
<1> QED BY <1>3, <1>5, <1>6, <1>7, <1>8, <1>9 DEF PInv

-----------------------------------------------------------------------------
LEMMA PStep == PInv /\ [PeeringNext]_vars => PInv'
<1> SUFFICES ASSUME PInv, [PeeringNext]_vars PROVE PInv'
  OBVIOUS
<1>1. ASSUME NEW n \in Nodes, DaemonStarts(n) \/ DaemonEnds(n) PROVE PInv'
  BY <1>1, DaemonStartsStep, DaemonEndsStep
<1>2. ASSUME NEW n \in Nodes, Command(n) PROVE PInv'
  BY <1>2, NewHostStep, ConnectsStep, SendsStep, FailsStep, FinishesStep DEF Command
<1>3. ASSUME NEW n \in Nodes, Handler(n) PROVE PInv'
  BY <1>3, ArrivesStep, SchedulesStep, RegistersStep, RepliesStep DEF Handler
<1>4. ASSUME NEW n \in Nodes, NEW m \in Others(n),
             Edits(n, m) \/ KnownPeer(n, m) \/ Begins(n, m)
      PROVE  PInv'
  BY <1>4, EditsStep, KnownPeerStep, BeginsStep DEF Others
<1>5. ASSUME NEW l \in links, Accept(l) \/ Breaks(l) PROVE PInv'
  BY <1>5, AcceptStep, BreaksStep
<1>6. ASSUME NEW s \in streams, Hangs(s) PROVE PInv'
  BY <1>6, RegistersStep
<1>7. CASE UNCHANGED vars
  BY <1>7 DEF vars, cliVars, PInv, Types, LinksInv, StreamsInv, HostInv, OpenInv,
              MadeInv
<1> QED BY <1>1, <1>2, <1>3, <1>4, <1>5, <1>6, <1>7 DEF PeeringNext

LEMMA PInvariance == PeeringSpec => []PInv
  BY PInit, PStep, PTL DEF PeeringSpec

-----------------------------------------------------------------------------
(* The theorems *)

\* Every reachable state of the peers is type-correct, and every open request is
\* one its command waits for.
THEOREM PeeringTypeCorrect == PeeringSpec => []PeeringTypeOK
<1>1. PInv => PeeringTypeOK
  BY DEF PInv, Types, OpenInv, PeeringTypeOK
<1> QED BY <1>1, PInvariance, PTL

\* Between any number of machines, an accepted connection and a served request
\* are between peers whose gaters and handlers trust each other, whoever
\* dialled, restarted or edited a list.
THEOREM TrustIsMutual == PeeringSpec => []MutualTrust
<1>1. PInv => MutualTrust
  BY DEF PInv, LinksInv, StreamsInv, MutualTrust, IsTrusted
<1> QED BY <1>1, PInvariance, PTL

\* What a handler answers a deploy command is so: a success stands for a
\* container that was started for its request, a refusal for none, however many
\* commands, machines and broken connections there are.
THEOREM AnswersAreTrue == PeeringSpec => []AnswerIsTrue
<1>1. PInv => AnswerIsTrue
  BY DEF PInv, MadeInv, AnswerIsTrue
<1> QED BY <1>1, PInvariance, PTL
=============================================================================
