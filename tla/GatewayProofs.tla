---------------------------- MODULE GatewayProofs ----------------------------
(***************************************************************************)
(* Proofs about Gateway: the tables are right for every number of          *)
(* providers, connections, deployments and visitors.                       *)
(***************************************************************************)
EXTENDS Gateway, SequenceTheorems, TLAPS

\* What ties a connection to its provider: every message on it carries the
\* peer that dialled, so a connection registers under one PeerID only; and a
\* connection nobody reads holds nothing.
Linked ==
    \A c \in Conns :
        /\ open[c] => c \in reading
        /\ c \in reading => dialler[c] \in Peers /\ PeerID[c] \in {dialler[c], None}
        /\ c \notin reading => PeerID[c] = None /\ Routes[c] = {}
        /\ \A i \in 1..Len(sent[c]) : sent[c][i].peer = dialler[c]

GInv == GatewayTypeOK /\ Linked /\ RoutesServed /\ RoutesKept /\ TunnelsListed

USE GatewayAssumption

LEMMA InitInv == GatewayInit => GInv
  BY DEF GatewayInit, GInv, GatewayTypeOK, Linked, RoutesServed, RoutesKept,
         TunnelsListed

\* The message a reader takes off its connection.
LEMMA ReadsMessage ==
    ASSUME GInv, NEW c \in Conns, NEW type, Reads(c, type)
    PROVE  /\ c \in reading
           /\ sent[c] # <<>>
           /\ Head(sent[c]) \in Messages
           /\ Head(sent[c]).peer = dialler[c]
           /\ sent' \in [Conns -> Seq(Messages)]
           /\ \A k \in Conns : Len(sent'[k]) <= Cap
           /\ \A k \in Conns : \A i \in 1..Len(sent'[k]) :
                 sent'[k][i].peer = dialler[k]
<1>1. /\ c \in reading /\ sent[c] # <<>> /\ sent[c] \in Seq(Messages)
      /\ sent' = [sent EXCEPT ![c] = Tail(sent[c])]
      /\ \A i \in 1..Len(sent[c]) : sent[c][i].peer = dialler[c]
      /\ sent \in [Conns -> Seq(Messages)]
      /\ \A k \in Conns : Len(sent[k]) <= Cap
      /\ \A k \in Conns : \A i \in 1..Len(sent[k]) : sent[k][i].peer = dialler[k]
  BY DEF GInv, GatewayTypeOK, Linked, Reads
<1>2. Head(sent[c]) \in Messages /\ Head(sent[c]).peer = dialler[c]
  BY <1>1
<1>3. /\ Tail(sent[c]) \in Seq(Messages)
      /\ Len(Tail(sent[c])) = Len(sent[c]) - 1
      /\ \A i \in 1..Len(Tail(sent[c])) : Tail(sent[c])[i] = sent[c][i + 1]
  BY <1>1
<1>4. \A i \in 1..Len(Tail(sent[c])) : Tail(sent[c])[i].peer = dialler[c]
  BY <1>1, <1>3
<1> QED BY <1>1, <1>2, <1>3, <1>4

-----------------------------------------------------------------------------
(* One lemma per action that touches a connection or a table *)

LEMMA DialStep ==
    ASSUME GInv, NEW p \in Peers, NEW c \in Conns, Dial(p, c)
    PROVE  GInv'
<1> USE DEF GInv
<1>1. GatewayTypeOK'
  BY DEF GatewayTypeOK, Dial
<1>2. Linked'
  <2>1. sent' = [sent EXCEPT ![c] = <<>>] /\ sent \in [Conns -> Seq(Messages)]
    BY DEF Dial, GatewayTypeOK
  <2> QED BY <2>1 DEF Linked, Dial, GatewayTypeOK
<1>3. RoutesServed' /\ RoutesKept' /\ TunnelsListed'
  <2>1. /\ c \notin reading /\ PeerID[c] = None /\ Routes[c] = {}
        /\ reading' = reading \cup {c}
        /\ UNCHANGED <<PeerID, Routes, tunnels, routes, crossed, overlapped>>
    BY DEF Dial, Linked
  <2> QED BY <2>1 DEF RoutesServed, RoutesKept, TunnelsListed
<1> QED BY <1>1, <1>2, <1>3

LEMMA SendsStep ==
    ASSUME GInv, NEW c \in Conns, NEW d \in Deps,
           NEW type \in {"register", "unregister"}, Sends(c, type, d)
    PROVE  GInv'
<1> DEFINE m == [type |-> type, dep |-> d, peer |-> dialler[c]]
<1>1. dialler[c] \in Peers /\ sent[c] \in Seq(Messages) /\ Len(sent[c]) < Cap
  BY DEF GInv, Linked, GatewayTypeOK, Sends
<1>2. m \in Messages
  BY <1>1 DEF Messages
<1>3. /\ sent' = [sent EXCEPT ![c] = Append(sent[c], m)]
      /\ UNCHANGED <<dialler, open, tableVars, visit, phase>>
  BY DEF Sends
<1> HIDE DEF m
<1>4. /\ Append(sent[c], m) \in Seq(Messages)
      /\ Len(Append(sent[c], m)) = Len(sent[c]) + 1
      /\ \A i \in 1..Len(Append(sent[c], m)) :
            Append(sent[c], m)[i] = IF i = Len(sent[c]) + 1 THEN m ELSE sent[c][i]
  BY <1>1, <1>2
<1>5. GatewayTypeOK'
  BY <1>1, <1>3, <1>4 DEF GInv, GatewayTypeOK, tableVars
<1>6. m.peer = dialler[c]
  BY DEF m
<1>7. \A i \in 1..Len(Append(sent[c], m)) : Append(sent[c], m)[i].peer = dialler[c]
  BY <1>1, <1>4, <1>6 DEF GInv, Linked
<1>8. Linked'
  BY <1>3, <1>7 DEF GInv, Linked, GatewayTypeOK, tableVars
<1>9. RoutesServed' /\ RoutesKept' /\ TunnelsListed'
  BY <1>3 DEF GInv, RoutesServed, RoutesKept, TunnelsListed, tableVars
<1> QED BY <1>5, <1>8, <1>9 DEF GInv

LEMMA BreaksStep ==
    ASSUME GInv, NEW c \in Conns, Breaks(c)
    PROVE  GInv'
<1>1. GatewayTypeOK'
  BY DEF GInv, GatewayTypeOK, Breaks, tableVars
<1>2. Linked'
  BY DEF GInv, GatewayTypeOK, Linked, Breaks, tableVars
<1>3. RoutesServed' /\ RoutesKept' /\ TunnelsListed'
  BY DEF GInv, RoutesServed, RoutesKept, TunnelsListed, Breaks, tableVars
<1> QED BY <1>1, <1>2, <1>3 DEF GInv

LEMMA LosesStep ==
    ASSUME GInv, NEW c \in Conns, Loses(c)
    PROVE  GInv'
<1> DEFINE left == SubSeq(sent[c], 1, Len(sent[c]) - 1)
<1>1. /\ sent[c] # <<>> /\ sent[c] \in Seq(Messages)
      /\ sent \in [Conns -> Seq(Messages)]
      /\ sent' = [sent EXCEPT ![c] = left]
      /\ \A k \in Conns : Len(sent[k]) <= Cap
      /\ \A k \in Conns : \A i \in 1..Len(sent[k]) : sent[k][i].peer = dialler[k]
      /\ UNCHANGED <<dialler, open, tableVars, visit, phase>>
  BY DEF GInv, GatewayTypeOK, Linked, Loses
<1>2. /\ left \in Seq(Messages)
      /\ Len(left) = Len(sent[c]) - 1
      /\ \A i \in 1..Len(left) : left[i] = sent[c][i]
  <2>1. Len(sent[c]) \in Nat /\ Len(sent[c]) > 0
    BY <1>1
  <2>2. \A i \in 1..(Len(sent[c]) - 1) : sent[c][i] \in Messages
    BY <1>1, <2>1
  <2>3. left \in Seq(Messages) /\ Len(left) = Len(sent[c]) - 1
    BY <2>1, <2>2, SubSeqProperties
  <2>4. \A i \in 1..(Len(sent[c]) - 1) : left[i] = sent[c][i]
    BY <1>1, <2>1
  <2> QED BY <2>3, <2>4
<1> HIDE DEF left
<1>3. /\ sent' \in [Conns -> Seq(Messages)]
      /\ \A k \in Conns : Len(sent'[k]) <= Cap
      /\ \A k \in Conns : \A i \in 1..Len(sent'[k]) : sent'[k][i].peer = dialler[k]
  <2>1. \A k \in Conns : sent'[k] = IF k = c THEN left ELSE sent[k]
    BY <1>1
  <2>2. Len(left) <= Cap /\ \A i \in 1..Len(left) : left[i].peer = dialler[c]
    <3>1. Len(sent[c]) \in Nat /\ Len(sent[c]) <= Cap
      BY <1>1
    <3>2. Len(left) <= Cap
      BY <1>2, <3>1
    <3>3. \A i \in 1..Len(left) : i \in 1..Len(sent[c])
      BY <1>2, <3>1
    <3> QED BY <1>1, <1>2, <3>2, <3>3
  <2>3. sent' \in [Conns -> Seq(Messages)]
    BY <1>1, <1>2
  <2> QED BY <1>1, <2>1, <2>2, <2>3
<1>4. GatewayTypeOK'
  BY <1>1, <1>3 DEF GInv, GatewayTypeOK, tableVars
<1>5. Linked'
  BY <1>1, <1>3 DEF GInv, Linked, tableVars
<1>6. RoutesServed' /\ RoutesKept' /\ TunnelsListed'
  BY <1>1 DEF GInv, RoutesServed, RoutesKept, TunnelsListed, tableVars
<1> QED BY <1>4, <1>5, <1>6 DEF GInv

LEMMA RegisterStep ==
    ASSUME GInv, NEW c \in Conns, ReadRegister(c)
    PROVE  GInv'
<1> DEFINE m == Head(sent[c])
<1>1. Reads(c, "register")
  BY DEF ReadRegister
<1>2. /\ c \in reading /\ m \in Messages /\ m.peer = dialler[c]
      /\ sent' \in [Conns -> Seq(Messages)]
      /\ \A k \in Conns : Len(sent'[k]) <= Cap
      /\ \A k \in Conns : \A i \in 1..Len(sent'[k]) :
            sent'[k][i].peer = dialler[k]
  BY <1>1, ReadsMessage
<1>3. /\ PeerID' = [PeerID EXCEPT ![c] = m.peer]
      /\ Routes' = [Routes EXCEPT ![c] = Routes[c] \cup {m.dep}]
      /\ tunnels' = [tunnels EXCEPT ![m.peer] = c]
      /\ routes' = [routes EXCEPT ![m.dep] = c]
      /\ crossed' = IF OthersRouting(c, m.dep) = {} THEN crossed \ {m.dep}
                    ELSE crossed \cup {m.dep}
      /\ overlapped' = IF OthersRegistered(c, m.peer) = {} THEN overlapped \ {m.peer}
                       ELSE overlapped \cup {m.peer}
      /\ UNCHANGED <<dialler, open, reading, visit, phase>>
  BY DEF ReadRegister
<1>4. m.dep \in Deps /\ m.peer \in Peers
  BY <1>2 DEF Messages
<1> HIDE DEF m
<1>5. GatewayTypeOK'
  BY <1>2, <1>3, <1>4 DEF GInv, GatewayTypeOK
<1>6. Linked'
  BY <1>2, <1>3 DEF GInv, Linked, GatewayTypeOK
<1>7. RoutesServed'
  BY <1>2, <1>3, <1>4 DEF GInv, RoutesServed, GatewayTypeOK
<1>8. RoutesKept'
  <2> SUFFICES ASSUME NEW k \in reading, NEW d \in Routes'[k], d \notin crossed'
               PROVE  routes'[d] = k
    BY <1>3 DEF RoutesKept
  <2>1. CASE d = m.dep /\ k # c
    BY <1>2, <1>3, <2>1 DEF GInv, GatewayTypeOK, OthersRouting
  <2>2. CASE d = m.dep /\ k = c
    BY <1>3, <1>4, <2>2 DEF GInv, GatewayTypeOK
  <2>3. CASE d # m.dep
    BY <1>3, <2>3 DEF GInv, GatewayTypeOK, RoutesKept
  <2> QED BY <2>1, <2>2, <2>3
<1>9. TunnelsListed'
  <2>1. PeerID[c] \in {m.peer, None} /\ m.peer # None /\ c # None
    BY <1>2, <1>4 DEF GInv, Linked
  <2>2. ASSUME NEW p \in Peers, tunnels'[p] # None
        PROVE  tunnels'[p] \in reading' /\ PeerID'[tunnels'[p]] = p
    BY <1>2, <1>3, <1>4, <2>1, <2>2 DEF GInv, GatewayTypeOK, TunnelsListed
  <2>3. ASSUME NEW k \in reading', PeerID'[k] \notin overlapped' \cup {None}
        PROVE  tunnels'[PeerID'[k]] = k
    <3>1. CASE k = c
      BY <1>2, <1>3, <1>4, <3>1 DEF GInv, GatewayTypeOK
    <3>2. CASE k # c /\ PeerID[k] = m.peer
      BY <1>2, <1>3, <2>3, <3>2 DEF GInv, GatewayTypeOK, OthersRegistered
    <3>3. CASE k # c /\ PeerID[k] # m.peer
      BY <1>3, <1>4, <2>3, <3>3 DEF GInv, GatewayTypeOK, TunnelsListed
    <3> QED BY <3>1, <3>2, <3>3
  <2> QED BY <2>2, <2>3 DEF TunnelsListed
<1> QED BY <1>5, <1>6, <1>7, <1>8, <1>9 DEF GInv

LEMMA UnregisterStep ==
    ASSUME GInv, NEW c \in Conns, ReadUnregister(c)
    PROVE  GInv'
<1> DEFINE m == Head(sent[c])
<1>1. Reads(c, "unregister")
  BY DEF ReadUnregister
<1>2. /\ c \in reading /\ m \in Messages
      /\ sent' \in [Conns -> Seq(Messages)]
      /\ \A k \in Conns : Len(sent'[k]) <= Cap
      /\ \A k \in Conns : \A i \in 1..Len(sent'[k]) :
            sent'[k][i].peer = dialler[k]
  BY <1>1, ReadsMessage
<1>3. /\ Routes' = [Routes EXCEPT ![c] = Routes[c] \ {m.dep}]
      /\ routes' = [routes EXCEPT ![m.dep] = None]
      /\ crossed' = IF OthersRouting(c, m.dep) = {} THEN crossed
                    ELSE crossed \cup {m.dep}
      /\ UNCHANGED <<dialler, open, reading, PeerID, tunnels, overlapped, visit,
                     phase>>
  BY DEF ReadUnregister
<1>4. m.dep \in Deps
  BY <1>2 DEF Messages
<1> HIDE DEF m
<1>5. GatewayTypeOK'
  BY <1>2, <1>3, <1>4 DEF GInv, GatewayTypeOK
<1>6. Linked'
  BY <1>2, <1>3 DEF GInv, Linked, GatewayTypeOK
<1>7. RoutesServed'
  BY <1>2, <1>3, <1>4 DEF GInv, RoutesServed, GatewayTypeOK
<1>8. RoutesKept'
  <2> SUFFICES ASSUME NEW k \in reading, NEW d \in Routes'[k], d \notin crossed'
               PROVE  routes'[d] = k
    BY <1>3 DEF RoutesKept
  <2>1. CASE d = m.dep
    BY <1>2, <1>3, <2>1 DEF GInv, GatewayTypeOK, OthersRouting
  <2>2. CASE d # m.dep
    BY <1>3, <2>2 DEF GInv, GatewayTypeOK, RoutesKept
  <2> QED BY <2>1, <2>2
<1>9. TunnelsListed'
  BY <1>3 DEF GInv, TunnelsListed
<1> QED BY <1>5, <1>6, <1>7, <1>8, <1>9 DEF GInv

LEMMA CleanupStep ==
    ASSUME GInv, NEW c \in Conns, Cleanup(c)
    PROVE  GInv'
<1>1. /\ c \in reading /\ ~open[c] /\ sent[c] = <<>>
      /\ reading' = reading \ {c}
      /\ dialler' = [dialler EXCEPT ![c] = None]
      /\ PeerID' = [PeerID EXCEPT ![c] = None]
      /\ Routes' = [Routes EXCEPT ![c] = {}]
      /\ tunnels' = [p \in Peers |-> IF p = PeerID[c] THEN None ELSE tunnels[p]]
      /\ routes' = [d \in Deps |-> IF d \in Routes[c] THEN None ELSE routes[d]]
      /\ UNCHANGED <<open, sent, crossed, overlapped, visit, phase>>
  BY DEF Cleanup, ReadEnds
<1>2. GatewayTypeOK'
  BY <1>1 DEF GInv, GatewayTypeOK
<1>3. Linked'
  BY <1>1 DEF GInv, GatewayTypeOK, Linked
<1>4. RoutesServed'
  BY <1>1 DEF GInv, GatewayTypeOK, RoutesServed
<1>5. RoutesKept'
  <2> SUFFICES ASSUME NEW k \in reading, k # c, NEW d \in Routes[k], d \notin crossed
               PROVE  routes'[d] = k
    BY <1>1 DEF RoutesKept, GInv, GatewayTypeOK
  <2>1. d \in Deps /\ routes[d] = k
    BY DEF GInv, GatewayTypeOK, RoutesKept
  <2>2. d \notin Routes[c]
    BY <1>1, <2>1 DEF GInv, RoutesKept
  <2> QED BY <1>1, <2>1, <2>2
<1>6. TunnelsListed'
  <2>1. ASSUME NEW p \in Peers, tunnels'[p] # None
        PROVE  tunnels'[p] \in reading' /\ PeerID'[tunnels'[p]] = p
    BY <1>1, <2>1 DEF GInv, GatewayTypeOK, TunnelsListed
  <2>2. ASSUME NEW k \in reading', PeerID'[k] \notin overlapped' \cup {None}
        PROVE  tunnels'[PeerID'[k]] = k
    <3>1. k \in reading /\ k # c /\ PeerID'[k] = PeerID[k] /\ PeerID[k] \in Peers
      BY <1>1, <2>2 DEF GInv, GatewayTypeOK
    <3>2. tunnels[PeerID[k]] = k
      BY <1>1, <2>2, <3>1 DEF GInv, TunnelsListed
    <3>3. PeerID[k] # PeerID[c]
      BY <1>1, <2>2, <3>1, <3>2 DEF GInv, TunnelsListed
    <3> QED BY <1>1, <3>1, <3>2, <3>3
  <2> QED BY <2>1, <2>2 DEF TunnelsListed
<1> QED BY <1>2, <1>3, <1>4, <1>5, <1>6 DEF GInv

\* The steps that leave the tables alone.
LEMMA OtherSteps ==
    ASSUME GInv,
           \/ \E v \in Visitors : Leaves(v) \/ \E d \in Deps : Visit(v, d)
           \/ Signal \/ ShutdownHTTP \/ Shutdown \/ Close \/ Exit
           \/ UNCHANGED vars
    PROVE  GInv'
<1>1. UNCHANGED <<dialler, tableVars>>
  BY DEF Leaves, Visit, Signal, ShutdownHTTP, Shutdown, Close, Exit, vars, connVars
<1>2. /\ open' \in [Conns -> BOOLEAN]
      /\ \A c \in Conns : open'[c] => open[c]
      /\ sent' = sent \/ sent' = [c \in Conns |-> <<>>]
  BY DEF GInv, GatewayTypeOK, Leaves, Visit, Signal, ShutdownHTTP, Shutdown, Close, Exit,
         vars, connVars
<1>3. /\ visit' \in [Visitors -> Conns \cup {None}]
      /\ phase' \in {"serving", "draining", "drainingTLS", "drained", "closed",
                    "exited"}
  BY DEF GInv, GatewayTypeOK, Leaves, Visit, Signal, ShutdownHTTP, Shutdown, Close, Exit, vars
<1>4. GatewayTypeOK'
  <2>1. <<>> \in Seq(Messages) /\ Len(<<>>) = 0 /\ 0 <= Cap
    OBVIOUS
  <2>2. /\ sent' \in [Conns -> Seq(Messages)]
        /\ \A k \in Conns : Len(sent'[k]) <= Cap
    <3>1. CASE sent' = sent
      BY <3>1 DEF GInv, GatewayTypeOK
    <3>2. CASE sent' = [c \in Conns |-> <<>>]
      <4>1. sent' \in [Conns -> Seq(Messages)]
        BY <2>1, <3>2
      <4>2. \A k \in Conns : sent'[k] = <<>>
        BY <3>2
      <4> QED BY <2>1, <4>1, <4>2
    <3> QED BY <1>2, <3>1, <3>2
  <2> QED BY <1>1, <1>2, <1>3, <2>2 DEF GInv, GatewayTypeOK, tableVars
<1>5. Linked'
  BY <1>1, <1>2 DEF GInv, Linked, tableVars
<1>6. RoutesServed' /\ RoutesKept' /\ TunnelsListed'
  BY <1>1 DEF GInv, RoutesServed, RoutesKept, TunnelsListed, tableVars
<1> QED BY <1>4, <1>5, <1>6 DEF GInv

LEMMA StepInv == GInv /\ [GatewayNext]_vars => GInv'
<1> SUFFICES ASSUME GInv, [GatewayNext]_vars PROVE GInv'
  OBVIOUS
<1>1. ASSUME NEW c \in Conns, NEW p \in Peers, Dial(p, c) PROVE GInv'
  BY <1>1, DialStep
<1>2. ASSUME NEW c \in Conns, NEW d \in Deps,
             NEW type \in {"register", "unregister"}, Sends(c, type, d)
      PROVE  GInv'
  BY <1>2, SendsStep
<1>3. ASSUME NEW c \in Conns, Breaks(c) \/ Loses(c) PROVE GInv'
  BY <1>3, BreaksStep, LosesStep
<1>4. ASSUME NEW c \in Conns, handleTunnelConn(c) PROVE GInv'
  BY <1>4, RegisterStep, UnregisterStep, CleanupStep DEF handleTunnelConn
<1> QED BY <1>1, <1>2, <1>3, <1>4, OtherSteps DEF GatewayNext

LEMMA Invariance == GatewaySpec => []GInv
  BY InitInv, StepInv, PTL DEF GatewaySpec

-----------------------------------------------------------------------------
(* The theorems *)

\* Every reachable state of the gateway is type-correct.
THEOREM GatewayTypeCorrect == GatewaySpec => []GatewayTypeOK
  BY Invariance, PTL DEF GInv

\* A route leads to a connection in service on which the deployment was
\* registered, and no deployment in service loses its route unless its ID is
\* disputed: the tables of handleTunnelConn and its cleanup, for any number of
\* providers that lose their connections and dial again.
THEOREM RoutesRight == GatewaySpec => [](RoutesServed /\ RoutesKept)
  BY Invariance, PTL DEF GInv

\* A deployment that no other connection names keeps its route: no cleanup of
\* a connection that lingers takes away what belongs to a newer one.
THEOREM RoutesStay == GatewaySpec => []RoutesKept
  BY RoutesRight, PTL

\* Close finds every connection that registered, unless its peer registered
\* over two connections at once.
THEOREM TunnelsFound == GatewaySpec => []TunnelsListed
  BY Invariance, PTL DEF GInv
=============================================================================
