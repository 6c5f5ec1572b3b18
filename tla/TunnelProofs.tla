----------------------------- MODULE TunnelProofs -----------------------------
(***************************************************************************)
(* Proofs about Tunnel: for any number of requests and deployments and any *)
(* capacity of the connection, responses reach the request they answer and *)
(* the two ends agree on the routes.                                       *)
(***************************************************************************)
EXTENDS Tunnel, FiniteSetTheorems, SequenceTheorems, TLAPS

\* The requests that have been given an ID.
Numbered == {r \in Reqs : rid[r] # 0}

\* A request has an ID and a deployment from its routing on, and there are no
\* more IDs than requests that were routed.
Routing ==
    /\ \A r \in Reqs :
         IF rpc[r] \in {"new", "notfound"} THEN rid[r] = 0 /\ rdep[r] = None
         ELSE rid[r] # 0 /\ rdep[r] \in Deps
    /\ lastRid <= Cardinality(Numbered)

\* The pending table holds a request under its own ID, with an empty channel.
Waiting ==
    \A i \in RequestIDs : pending[i] # None =>
        /\ rid[pending[i]] = i
        /\ rpc[pending[i]] \in {"sending", "writing", "waiting", "dropping"}
        /\ inbox[pending[i]] = None

\* A response was written by the handler of a request, which has an ID; in a
\* channel it is a response to the ID of the channel's request.
IsResponse(m) == m \in Messages /\ m.type = "response" /\ rid[m.from] # 0

Responses ==
    /\ \A i \in 1..Len(toGateway) :
         toGateway[i].type = "response" => rid[toGateway[i].from] # 0
    /\ gpc \in {"confirm", "confirming"} =>
         gmsg \in Messages /\ gmsg.type = "register"
    /\ gpc = "deliver" => IsResponse(gmsg)
    /\ \A r \in Reqs : inbox[r] # None =>
         /\ rpc[r] \notin {"new", "notfound", "routed"}
         /\ IsResponse(inbox[r]) /\ rid[inbox[r].from] = rid[r]

\* A request is forwarded at most once: its handler starts with the message,
\* and a status is set only between the lookup and the answer.
Unsent == {"new", "notfound", "routed", "sending", "writing"}

Handlers ==
    /\ \A i \in 1..Len(toClient) : toClient[i].type = "request" =>
         /\ rpc[toClient[i].from] \notin Unsent /\ job[toClient[i].from] = "none"
         /\ \A j \in 1..Len(toClient) : toClient[j] = toClient[i] => j = i
    /\ \A r \in Reqs : job[r] # "none" => rpc[r] \notin Unsent
    /\ \A r \in Reqs : job[r] \notin {"send", "writing"} => status[r] = 200

\* A deployment the gateway has heard of was registered by its client, which
\* forwards for it from then on unless a stop was asked for.
Announced(d) == job[d] \in {"sent", "exposed"}

Exposed ==
    /\ \A d \in tmRoutes : Announced(d)
    /\ \A i \in 1..Len(toGateway) :
         toGateway[i].type = "register" => Announced(toGateway[i].dep)
    /\ \A r \in Reqs : rdep[r] # None => Announced(rdep[r])
    /\ \A d \in Deps : job[d] = "exposed" =>
         d \in routes \/ \E s \in Stops : target[s] = d

\* The gateway will route to d once it has read all that is on its way.
FinallyRouted(d) ==
    \/ \E i \in 1..Len(toGateway) :
          /\ toGateway[i] = RegisterMsg(d)
          /\ \A j \in 1..Len(toGateway) : toGateway[j] = UnregisterMsg(d) => j < i
    \/ d \in tmRoutes /\ \A j \in 1..Len(toGateway) : toGateway[j] # UnregisterMsg(d)

\* Some stop has written the withdrawal of d and not yet removed its route.
Leaving(d) == \E s \in Stops : target[s] = d /\ job[s] = "sent"

\* As long as the connection holds, what the gateway will know of d and what
\* the client knows of it differ only between a write and the change of the
\* client's table that follows it.
Progress(d) ==
    /\ job[d] \in {"none", "send", "writing", "sent", "exposed"}
    /\ job[d] \in {"none", "send", "writing"} => ~FinallyRouted(d) /\ d \notin routes
    /\ job[d] = "sent" => FinallyRouted(d)
    /\ job[d] = "exposed" => (FinallyRouted(d) <=> d \in routes /\ ~Leaving(d))
    /\ job[d] \in Busy => \A s \in Stops : target[s] = d => job[s] \notin Busy

Synchronised == open => connected /\ \A d \in Deps \ raced : Progress(d)

\* A stop that has begun has a deployment.
Targeted ==
    /\ \A s \in Stops : IF job[s] = "none" THEN target[s] = None ELSE target[s] \in Deps
    /\ \A s \in Stops : job[s] \in {"none", "send", "writing", "sent", "gone"}

\* A request is answered by what is in its channel.
Answered == \A r \in Reqs : rpc[r] = "answered" => inbox[r] # None

UInv == /\ TunnelTypeOK /\ Routing /\ Waiting /\ Responses /\ Answered
        /\ Handlers /\ Targeted /\ Exposed /\ Synchronised

-----------------------------------------------------------------------------
(* Constants, messages and queues *)

LEMMA Consts ==
    /\ Cap \in Nat /\ Cap > 0 /\ Cardinality(Reqs) \in Nat
    /\ \A r \in Reqs : r \notin Deps /\ r # None /\ r # Free
    /\ \A d \in Deps : d \notin Reqs /\ d # None /\ d # Free
    /\ \A s \in Stops : s \notin Reqs /\ s \notin Deps
    /\ Reqs \subseteq Jobs /\ Deps \subseteq Jobs /\ Stops \subseteq Jobs
    /\ \A p \in Jobs : p \in Reqs \/ p \in Deps \/ p \in Stops
  BY TunnelAssumption, FS_CardinalityType DEF TunnelAssumption, Jobs

LEMMA MessageFacts ==
    /\ \A m \in Messages :
         /\ m.type \in {"register", "unregister", "registered", "request", "response"}
         /\ m.type \in {"register", "unregister"} =>
              m.dep \in Deps /\ m = [type |-> m.type, dep |-> m.dep]
         /\ m.type = "request" => m.from \in Reqs /\ m = RequestMsg(m.from)
         /\ m.type = "response" => m.from \in Reqs
    /\ \A d \in Deps :
         /\ RegisterMsg(d) \in Messages
         /\ RegisterMsg(d).type = "register" /\ RegisterMsg(d).dep = d
         /\ UnregisterMsg(d) \in Messages
         /\ UnregisterMsg(d).type = "unregister" /\ UnregisterMsg(d).dep = d
         /\ ConfirmMsg(d) \in Messages /\ ConfirmMsg(d).type = "registered"
    /\ \A r \in Reqs :
         /\ RequestMsg(r) \in Messages
         /\ RequestMsg(r).type = "request" /\ RequestMsg(r).from = r
<1>1. \A m \in [type : {"register", "unregister", "registered"}, dep : Deps] :
        m.type \in {"register", "unregister", "registered"} /\ m.dep \in Deps
        /\ m = [type |-> m.type, dep |-> m.dep]
  OBVIOUS
<1>2. \A m \in [type : {"request"}, from : Reqs] :
        m.type = "request" /\ m.from \in Reqs /\ m = RequestMsg(m.from)
  BY DEF RequestMsg
<1>3. \A m \in [type : {"response"}, from : Reqs, code : Statuses] :
        m.type = "response" /\ m.from \in Reqs
  OBVIOUS
<1>4. \A m \in Messages :
         /\ m.type \in {"register", "unregister", "registered", "request", "response"}
         /\ m.type \in {"register", "unregister"} =>
              m.dep \in Deps /\ m = [type |-> m.type, dep |-> m.dep]
         /\ m.type = "request" => m.from \in Reqs /\ m = RequestMsg(m.from)
         /\ m.type = "response" => m.from \in Reqs
  BY <1>1, <1>2, <1>3 DEF Messages
<1>5. ASSUME NEW d \in Deps
      PROVE  /\ RegisterMsg(d) \in Messages
             /\ RegisterMsg(d).type = "register" /\ RegisterMsg(d).dep = d
             /\ UnregisterMsg(d) \in Messages
             /\ UnregisterMsg(d).type = "unregister" /\ UnregisterMsg(d).dep = d
             /\ ConfirmMsg(d) \in Messages /\ ConfirmMsg(d).type = "registered"
  BY DEF Messages, RegisterMsg, UnregisterMsg, ConfirmMsg
<1>6. ASSUME NEW r \in Reqs
      PROVE  /\ RequestMsg(r) \in Messages
             /\ RequestMsg(r).type = "request" /\ RequestMsg(r).from = r
  BY DEF Messages, RequestMsg
<1> QED BY <1>4, <1>5, <1>6

\* Taking the first message off a queue, and putting one at its end.
LEMMA TakeFacts ==
    ASSUME NEW q \in Seq(Messages), q # <<>>
    PROVE  /\ Len(q) \in Nat /\ Len(q) > 0 /\ 1 \in 1..Len(q)
           /\ Head(q) = q[1] /\ Head(q) \in Messages
           /\ Tail(q) \in Seq(Messages) /\ Len(Tail(q)) = Len(q) - 1
           /\ \A i \in 1..Len(Tail(q)) :
                i + 1 \in 1..Len(q) /\ Tail(q)[i] = q[i + 1]
           /\ \A j \in 1..Len(q) : j # 1 =>
                j - 1 \in 1..Len(Tail(q)) /\ Tail(q)[j - 1] = q[j]
<1>1. Len(q) \in Nat /\ Len(q) > 0 /\ Head(q) = q[1] /\ Head(q) \in Messages
  OBVIOUS
<1>2. /\ Tail(q) \in Seq(Messages) /\ Len(Tail(q)) = Len(q) - 1
      /\ \A i \in 1..(Len(q) - 1) : Tail(q)[i] = q[i + 1]
  BY <1>1
<1> QED BY <1>1, <1>2

LEMMA PutFacts ==
    ASSUME NEW q \in Seq(Messages), NEW m \in Messages
    PROVE  /\ Append(q, m) \in Seq(Messages)
           /\ Len(q) \in Nat /\ Len(Append(q, m)) = Len(q) + 1
           /\ \A i \in 1..Len(q) : Append(q, m)[i] = q[i]
           /\ Append(q, m)[Len(q) + 1] = m
           /\ Len(q) < Cap => Len(Append(q, m)) <= Cap
  BY Consts

\* The message a client's goroutine writes.
LEMMA OutFacts ==
    ASSUME TunnelTypeOK, Targeted, NEW p \in Jobs, job[p] = "writing"
    PROVE  /\ OutMsg(p) \in Messages
           /\ p \in Reqs => OutMsg(p).type = "response" /\ OutMsg(p).from = p
           /\ p \in Deps => OutMsg(p) = RegisterMsg(p)
           /\ p \in Stops => target[p] \in Deps /\ OutMsg(p) = UnregisterMsg(target[p])
<1>1. CASE p \in Reqs
  <2>1. status[p] \in Statuses
    BY <1>1 DEF TunnelTypeOK
  <2> QED BY <1>1, <2>1, Consts DEF OutMsg, ResponseMsg, Messages
<1>2. CASE p \in Deps
  BY <1>2, Consts, MessageFacts DEF OutMsg
<1>3. CASE p \in Stops
  <2>1. target[p] \in Deps
    BY <1>3 DEF Targeted
  <2> QED BY <1>3, <2>1, Consts, MessageFacts DEF OutMsg
<1> QED BY <1>1, <1>2, <1>3, Consts

-----------------------------------------------------------------------------
LEMMA UInit == TunnelInit => UInv
<1> SUFFICES ASSUME TunnelInit PROVE UInv
  OBVIOUS
<1>1. /\ toClient = <<>> /\ toGateway = <<>> /\ <<>> \in Seq(Messages)
      /\ Len(<<>>) = 0 /\ 1..0 = {}
  BY DEF TunnelInit
<1>2. TunnelTypeOK
  BY <1>1, Consts DEF TunnelInit, TunnelTypeOK, Ended, Statuses
<1>3. Routing
  <2>1. Numbered = {}
    BY DEF TunnelInit, Numbered
  <2>2. Cardinality({}) = 0
    BY FS_EmptySet
  <2> QED BY <2>1, <2>2 DEF TunnelInit, Routing
<1>4. Waiting /\ Responses /\ Answered /\ Handlers /\ Targeted /\ Exposed
  BY <1>1, Consts
  DEF TunnelInit, Waiting, Responses, Answered, Handlers, Targeted, Exposed
<1>5. Synchronised
  <2>1. \A d \in Deps : ~FinallyRouted(d) /\ job[d] = "none"
    BY <1>1, Consts DEF TunnelInit, FinallyRouted
  <2> QED BY <2>1 DEF TunnelInit, Synchronised, Progress, Busy
<1> QED BY <1>2, <1>3, <1>4, <1>5 DEF UInv

-----------------------------------------------------------------------------
(* Types *)

\* Routing a request uses at most one more ID, and there is one for everybody.
LEMMA RouteEffect ==
    ASSUME UInv, NEW r \in Reqs, Route(r)
    PROVE  /\ Routing'
           /\ rid' \in [Reqs -> 0..Cardinality(Reqs)]
           /\ lastRid' \in 0..Cardinality(Reqs)
<1>0. /\ rpc[r] = "new" /\ rid[r] = 0 /\ rdep[r] = None
      /\ rid \in [Reqs -> 0..Cardinality(Reqs)] /\ rdep \in [Reqs -> Deps \cup {None}]
      /\ lastRid \in 0..Cardinality(Reqs) /\ Cardinality(Reqs) \in Nat
      /\ DOMAIN rpc = Reqs
  BY Consts DEF Route, UInv, TunnelTypeOK, Routing
<1>1. CASE rpc' = [rpc EXCEPT ![r] = "notfound"] /\ UNCHANGED <<rdep, rid, lastRid>>
  <2>1. Numbered' = Numbered
    BY <1>1 DEF Numbered
  <2> QED BY <1>0, <1>1, <2>1 DEF UInv, Routing
<1>2. ASSUME NEW d \in Deps, NEW i \in NewRequestIDs,
             rdep' = [rdep EXCEPT ![r] = d], rid' = [rid EXCEPT ![r] = i],
             lastRid' = i, rpc' = [rpc EXCEPT ![r] = "routed"]
      PROVE  Routing' /\ rid' \in [Reqs -> 0..Cardinality(Reqs)]
             /\ lastRid' \in 0..Cardinality(Reqs)
  <2>1. i \in Nat /\ i > 0 /\ i <= lastRid + 1
    BY <1>0 DEF NewRequestIDs
  <2>2. Numbered' = Numbered \cup {r} /\ r \notin Numbered
    BY <1>0, <1>2, <2>1 DEF Numbered
  <2>3. IsFiniteSet(Numbered)
    BY TunnelAssumption, FS_Subset DEF TunnelAssumption, Numbered
  <2>4. /\ Cardinality(Numbered') = Cardinality(Numbered) + 1
        /\ Cardinality(Numbered) \in Nat
    BY <2>2, <2>3, FS_AddElement, FS_CardinalityType
  <2>5. Cardinality(Numbered') <= Cardinality(Reqs)
    BY TunnelAssumption, FS_Subset DEF TunnelAssumption, Numbered
  <2>6. lastRid <= Cardinality(Numbered)
    BY DEF UInv, Routing
  <2>7. i <= Cardinality(Numbered') /\ i \in 0..Cardinality(Reqs)
    BY <1>0, <2>1, <2>4, <2>5, <2>6
  <2> QED BY <1>0, <1>2, <2>1, <2>7 DEF UInv, Routing
<1> QED BY <1>1, <1>2 DEF Route

LEMMA TypeStep == UInv /\ [TunnelNext]_vars => TunnelTypeOK'
<1> SUFFICES ASSUME UInv, [TunnelNext]_vars PROVE TunnelTypeOK'
  OBVIOUS
<1> USE DEF connVars, gatewayVars, clientVars, TunnelTypeOK
<1>0. TunnelTypeOK
  BY DEF UInv
<1>1. ASSUME NEW r \in Reqs, Route(r) PROVE TunnelTypeOK'
  <2>1. rid' \in [Reqs -> 0..Cardinality(Reqs)] /\ lastRid' \in 0..Cardinality(Reqs)
    BY <1>1, RouteEffect
  <2>2. rpc' \in {[rpc EXCEPT ![r] = "routed"], [rpc EXCEPT ![r] = "notfound"]}
        /\ rdep' \in [Reqs -> Deps \cup {None}]
    BY <1>0, <1>1 DEF Route
  <2> QED BY <1>0, <1>1, <2>1, <2>2 DEF Route, Ended
<1>2. ASSUME NEW r \in Reqs, Request(r) PROVE TunnelTypeOK'
  <2>1. CASE SendWrites(r)
    <3>1. toClient' = toClient
          \/ (Len(toClient) < Cap /\ toClient' = Append(toClient, RequestMsg(r)))
      BY <2>1 DEF SendWrites
    <3>2. RequestMsg(r) \in Messages
      BY MessageFacts
    <3>3. toClient' \in Seq(Messages) /\ Len(toClient') <= Cap
      <4>1. toClient \in Seq(Messages) /\ Len(toClient) <= Cap
        BY <1>0
      <4> QED BY <3>1, <3>2, <4>1, PutFacts
    <3> QED BY <1>0, <2>1, <3>3 DEF SendWrites
  <2>2. CASE SetPending(r) \/ SendLocks(r) \/ Receive(r) \/ TimesOut(r)
             \/ DropPending(r)
    BY <1>0, <2>2 DEF SetPending, SendLocks, Receive, TimesOut, DropPending, Ended
  <2> QED BY <1>2, <2>1, <2>2 DEF Request
<1>3. ASSUME NEW p \in Jobs, ClientLocks(p) \/ ClientWrites(p)
      PROVE  TunnelTypeOK'
  <2>1. CASE ClientWrites(p)
    <3>1. toGateway' = toGateway
          \/ (Len(toGateway) < Cap /\ toGateway' = Append(toGateway, OutMsg(p)))
      BY <2>1 DEF ClientWrites
    <3>2. OutMsg(p) \in Messages
      BY <1>0, <2>1, OutFacts DEF ClientWrites, UInv
    <3>3. toGateway' \in Seq(Messages) /\ Len(toGateway') <= Cap
      <4>1. toGateway \in Seq(Messages) /\ Len(toGateway) <= Cap
        BY <1>0
      <4> QED BY <3>1, <3>2, <4>1, PutFacts
    <3>4. status' \in [Reqs -> Statuses]
      BY <1>0, <2>1 DEF ClientWrites, Statuses
    <3>5. \E q \in {"sent", "gone"} : job' = [job EXCEPT ![p] = q]
      BY <2>1 DEF ClientWrites
    <3> QED BY <1>0, <2>1, <3>3, <3>4, <3>5 DEF ClientWrites
  <2>2. CASE ClientLocks(p)
    BY <1>0, <2>2 DEF ClientLocks
  <2> QED BY <1>3, <2>1, <2>2
<1>4. ASSUME NEW r \in Reqs, Lookup(r) \/ Forward(r) PROVE TunnelTypeOK'
  <2>1. status' \in {status, [status EXCEPT ![r] = 200], [status EXCEPT ![r] = 404],
                     [status EXCEPT ![r] = 502]}
        /\ job' \in {[job EXCEPT ![r] = "forward"], [job EXCEPT ![r] = "send"]}
        /\ UNCHANGED <<connVars, gatewayVars, cmu, connected, routes, cpc, target, raced>>
    BY <1>4 DEF Lookup, Forward
  <2>2. status' \in [Reqs -> Statuses]
    <3>1. status \in [Reqs -> Statuses] /\ 200 \in Statuses /\ 404 \in Statuses
          /\ 502 \in Statuses
      BY <1>0 DEF Statuses
    <3> QED BY <2>1, <3>1
  <2>3. job' \in [Jobs -> {"none", "lookup", "forward", "send",
                          "writing", "sent", "exposed", "gone"}]
    <3>1. job \in [Jobs -> {"none", "lookup", "forward", "send",
                            "writing", "sent", "exposed", "gone"}]
      BY <1>0
    <3> QED BY <2>1, <3>1
  <2> QED BY <1>0, <2>1, <2>2, <2>3
<1>5. ASSUME NEW d \in Deps, RegisterBegins(d) \/ SetRoute(d)
      PROVE  TunnelTypeOK'
  BY <1>0, <1>5, Consts DEF RegisterBegins, SetRoute
<1>10. ASSUME NEW s \in Stops, UnregisterBegins(s) \/ RemoveRoute(s)
       PROVE  TunnelTypeOK'
  <2>1. CASE UnregisterBegins(s)
    <3>1. /\ target' \in [Stops -> Deps \cup {None}] /\ raced' \subseteq Deps
      BY <1>0, <2>1 DEF UnregisterBegins
    <3>2. job' \in [Jobs -> {"none", "lookup", "forward", "send", "writing", "sent",
                            "exposed", "gone"}]
      BY <1>0, <2>1, Consts DEF UnregisterBegins
    <3> QED BY <1>0, <2>1, <3>1, <3>2 DEF UnregisterBegins
  <2>2. CASE RemoveRoute(s)
    BY <1>0, <2>2, Consts DEF RemoveRoute
  <2> QED BY <1>10, <2>1, <2>2
<1>6. CASE GatewayReader
  <2>1. CASE ReadRegister \/ ReadUnregister \/ ReadResponse
    <3>1. toGateway # <<>> /\ toGateway' = Tail(toGateway)
      BY <2>1 DEF ReadRegister, ReadUnregister, ReadResponse
    <3>2. /\ toGateway' \in Seq(Messages) /\ Len(toGateway') <= Cap
          /\ Head(toGateway) \in Messages
          /\ Head(toGateway).type \in {"register", "unregister"} =>
               Head(toGateway).dep \in Deps
      BY <1>0, <3>1, TakeFacts, MessageFacts, Consts
    <3> QED BY <1>0, <2>1, <3>2 DEF ReadRegister, ReadUnregister, ReadResponse
  <2>2. CASE ConfirmWrites
    <3>1. gmsg.dep \in Deps
      BY <2>2, MessageFacts DEF ConfirmWrites, UInv, Responses
    <3>2. toClient' = toClient
          \/ (Len(toClient) < Cap /\ toClient' = Append(toClient, ConfirmMsg(gmsg.dep)))
      BY <2>2 DEF ConfirmWrites
    <3>3. toClient' \in Seq(Messages) /\ Len(toClient') <= Cap
      <4>1. toClient \in Seq(Messages) /\ Len(toClient) <= Cap
            /\ ConfirmMsg(gmsg.dep) \in Messages
        BY <1>0, <3>1, MessageFacts
      <4> QED BY <3>2, <4>1, PutFacts
    <3> QED BY <1>0, <2>2, <3>3 DEF ConfirmWrites
  <2>3. CASE Deliver
    <3>1. gmsg \in Messages
      BY <2>3 DEF Deliver, UInv, Responses, IsResponse
    <3> QED BY <1>0, <2>3, <3>1 DEF Deliver
  <2>4. CASE ConfirmLocks \/ Cleanup
    BY <1>0, <2>4 DEF ConfirmLocks, Cleanup
  <2> QED BY <1>6, <2>1, <2>2, <2>3, <2>4 DEF GatewayReader
<1>7. CASE ClientReader
  <2>1. CASE ReaderReads
    <3>1. toClient' \in Seq(Messages) /\ Len(toClient') <= Cap
      BY <1>0, <2>1, TakeFacts, Consts DEF ReaderReads
    <3> QED BY <1>0, <2>1, <3>1 DEF ReaderReads
  <2>2. CASE ReaderLocks \/ ReaderEnds
    BY <1>0, <2>2 DEF ReaderLocks, ReaderEnds
  <2> QED BY <1>7, <2>1, <2>2 DEF ClientReader
<1>8. CASE Breaks \/ Close
  <2>1. <<>> \in Seq(Messages) /\ Len(<<>>) = 0 /\ 0 <= Cap
    BY Consts
  <2>2. /\ toClient' \in {toClient, <<>>} /\ toGateway' \in {toGateway, <<>>}
        /\ open' = FALSE /\ connected' \in {connected, FALSE}
        /\ UNCHANGED <<gatewayVars, cmu, routes, cpc, job, status, target, raced>>
    BY <1>8 DEF Breaks, Close
  <2>3. /\ toClient' \in Seq(Messages) /\ Len(toClient') <= Cap
        /\ toGateway' \in Seq(Messages) /\ Len(toGateway') <= Cap
    BY <1>0, <2>1, <2>2
  <2> QED BY <1>0, <2>2, <2>3
<1>9. CASE UNCHANGED vars
  BY <1>0, <1>9 DEF vars
<1> QED
  BY <1>1, <1>2, <1>3, <1>4, <1>5, <1>6, <1>7, <1>8, <1>9, <1>10, Consts
  DEF TunnelNext, handleRequest, Exposure, Withdrawal

-----------------------------------------------------------------------------
(* Stops *)

LEMMA TargetedStep == UInv /\ [TunnelNext]_vars => Targeted'
<1> SUFFICES ASSUME UInv, [TunnelNext]_vars PROVE Targeted'
  OBVIOUS
<1> USE DEF connVars, gatewayVars, clientVars, Targeted
<1>0. DOMAIN job = Jobs /\ DOMAIN target = Stops /\ Targeted
  BY DEF UInv, TunnelTypeOK
<1>1. CASE target' = target /\ \A s \in Stops : job'[s] = job[s]
  BY <1>0, <1>1
<1>2. ASSUME NEW s \in Stops, UnregisterBegins(s) \/ Withdrawal(s) PROVE Targeted'
  <2>1. CASE UnregisterBegins(s)
    BY <1>0, <2>1, Consts DEF UnregisterBegins
  <2>2. CASE Withdrawal(s)
    <3>1. /\ target' = target /\ job[s] # "none"
          /\ \E q \in {"writing", "sent", "gone"} : job' = [job EXCEPT ![s] = q]
      BY <2>2, Consts DEF Withdrawal, ClientLocks, ClientWrites, RemoveRoute
    <3> QED BY <1>0, <3>1, Consts
  <2> QED BY <1>2, <2>1, <2>2
<1>3. ASSUME NEW d \in Deps, RegisterBegins(d) \/ Exposure(d)
      PROVE  target' = target /\ \A s \in Stops : job'[s] = job[s]
  BY <1>0, <1>3, Consts DEF RegisterBegins, Exposure, ClientLocks, ClientWrites, SetRoute
<1>4. ASSUME NEW r \in Reqs, handleRequest(r)
      PROVE  target' = target /\ \A s \in Stops : job'[s] = job[s]
  BY <1>0, <1>4, Consts DEF handleRequest, Lookup, Forward, ClientLocks, ClientWrites
<1>5. ASSUME NEW r \in Reqs, Route(r) \/ Request(r)
      PROVE  UNCHANGED <<target, job>>
  BY <1>5 DEF Route, Request, SetPending, SendLocks, SendWrites, Receive, TimesOut,
     DropPending
<1>6. CASE ReaderReads
  <2>1. Head(toClient).type = "request" => Head(toClient).from \in Reqs
    BY <1>6, TakeFacts, MessageFacts DEF ReaderReads, UInv, TunnelTypeOK
  <2>2. target' = target /\ \A s \in Stops : job'[s] = job[s]
    BY <1>0, <1>6, <2>1, Consts DEF ReaderReads
  <2> QED BY <1>1, <2>2
<1>7. CASE GatewayReader \/ ReaderLocks \/ ReaderEnds \/ Breaks \/ Close \/ UNCHANGED vars
  <2>1. UNCHANGED <<target, job>>
    BY <1>7 DEF GatewayReader, ReadRegister, ConfirmLocks, ConfirmWrites,
       ReadUnregister, ReadResponse, Deliver, Cleanup, ReaderLocks, ReaderEnds, Breaks,
       Close, vars
  <2> QED BY <1>1, <2>1
<1> QED
  BY <1>1, <1>2, <1>3, <1>4, <1>5, <1>6, <1>7 DEF TunnelNext, ClientReader

-----------------------------------------------------------------------------
(* The gateway's side: IDs, the pending table and the channels *)

GatewayInv == Routing /\ Waiting /\ Responses

\* The responses on their way, as Responses has them.
LEMMA GatewaySame ==
    ASSUME UInv, UNCHANGED gatewayVars,
           \A i \in 1..Len(toGateway') : toGateway'[i].type = "response" =>
               rid[toGateway'[i].from] # 0
    PROVE  GatewayInv'
<1>1. Routing'
  <2>1. Numbered' = Numbered
    BY DEF gatewayVars, Numbered
  <2> QED BY <2>1 DEF UInv, Routing, gatewayVars
<1>2. Waiting'
  BY DEF UInv, Waiting, gatewayVars
<1>3. Responses'
  BY DEF UInv, Responses, IsResponse, gatewayVars
<1> QED BY <1>1, <1>2, <1>3 DEF GatewayInv

LEMMA GatewayRoute ==
    ASSUME UInv, NEW r \in Reqs, Route(r)
    PROVE  GatewayInv'
<1>1. /\ rpc[r] = "new" /\ rid[r] = 0 /\ Routing'
      /\ \A q \in Reqs \ {r} : rpc'[q] = rpc[q] /\ rid'[q] = rid[q]
      /\ UNCHANGED <<pending, inbox, gpc, gmsg, toGateway>>
  BY RouteEffect DEF Route, UInv, Routing, TunnelTypeOK, connVars
<1>2. Waiting'
  <2>1. \A i \in RequestIDs : pending[i] # None => pending[i] \in Reqs
    BY DEF UInv, TunnelTypeOK
  <2> QED BY <1>1, <2>1 DEF UInv, Waiting
<1>3. Responses'
  <2>1. \A m \in Messages : IsResponse(m) => m.from \in Reqs \ {r} /\ IsResponse(m)'
    BY <1>1, MessageFacts DEF IsResponse
  <2>2. \A i \in 1..Len(toGateway') :
          toGateway'[i].type = "response" => rid'[toGateway'[i].from] # 0
    <3> SUFFICES ASSUME NEW i \in 1..Len(toGateway), toGateway[i].type = "response"
                 PROVE  rid'[toGateway[i].from] # 0
      BY <1>1
    <3>1. toGateway[i] \in Messages
      BY DEF UInv, TunnelTypeOK
    <3>2. toGateway[i].from \in Reqs /\ rid[toGateway[i].from] # 0
      BY <3>1, MessageFacts DEF UInv, Responses
    <3> QED BY <1>1, <3>2
  <2>3. ASSUME NEW q \in Reqs, inbox[q] # None
        PROVE  /\ rpc'[q] \notin {"new", "notfound", "routed"}
               /\ IsResponse(inbox[q])' /\ rid'[inbox[q].from] = rid'[q]
    <3>1. /\ rpc[q] \notin {"new", "notfound", "routed"}
          /\ IsResponse(inbox[q]) /\ rid[inbox[q].from] = rid[q]
          /\ inbox[q] \in Messages
      BY <2>3 DEF UInv, Responses, IsResponse
    <3>2. q # r /\ inbox[q].from \in Reqs \ {r}
      BY <1>1, <2>1, <3>1
    <3> QED BY <1>1, <2>1, <3>1, <3>2
  <2> QED BY <1>1, <2>1, <2>2, <2>3 DEF UInv, Responses, IsResponse
<1> QED BY <1>1, <1>2, <1>3 DEF GatewayInv

\* A step of one request keeps everybody's ID and the messages.
LEMMA GatewayRequest ==
    ASSUME UInv, NEW r \in Reqs, Request(r)
    PROVE  GatewayInv'
<1>1. /\ UNCHANGED <<rid, rdep, lastRid, inbox, gpc, gmsg, toGateway>>
      /\ \A q \in Reqs \ {r} : rpc'[q] = rpc[q]
      /\ rpc[r] \in {"routed", "sending", "writing", "waiting", "dropping"}
      /\ rpc'[r] \in {"sending", "writing", "waiting", "dropping", "answered", "failed"}
  BY DEF Request, SetPending, SendLocks, SendWrites, Receive, TimesOut, DropPending,
         connVars, UInv, TunnelTypeOK
<1>2. Routing'
  <2>1. Numbered' = Numbered
    BY <1>1 DEF Numbered
  <2> QED BY <1>1, <2>1 DEF UInv, Routing
<1>3. Responses'
  BY <1>1 DEF UInv, Responses, IsResponse
<1>4. Waiting'
  <2>1. rid[r] \in RequestIDs /\ r # None /\ pending \in [RequestIDs -> Reqs \cup {None}]
    <3>1. rid[r] # 0
      BY <1>1 DEF UInv, Routing
    <3>2. rid[r] \in 0..Cardinality(Reqs) /\ pending \in [RequestIDs -> Reqs \cup {None}]
      BY DEF UInv, TunnelTypeOK
    <3> QED BY <3>1, <3>2, Consts DEF RequestIDs
  <2>2. CASE SetPending(r)
    <3>1. inbox[r] = None /\ rpc[r] = "routed" /\ rpc'[r] = "sending"
          /\ pending' = [pending EXCEPT ![rid[r]] = r]
      BY <2>2 DEF SetPending, UInv, Responses, TunnelTypeOK
    <3> QED BY <1>1, <2>1, <3>1 DEF UInv, Waiting
  <2>3. CASE SendLocks(r) \/ SendWrites(r) \/ TimesOut(r)
    <3>1. /\ UNCHANGED pending
          /\ rpc'[r] \in {"sending", "writing", "waiting", "dropping"}
      BY <2>3 DEF SendLocks, SendWrites, TimesOut, UInv, TunnelTypeOK
    <3> QED BY <1>1, <2>1, <3>1 DEF UInv, Waiting
  <2>4. CASE Receive(r)
    <3>1. UNCHANGED pending /\ inbox[r] # None
      BY <2>4 DEF Receive
    <3> QED BY <1>1, <2>1, <3>1 DEF UInv, Waiting
  <2>5. CASE DropPending(r)
    <3>1. pending' = [pending EXCEPT ![rid[r]] = None]
      BY <2>5 DEF DropPending
    <3> QED BY <1>1, <2>1, <3>1 DEF UInv, Waiting
  <2> QED BY <2>2, <2>3, <2>4, <2>5 DEF Request
<1> QED BY <1>2, <1>3, <1>4 DEF GatewayInv

LEMMA GatewayReads ==
    ASSUME UInv, ReadRegister \/ ReadUnregister \/ ReadResponse
    PROVE  GatewayInv'
<1>1. /\ toGateway # <<>> /\ toGateway' = Tail(toGateway)
      /\ toGateway \in Seq(Messages)
      /\ UNCHANGED <<rid, rdep, lastRid, rpc, pending, inbox>>
  BY DEF ReadRegister, ReadUnregister, ReadResponse, UInv, TunnelTypeOK
<1>2. \A i \in 1..Len(toGateway') : toGateway'[i].type = "response" =>
         rid[toGateway'[i].from] # 0
  BY <1>1, TakeFacts DEF UInv, Responses
<1>3. /\ gpc' = "confirm" => gmsg' \in Messages /\ gmsg'.type = "register"
      /\ gpc' = "deliver" => IsResponse(gmsg')
      /\ gpc' \in {"confirm", "deliver", "reading"}
  <2>1. Head(toGateway) = toGateway[1] /\ Head(toGateway) \in Messages
        /\ 1 \in 1..Len(toGateway)
    BY <1>1, TakeFacts
  <2> QED
    BY <2>1 DEF ReadRegister, ReadUnregister, ReadResponse, UInv, Responses, IsResponse
<1>4. Numbered' = Numbered
  BY <1>1 DEF Numbered
<1>5. Routing' /\ Waiting'
  BY <1>1, <1>4 DEF UInv, Routing, Waiting
<1>6. Responses'
  BY <1>1, <1>2, <1>3 DEF UInv, Responses, IsResponse
<1> QED BY <1>5, <1>6 DEF GatewayInv

LEMMA GatewayDeliver ==
    ASSUME UInv, Deliver
    PROVE  GatewayInv'
<1>1. /\ UNCHANGED <<rid, rdep, lastRid, rpc, toGateway>>
      /\ gpc = "deliver" /\ gpc' = "reading" /\ IsResponse(gmsg)
  BY DEF Deliver, connVars, UInv, Responses
<1>2. gmsg.from \in Reqs /\ rid[gmsg.from] \in RequestIDs
  BY <1>1, MessageFacts, Consts DEF IsResponse, UInv, TunnelTypeOK, RequestIDs
<1>3. PICK i \in RequestIDs : i = rid[gmsg.from]
  BY <1>2
<1>4. Routing'
  <2>1. Numbered' = Numbered
    BY <1>1 DEF Numbered
  <2> QED BY <1>1, <2>1 DEF UInv, Routing
<1>5. CASE pending[i] = None
  <2>1. UNCHANGED <<pending, inbox>>
    BY <1>3, <1>5 DEF Deliver
  <2>2. Waiting'
    BY <1>1, <2>1 DEF UInv, Waiting
  <2>3. Responses'
    BY <1>1, <2>1 DEF UInv, Responses, IsResponse
  <2> QED BY <1>4, <2>2, <2>3 DEF GatewayInv
<1>6. CASE pending[i] # None
  <2>1. PICK to \in Reqs : to = pending[i]
    BY <1>6 DEF UInv, TunnelTypeOK
  <2>2. /\ inbox' = [inbox EXCEPT ![to] = gmsg]
        /\ pending' = [pending EXCEPT ![i] = None]
    BY <1>3, <1>6, <2>1 DEF Deliver
  <2>3. /\ rid[to] = i
        /\ rpc[to] \in {"sending", "writing", "waiting", "dropping"}
        /\ \A j \in RequestIDs : pending[j] = to => j = i
    BY <1>6, <2>1, Consts DEF UInv, Waiting
  <2>4. pending \in [RequestIDs -> Reqs \cup {None}] /\ DOMAIN inbox = Reqs
    BY DEF UInv, TunnelTypeOK
  <2>5. Waiting'
    BY <1>1, <2>2, <2>3, <2>4 DEF UInv, Waiting
  <2>6. Responses'
    <3>1. \A q \in Reqs : inbox'[q] = IF q = to THEN gmsg ELSE inbox[q]
      BY <2>2, <2>4
    <3> QED BY <1>1, <1>3, <2>3, <3>1 DEF UInv, Responses, IsResponse
  <2> QED BY <1>4, <2>5, <2>6 DEF GatewayInv
<1> QED BY <1>5, <1>6

LEMMA GatewayOther ==
    ASSUME UInv, ConfirmLocks \/ ConfirmWrites \/ Cleanup
    PROVE  GatewayInv'
<1>1. /\ UNCHANGED <<rid, rdep, lastRid, rpc, pending, inbox, toGateway>>
      /\ \/ gpc' \in {"reading", "closed"}
         \/ gpc' = "confirming" /\ gpc = "confirm" /\ UNCHANGED gmsg
  BY DEF ConfirmLocks, ConfirmWrites, Cleanup, connVars
<1>2. Numbered' = Numbered
  BY <1>1 DEF Numbered
<1>3. Routing' /\ Waiting'
  BY <1>1, <1>2 DEF UInv, Routing, Waiting
<1>4. Responses'
  BY <1>1 DEF UInv, Responses, IsResponse
<1> QED BY <1>3, <1>4 DEF GatewayInv

LEMMA GatewayClientWrites ==
    ASSUME UInv, NEW p \in Jobs, ClientWrites(p)
    PROVE  GatewayInv'
<1>1. UNCHANGED gatewayVars /\ job[p] = "writing"
  BY DEF ClientWrites
<1>2. toGateway' = toGateway \/ toGateway' = Append(toGateway, OutMsg(p))
  BY DEF ClientWrites
<1>3. toGateway \in Seq(Messages) /\ OutMsg(p) \in Messages
  BY <1>1, OutFacts DEF UInv, TunnelTypeOK
<1>4. OutMsg(p).type = "response" => rid[OutMsg(p).from] # 0
  <2>1. CASE p \in Reqs
    <3>1. OutMsg(p).from = p /\ rid[p] # 0
      BY <1>1, <2>1, OutFacts DEF UInv, Handlers, Unsent, Routing
    <3> QED BY <3>1
  <2>2. CASE p \in Deps \/ p \in Stops
    BY <1>1, <2>2, OutFacts, MessageFacts DEF UInv
  <2> QED BY <2>1, <2>2, Consts
<1>5. \A i \in 1..Len(toGateway') : toGateway'[i].type = "response" =>
         rid[toGateway'[i].from] # 0
  BY <1>2, <1>3, <1>4, PutFacts DEF UInv, Responses
<1> QED BY <1>1, <1>5, GatewaySame

LEMMA GatewayStep == UInv /\ [TunnelNext]_vars => GatewayInv'
<1> SUFFICES ASSUME UInv, [TunnelNext]_vars PROVE GatewayInv'
  OBVIOUS
<1>1. CASE UNCHANGED <<gatewayVars, toGateway>>
  <2>1. \A i \in 1..Len(toGateway') : toGateway'[i].type = "response" =>
           rid[toGateway'[i].from] # 0
    BY <1>1 DEF UInv, Responses
  <2> QED BY <1>1, <2>1, GatewaySame
<1>2. CASE Breaks \/ Close
  <2>1. UNCHANGED gatewayVars /\ toGateway' \in {toGateway, <<>>}
    BY <1>2 DEF Breaks, Close
  <2>2. \A i \in 1..Len(toGateway') : toGateway'[i].type = "response" =>
           rid[toGateway'[i].from] # 0
    BY <2>1 DEF UInv, Responses
  <2> QED BY <2>1, <2>2, GatewaySame
<1>3. ASSUME NEW r \in Reqs, Lookup(r) \/ Forward(r) \/ ClientLocks(r)
      PROVE  UNCHANGED <<gatewayVars, toGateway>>
  BY <1>3 DEF Lookup, Forward, ClientLocks, connVars
<1>4. ASSUME NEW p \in Jobs, \/ RegisterBegins(p) \/ UnregisterBegins(p)
                              \/ ClientLocks(p) \/ SetRoute(p) \/ RemoveRoute(p)
      PROVE  UNCHANGED <<gatewayVars, toGateway>>
  BY <1>4 DEF RegisterBegins, UnregisterBegins, ClientLocks, SetRoute, RemoveRoute,
     connVars
<1>5. ClientReader => UNCHANGED <<gatewayVars, toGateway>>
  BY DEF ClientReader, ReaderLocks, ReaderReads, ReaderEnds, connVars
<1>6. CASE GatewayReader
  BY <1>6, GatewayReads, GatewayDeliver, GatewayOther DEF GatewayReader
<1>7. ASSUME NEW r \in Reqs, Route(r) \/ Request(r) \/ handleRequest(r)
      PROVE  GatewayInv'
  BY <1>1, <1>3, <1>7, GatewayRoute, GatewayRequest, GatewayClientWrites, Consts
  DEF handleRequest
<1>8. ASSUME NEW d \in Deps, RegisterBegins(d) \/ Exposure(d) PROVE GatewayInv'
  BY <1>1, <1>4, <1>8, GatewayClientWrites, Consts DEF Exposure
<1>10. ASSUME NEW s \in Stops, UnregisterBegins(s) \/ Withdrawal(s) PROVE GatewayInv'
  BY <1>1, <1>4, <1>10, GatewayClientWrites, Consts DEF Withdrawal
<1>9. CASE UNCHANGED vars
  BY <1>1, <1>9 DEF vars, connVars
<1> QED BY <1>1, <1>2, <1>5, <1>6, <1>7, <1>8, <1>9, <1>10 DEF TunnelNext

-----------------------------------------------------------------------------
(* The client's side: one handler per request *)

\* A step that writes no request and moves no handler.
LEMMA HandlersFrame ==
    ASSUME UInv, toClient' \in {toClient, <<>>},
           \A q \in Reqs : /\ rpc[q] \notin Unsent => rpc'[q] \notin Unsent
                           /\ job'[q] = job[q] /\ status'[q] = status[q]
    PROVE  Handlers'
<1>1. \A i \in 1..Len(toClient) : toClient[i].type = "request" =>
         toClient[i].from \in Reqs
  BY MessageFacts DEF UInv, TunnelTypeOK
<1>2. CASE toClient' = toClient
  BY <1>1, <1>2 DEF UInv, Handlers
<1>3. CASE toClient' = <<>>
  <2>1. Len(toClient') = 0
    BY <1>3
  <2> QED BY <2>1 DEF UInv, Handlers
<1> QED BY <1>2, <1>3

\* A step of the handler of request r.
LEMMA HandlersMove ==
    ASSUME UInv, NEW r \in Reqs, job[r] # "none", UNCHANGED <<toClient, rpc>>,
           \A q \in Reqs \ {r} : job'[q] = job[q] /\ status'[q] = status[q],
           job'[r] \notin {"send", "writing"} => status'[r] = 200
    PROVE  Handlers'
<1>1. \A i \in 1..Len(toClient) : toClient[i].type = "request" =>
         toClient[i].from \in Reqs \ {r}
  BY MessageFacts DEF UInv, TunnelTypeOK, Handlers
<1> QED BY <1>1 DEF UInv, Handlers

LEMMA HandlersSend ==
    ASSUME UInv, NEW r \in Reqs, SendWrites(r)
    PROVE  Handlers'
<1>1. /\ rpc[r] = "writing" /\ rpc'[r] \notin Unsent
      /\ \A q \in Reqs \ {r} : rpc'[q] = rpc[q]
      /\ UNCHANGED <<job, status>>
      /\ toClient' \in {toClient, Append(toClient, RequestMsg(r))}
  BY DEF SendWrites, clientVars, UInv, TunnelTypeOK, Unsent
<1>2. CASE toClient' = toClient
  BY <1>1, <1>2, HandlersFrame
<1>3. CASE toClient' = Append(toClient, RequestMsg(r))
  <2>1. /\ toClient \in Seq(Messages) /\ job[r] = "none"
        /\ RequestMsg(r) \in Messages
        /\ RequestMsg(r).type = "request" /\ RequestMsg(r).from = r
    BY <1>1, MessageFacts DEF UInv, TunnelTypeOK, Handlers, Unsent
  <2>2. /\ Len(toClient) \in Nat /\ Len(toClient') = Len(toClient) + 1
        /\ \A i \in 1..Len(toClient) : toClient'[i] = toClient[i]
        /\ toClient'[Len(toClient) + 1] = RequestMsg(r)
    BY <1>3, <2>1, PutFacts
  <2>3. \A i \in 1..Len(toClient) : toClient[i].type = "request" =>
           toClient[i].from \in Reqs \ {r}
    <3> SUFFICES ASSUME NEW i \in 1..Len(toClient), toClient[i].type = "request"
                 PROVE  toClient[i].from \in Reqs \ {r}
      OBVIOUS
    <3>1. toClient[i] \in Messages
      BY <2>1
    <3>2. rpc[toClient[i].from] \notin Unsent
      BY DEF UInv, Handlers
    <3> QED BY <1>1, <3>1, <3>2, MessageFacts DEF Unsent
  <2>4. \A i \in 1..Len(toClient') : toClient'[i].type = "request" =>
           /\ rpc'[toClient'[i].from] \notin Unsent /\ job'[toClient'[i].from] = "none"
           /\ \A j \in 1..Len(toClient') : toClient'[j] = toClient'[i] => j = i
    <3> SUFFICES ASSUME NEW i \in 1..(Len(toClient) + 1), toClient'[i].type = "request"
                 PROVE  /\ rpc'[toClient'[i].from] \notin Unsent
                        /\ job[toClient'[i].from] = "none"
                        /\ \A j \in 1..(Len(toClient) + 1) :
                              toClient'[j] = toClient'[i] => j = i
      BY <1>1, <2>2
    <3>1. CASE i \in 1..Len(toClient)
      <4>1. toClient[i].from \in Reqs \ {r} /\ toClient'[i] = toClient[i]
        BY <2>2, <2>3, <3>1
      <4>2. toClient[i] # RequestMsg(r)
        BY <2>1, <4>1
      <4> QED BY <1>1, <2>2, <3>1, <4>1, <4>2 DEF UInv, Handlers
    <3>2. CASE i = Len(toClient) + 1
      <4>1. \A j \in 1..Len(toClient) : toClient[j] # RequestMsg(r)
        BY <2>1, <2>3
      <4> QED BY <1>1, <2>1, <2>2, <3>2, <4>1
    <3> QED BY <2>2, <3>1, <3>2
  <2>5. \A q \in Reqs : /\ job'[q] # "none" => rpc'[q] \notin Unsent
                        /\ job'[q] \notin {"send", "writing"} => status'[q] = 200
    BY <1>1 DEF UInv, Handlers
  <2> QED BY <2>4, <2>5 DEF Handlers
<1> QED BY <1>1, <1>2, <1>3

LEMMA HandlersConfirm ==
    ASSUME UInv, ConfirmWrites
    PROVE  Handlers'
<1>1. /\ UNCHANGED <<rpc, job, status>>
      /\ toClient' \in {toClient, Append(toClient, ConfirmMsg(gmsg.dep))}
  BY DEF ConfirmWrites, clientVars
<1>2. CASE toClient' = toClient
  BY <1>1, <1>2, HandlersFrame
<1>3. CASE toClient' = Append(toClient, ConfirmMsg(gmsg.dep))
  <2>1. /\ toClient \in Seq(Messages) /\ ConfirmMsg(gmsg.dep) \in Messages
        /\ ConfirmMsg(gmsg.dep).type = "registered"
    <3>1. gmsg.dep \in Deps
      BY MessageFacts DEF ConfirmWrites, UInv, Responses
    <3> QED BY <3>1, MessageFacts DEF UInv, TunnelTypeOK
  <2>2. /\ Len(toClient) \in Nat /\ Len(toClient') = Len(toClient) + 1
        /\ \A i \in 1..Len(toClient) : toClient'[i] = toClient[i]
        /\ toClient'[Len(toClient) + 1].type = "registered"
    BY <1>3, <2>1, PutFacts
  <2>3. \A i \in 1..Len(toClient') : toClient'[i].type = "request" =>
           i \in 1..Len(toClient)
    BY <2>2
  <2> QED BY <1>1, <2>2, <2>3 DEF UInv, Handlers
<1> QED BY <1>1, <1>2, <1>3

LEMMA HandlersRead ==
    ASSUME UInv, ReaderReads
    PROVE  Handlers'
<1> DEFINE m == Head(toClient)
<1>1. /\ toClient # <<>> /\ toClient' = Tail(toClient) /\ UNCHANGED <<rpc, status>>
      /\ job' = IF m.type = "request" THEN [job EXCEPT ![m.from] = "lookup"] ELSE job
      /\ toClient \in Seq(Messages) /\ job \in [Jobs -> {"none", "lookup",
           "forward", "send", "writing", "sent", "exposed", "gone"}]
  BY DEF ReaderReads, gatewayVars, UInv, TunnelTypeOK
<1>2. /\ m = toClient[1] /\ m \in Messages /\ 1 \in 1..Len(toClient)
      /\ \A i \in 1..Len(toClient') :
           i + 1 \in 1..Len(toClient) /\ toClient'[i] = toClient[i + 1]
  BY <1>1, TakeFacts
<1> HIDE DEF m
<1>3. m.type = "request" =>
        /\ m.from \in Reqs /\ rpc[m.from] \notin Unsent /\ job[m.from] = "none"
        /\ m = RequestMsg(m.from)
  BY <1>2, MessageFacts DEF UInv, Handlers
<1>4. \A q \in Reqs : /\ job'[q] # "none" => rpc'[q] \notin Unsent
                      /\ job'[q] \notin {"send", "writing"} => status'[q] = 200
  BY <1>1, <1>3, Consts DEF UInv, Handlers
<1>5. ASSUME NEW i \in 1..Len(toClient'), toClient'[i].type = "request"
      PROVE  /\ rpc'[toClient'[i].from] \notin Unsent /\ job'[toClient'[i].from] = "none"
             /\ \A j \in 1..Len(toClient') : toClient'[j] = toClient'[i] => j = i
  <2>1. /\ i + 1 \in 1..Len(toClient) /\ toClient'[i] = toClient[i + 1]
        /\ toClient[i + 1] \in Messages
    BY <1>1, <1>2
  <2>2. /\ rpc[toClient[i + 1].from] \notin Unsent
        /\ job[toClient[i + 1].from] = "none"
        /\ \A j \in 1..Len(toClient) : toClient[j] = toClient[i + 1] => j = i + 1
    BY <1>5, <2>1 DEF UInv, Handlers
  <2>3. toClient[i + 1] # m
    BY <1>2, <2>1, <2>2
  <2>4. m.type = "request" => toClient[i + 1].from # m.from
    BY <1>3, <1>5, <2>1, <2>3, MessageFacts
  <2>5. job'[toClient'[i].from] = "none"
    BY <1>1, <2>1, <2>2, <2>4, Consts
  <2>6. ASSUME NEW j \in 1..Len(toClient'), toClient'[j] = toClient'[i] PROVE j = i
    BY <1>2, <2>1, <2>2, <2>6
  <2> QED BY <1>1, <2>1, <2>2, <2>5, <2>6
<1> QED BY <1>4, <1>5 DEF Handlers

LEMMA HandlersStep == UInv /\ [TunnelNext]_vars => Handlers'
<1> SUFFICES ASSUME UInv, [TunnelNext]_vars PROVE Handlers'
  OBVIOUS
<1> USE DEF connVars, gatewayVars, clientVars
<1>0. DOMAIN rpc = Reqs /\ DOMAIN job = Jobs /\ DOMAIN status = Reqs /\ Reqs \subseteq Jobs
  BY Consts DEF UInv, TunnelTypeOK
<1>1. ASSUME NEW r \in Reqs, Route(r) \/ SetPending(r) \/ SendLocks(r) \/ Receive(r)
                               \/ TimesOut(r) \/ DropPending(r)
      PROVE  Handlers'
  <2>1. UNCHANGED <<toClient, job, status>>
    BY <1>1 DEF Route, SetPending, SendLocks, Receive, TimesOut, DropPending
  <2>2. \A q \in Reqs : rpc[q] \notin Unsent => rpc'[q] \notin Unsent
    BY <1>0, <1>1 DEF Route, SetPending, SendLocks, Receive, TimesOut, DropPending,
       Unsent
  <2> QED BY <2>1, <2>2, HandlersFrame
<1>2. ASSUME NEW r \in Reqs, Lookup(r) \/ Forward(r) \/ ClientLocks(r) \/ ClientWrites(r)
      PROVE  Handlers'
  <2>1. job[r] # "none" /\ UNCHANGED <<toClient, rpc>>
    BY <1>2 DEF Lookup, Forward, ClientLocks, ClientWrites
  <2>2. \A q \in Reqs \ {r} : job'[q] = job[q] /\ status'[q] = status[q]
    BY <1>0, <1>2 DEF Lookup, Forward, ClientLocks, ClientWrites
  <2>3. job'[r] \notin {"send", "writing"} => status'[r] = 200
    BY <1>0, <1>2 DEF Lookup, Forward, ClientLocks, ClientWrites, UInv, Handlers
  <2> QED BY <2>1, <2>2, <2>3, HandlersMove
<1>3. ASSUME NEW p \in Deps \cup Stops,
             \/ RegisterBegins(p) \/ UnregisterBegins(p) \/ ClientLocks(p)
             \/ ClientWrites(p) \/ SetRoute(p) \/ RemoveRoute(p)
      PROVE  Handlers'
  <2>1. UNCHANGED <<toClient, rpc>> /\ p \notin Reqs
    BY <1>3, Consts DEF RegisterBegins, UnregisterBegins, ClientLocks, ClientWrites,
       SetRoute, RemoveRoute
  <2>2. \A q \in Reqs : job'[q] = job[q] /\ status'[q] = status[q]
    BY <1>0, <1>3, <2>1 DEF RegisterBegins, UnregisterBegins, ClientLocks,
       ClientWrites, SetRoute, RemoveRoute
  <2> QED BY <2>1, <2>2, HandlersFrame
<1>4. CASE \/ ReadRegister \/ ConfirmLocks \/ ReadUnregister \/ ReadResponse
           \/ Deliver \/ Cleanup \/ ReaderLocks \/ ReaderEnds \/ UNCHANGED vars
  <2>1. UNCHANGED <<toClient, rpc, job, status>>
    BY <1>4 DEF ReadRegister, ConfirmLocks, ReadUnregister, ReadResponse, Deliver,
       Cleanup, ReaderLocks, ReaderEnds, vars
  <2> QED BY <2>1, HandlersFrame
<1>5. CASE Breaks \/ Close
  <2>1. toClient' \in {toClient, <<>>} /\ UNCHANGED <<rpc, job, status>>
    BY <1>5 DEF Breaks, Close
  <2> QED BY <2>1, HandlersFrame
<1> QED
  BY <1>1, <1>2, <1>3, <1>4, <1>5, HandlersSend, HandlersConfirm, HandlersRead
  DEF TunnelNext, Request, handleRequest, Exposure, Withdrawal, GatewayReader,
      ClientReader

-----------------------------------------------------------------------------
(* The routes: what the gateway knows was announced by the client *)

\* Once announced, a deployment stays announced.
LEMMA AnnouncedStays ==
    ASSUME UInv, [TunnelNext]_vars, NEW d \in Deps, Announced(d)
    PROVE  Announced(d)'
<1> USE DEF Announced
<1>0. DOMAIN job = Jobs /\ d \notin Reqs /\ d \notin Stops /\ Targeted
  BY Consts DEF UInv, TunnelTypeOK
<1>1. ASSUME NEW e \in Deps, RegisterBegins(e) \/ Exposure(e) PROVE Announced(d)'
  BY <1>0, <1>1, Consts
  DEF RegisterBegins, Exposure, ClientLocks, ClientWrites, SetRoute
<1>6. ASSUME NEW s \in Stops, UnregisterBegins(s) \/ Withdrawal(s) PROVE Announced(d)'
  BY <1>0, <1>6, Consts
  DEF UnregisterBegins, Withdrawal, ClientLocks, ClientWrites, RemoveRoute
<1>2. ASSUME NEW r \in Reqs, Lookup(r) \/ Forward(r) \/ ClientLocks(r) \/ ClientWrites(r)
      PROVE  Announced(d)'
  BY <1>0, <1>2, Consts DEF Lookup, Forward, ClientLocks, ClientWrites
<1>3. CASE ReaderReads
  <2>1. Head(toClient).type = "request" => Head(toClient).from \in Reqs
    BY <1>3, TakeFacts, MessageFacts DEF ReaderReads, UInv, TunnelTypeOK
  <2> QED BY <1>0, <1>3, <2>1 DEF ReaderReads
<1>4. ASSUME NEW r \in Reqs, Route(r) \/ Request(r)
      PROVE  Announced(d)'
  BY <1>4 DEF Route, Request, SetPending, SendLocks, SendWrites, Receive, TimesOut,
     DropPending, clientVars
<1>5. CASE GatewayReader \/ ReaderLocks \/ ReaderEnds \/ Breaks \/ Close
             \/ UNCHANGED vars
  BY <1>5 DEF GatewayReader, ReadRegister, ConfirmLocks, ConfirmWrites,
     ReadUnregister, ReadResponse, Deliver, Cleanup, ReaderLocks, ReaderEnds, Breaks,
     Close, vars, clientVars
<1> QED
  BY <1>1, <1>2, <1>3, <1>4, <1>5, <1>6
  DEF TunnelNext, handleRequest, ClientReader

\* Announced(d)', for a d that may itself be an expression of the state.
AnnouncedNext(d) == job'[d] \in {"sent", "exposed"}

LEMMA AnnouncedRemain ==
    ASSUME UInv, [TunnelNext]_vars
    PROVE  \A d \in Deps : Announced(d) => AnnouncedNext(d)
<1>1. \A d \in Deps : Announced(d) => Announced(d)'
  BY AnnouncedStays
<1> QED BY <1>1 DEF Announced, AnnouncedNext

\* A step by which the gateway learns of no deployment that is not announced.
LEMMA ExposedKept ==
    ASSUME UInv, [TunnelNext]_vars,
           \A d \in tmRoutes' : d \in Deps /\ Announced(d),
           \A i \in 1..Len(toGateway') : toGateway'[i].type = "register" =>
               toGateway'[i].dep \in Deps /\ AnnouncedNext(toGateway'[i].dep),
           \A r \in Reqs : rdep'[r] # None => rdep'[r] \in Deps /\ Announced(rdep'[r]),
           \A d \in Deps : job'[d] = "exposed" =>
               d \in routes' \/ \E s \in Stops : target'[s] = d
    PROVE  Exposed'
<1> QED BY AnnouncedRemain DEF Exposed, Announced, AnnouncedNext

\* The registrations on their way are of deployments that were announced.
LEMMA AnnouncedMessages ==
    ASSUME UInv
    PROVE  /\ \A i \in 1..Len(toGateway) : toGateway[i].type = "register" =>
                toGateway[i].dep \in Deps /\ Announced(toGateway[i].dep)
           /\ \A d \in tmRoutes : d \in Deps /\ Announced(d)
           /\ \A r \in Reqs : rdep[r] # None => rdep[r] \in Deps /\ Announced(rdep[r])
           /\ \A d \in Deps : job[d] = "exposed" =>
                d \in routes \/ \E s \in Stops : target[s] = d
<1>1. \A i \in 1..Len(toGateway) : toGateway[i] \in Messages
  BY DEF UInv, TunnelTypeOK
<1>2. \A i \in 1..Len(toGateway) : toGateway[i].type = "register" =>
        toGateway[i].dep \in Deps
  BY <1>1, MessageFacts
<1>3. /\ \A d \in tmRoutes : d \in Deps
      /\ \A r \in Reqs : rdep[r] # None => rdep[r] \in Deps
  BY DEF UInv, TunnelTypeOK
<1> QED BY <1>2, <1>3 DEF UInv, Exposed

LEMMA ExposedStep == UInv /\ [TunnelNext]_vars => Exposed'
<1> SUFFICES ASSUME UInv, [TunnelNext]_vars PROVE Exposed'
  OBVIOUS
<1> USE DEF connVars, gatewayVars, clientVars
<1>0. DOMAIN rpc = Reqs /\ DOMAIN job = Jobs /\ DOMAIN rdep = Reqs
  BY DEF UInv, TunnelTypeOK
<1>1. \A i \in 1..Len(toGateway) : toGateway[i].type = "register" =>
         toGateway[i].dep \in Deps /\ AnnouncedNext(toGateway[i].dep)
  BY AnnouncedMessages, AnnouncedRemain
<1>2. CASE /\ toGateway' \in {toGateway, <<>>} /\ UNCHANGED <<tmRoutes, rdep>>
           /\ \A d \in Deps : job'[d] = "exposed" =>
                d \in routes' \/ \E s \in Stops : target'[s] = d
  <2>1. \A i \in 1..Len(toGateway') : toGateway'[i].type = "register" =>
           toGateway'[i].dep \in Deps /\ AnnouncedNext(toGateway'[i].dep)
    <3>1. CASE toGateway' = toGateway
      <4>1. \A i \in 1..Len(toGateway') : toGateway'[i] = toGateway[i]
            /\ i \in 1..Len(toGateway)
        BY <3>1
      <4> QED BY <1>1, <4>1 DEF AnnouncedNext
    <3>2. CASE toGateway' = <<>>
      BY <3>2
    <3> QED BY <1>2, <3>1, <3>2
  <2> QED BY <1>2, <2>1, AnnouncedMessages, ExposedKept
<1>3. ASSUME NEW r \in Reqs, Route(r) PROVE Exposed'
  <2>1. /\ UNCHANGED <<toGateway, tmRoutes, job, routes, target>>
        /\ \A q \in Reqs : rdep'[q] = rdep[q] \/ rdep'[q] \in tmRoutes
    BY <1>0, <1>3 DEF Route
  <2>2. \A i \in 1..Len(toGateway') : toGateway'[i].type = "register" =>
           toGateway'[i].dep \in Deps /\ AnnouncedNext(toGateway'[i].dep)
    BY <1>1, <2>1 DEF AnnouncedNext
  <2>3. \A q \in Reqs : rdep'[q] # None => rdep'[q] \in Deps /\ Announced(rdep'[q])
    BY <2>1, AnnouncedMessages
  <2> QED BY <2>1, <2>2, <2>3, AnnouncedMessages, ExposedKept
<1>4. ASSUME NEW r \in Reqs, Request(r) PROVE Exposed'
  <2>1. UNCHANGED <<toGateway, tmRoutes, rdep, job, routes, target>>
    BY <1>4 DEF Request, SetPending, SendLocks, SendWrites, Receive, TimesOut,
       DropPending
  <2> QED BY <1>2, <2>1, AnnouncedMessages
<1>5. ASSUME NEW p \in Jobs, ClientWrites(p) PROVE Exposed'
  <2>1. /\ UNCHANGED <<tmRoutes, rdep, routes, target>>
        /\ \A d \in Deps : job'[d] = "exposed" => job[d] = "exposed"
        /\ \/ toGateway' = toGateway
           \/ toGateway' = Append(toGateway, OutMsg(p)) /\ job'[p] = "sent"
    BY <1>0, <1>5, Consts DEF ClientWrites
  <2>2. CASE toGateway' = toGateway
    BY <1>2, <2>1, <2>2, AnnouncedMessages
  <2>3. CASE toGateway' = Append(toGateway, OutMsg(p)) /\ job'[p] = "sent"
    <3>0. job[p] = "writing"
      BY <1>5 DEF ClientWrites
    <3>1. toGateway \in Seq(Messages) /\ OutMsg(p) \in Messages
      BY <3>0, OutFacts DEF UInv, TunnelTypeOK
    <3>2. OutMsg(p).type = "register" => OutMsg(p).dep \in Deps /\ AnnouncedNext(OutMsg(p).dep)
      <4>1. CASE p \in Reqs \/ p \in Stops
        BY <3>0, <4>1, OutFacts, MessageFacts DEF UInv
      <4>2. CASE p \in Deps
        <5>1. OutMsg(p).dep = p
          BY <3>0, <4>2, OutFacts, MessageFacts DEF UInv
        <5>2. p = OutMsg(p).dep /\ job'[p] = "sent"
          BY <2>3, <5>1
        <5>3. AnnouncedNext(p)
          BY <2>3 DEF AnnouncedNext
        <5> QED BY <4>2, <5>1, <5>3 DEF AnnouncedNext
      <4> QED BY <4>1, <4>2, Consts
    <3>3. PICK m \in Messages : m = OutMsg(p)
      BY <3>1
    <3>4. m.type = "register" => m.dep \in Deps /\ AnnouncedNext(m.dep)
      BY <2>1, <2>3, <3>2, <3>3 DEF AnnouncedNext
    <3>5. /\ Len(toGateway) \in Nat /\ Len(toGateway') = Len(toGateway) + 1
          /\ \A i \in 1..Len(toGateway) : toGateway'[i] = toGateway[i]
          /\ toGateway'[Len(toGateway) + 1] = m
      BY <2>3, <3>1, <3>3, PutFacts
    <3>6. \A i \in 1..Len(toGateway') : toGateway'[i].type = "register" =>
             toGateway'[i].dep \in Deps /\ AnnouncedNext(toGateway'[i].dep)
      BY <1>1, <3>4, <3>5 DEF AnnouncedNext
    <3> QED BY <2>1, <3>6, AnnouncedMessages, ExposedKept
  <2> QED BY <2>1, <2>2, <2>3
<1>6. ASSUME NEW p \in Jobs, ClientLocks(p) PROVE Exposed'
  <2>1. /\ UNCHANGED <<toGateway, tmRoutes, rdep, routes, target>>
        /\ \A d \in Deps : job'[d] = "exposed" => job[d] = "exposed"
    BY <1>0, <1>6, Consts DEF ClientLocks
  <2> QED BY <1>2, <2>1, AnnouncedMessages
<1>7. ASSUME NEW r \in Reqs, Lookup(r) \/ Forward(r) PROVE Exposed'
  <2>1. /\ UNCHANGED <<toGateway, tmRoutes, rdep, routes, target>>
        /\ \A d \in Deps : job'[d] = "exposed" => job[d] = "exposed"
    BY <1>0, <1>7, Consts DEF Lookup, Forward
  <2> QED BY <1>2, <2>1, AnnouncedMessages
<1>8. ASSUME NEW d \in Deps, RegisterBegins(d) \/ SetRoute(d) PROVE Exposed'
  <2>1. UNCHANGED <<toGateway, tmRoutes, rdep, target>>
    BY <1>8 DEF RegisterBegins, SetRoute
  <2>2. \A e \in Deps : /\ job'[e] = "exposed" => job[e] = "exposed" \/ e \in routes'
                        /\ e \in routes => e \in routes'
    BY <1>0, <1>8, Consts DEF RegisterBegins, SetRoute
  <2> QED BY <1>2, <2>1, <2>2, AnnouncedMessages
<1>13. ASSUME NEW s \in Stops, UnregisterBegins(s) \/ RemoveRoute(s) PROVE Exposed'
  <2>1. /\ UNCHANGED <<toGateway, tmRoutes, rdep>> /\ DOMAIN target = Stops
        /\ \A e \in Deps : job'[e] = job[e]
    BY <1>0, <1>13, Consts DEF UnregisterBegins, RemoveRoute, UInv, TunnelTypeOK
  <2>2. CASE UnregisterBegins(s)
    <3>1. /\ routes' = routes /\ target[s] = None
          /\ \A u \in Stops : u # s => target'[u] = target[u]
      BY <2>1, <2>2 DEF UnregisterBegins, UInv, Targeted
    <3>2. \A e \in Deps : job'[e] = "exposed" =>
             e \in routes' \/ \E u \in Stops : target'[u] = e
      BY <2>1, <3>1, AnnouncedMessages, Consts
    <3> QED BY <1>2, <2>1, <3>2
  <2>3. CASE RemoveRoute(s)
    <3>1. target' = target /\ \A e \in routes : e \in routes' \/ e = target[s]
      BY <2>3 DEF RemoveRoute
    <3>2. \A e \in Deps : job'[e] = "exposed" =>
             e \in routes' \/ \E u \in Stops : target'[u] = e
      BY <2>1, <3>1, AnnouncedMessages
    <3> QED BY <1>2, <2>1, <3>2
  <2> QED BY <1>13, <2>2, <2>3
<1>9. CASE ReadRegister \/ ReadUnregister \/ ReadResponse
  <2>1. /\ toGateway # <<>> /\ toGateway' = Tail(toGateway)
        /\ toGateway \in Seq(Messages)
        /\ UNCHANGED <<rdep, job, routes, target>>
    BY <1>9 DEF ReadRegister, ReadUnregister, ReadResponse, UInv, TunnelTypeOK
  <2>2. /\ Head(toGateway) = toGateway[1] /\ 1 \in 1..Len(toGateway)
        /\ \A i \in 1..Len(toGateway') :
             i + 1 \in 1..Len(toGateway) /\ toGateway'[i] = toGateway[i + 1]
    BY <2>1, TakeFacts
  <2>3. \A i \in 1..Len(toGateway') : toGateway'[i].type = "register" =>
           toGateway'[i].dep \in Deps /\ AnnouncedNext(toGateway'[i].dep)
    BY <1>1, <2>1, <2>2 DEF AnnouncedNext
  <2>4. \A d \in tmRoutes' : d \in Deps /\ Announced(d)
    BY <1>9, <2>2, AnnouncedMessages DEF ReadRegister, ReadUnregister, ReadResponse
  <2> QED BY <2>1, <2>3, <2>4, AnnouncedMessages, ExposedKept
<1>10. CASE Cleanup
  <2>1. tmRoutes' = {} /\ UNCHANGED <<toGateway, rdep, job, routes, target>>
    BY <1>10 DEF Cleanup
  <2>2. \A i \in 1..Len(toGateway') : toGateway'[i].type = "register" =>
           toGateway'[i].dep \in Deps /\ AnnouncedNext(toGateway'[i].dep)
    BY <1>1, <2>1 DEF AnnouncedNext
  <2> QED BY <2>1, <2>2, AnnouncedMessages, ExposedKept
<1>11. CASE \/ ConfirmLocks \/ ConfirmWrites \/ Deliver \/ ReaderLocks \/ ReaderEnds
            \/ Breaks \/ Close \/ UNCHANGED vars
  <2>1. /\ toGateway' \in {toGateway, <<>>}
        /\ UNCHANGED <<tmRoutes, rdep, job, routes, target>>
    BY <1>11 DEF ConfirmLocks, ConfirmWrites, Deliver, ReaderLocks, ReaderEnds, Breaks,
       Close, vars
  <2> QED BY <1>2, <2>1, AnnouncedMessages
<1>12. CASE ReaderReads
  <2>1. Head(toClient).type = "request" => Head(toClient).from \in Reqs
    BY <1>12, TakeFacts, MessageFacts DEF ReaderReads, UInv, TunnelTypeOK
  <2>2. /\ UNCHANGED <<toGateway, tmRoutes, rdep, routes, target>>
        /\ \A d \in Deps : job'[d] = "exposed" => job[d] = "exposed"
    BY <1>0, <1>12, <2>1, Consts DEF ReaderReads
  <2> QED BY <1>2, <2>2, AnnouncedMessages
<1> QED
  BY <1>3, <1>4, <1>5, <1>6, <1>7, <1>8, <1>9, <1>10, <1>11, <1>12, <1>13, Consts
  DEF TunnelNext, handleRequest, Exposure, Withdrawal, GatewayReader, ClientReader

-----------------------------------------------------------------------------
(* Both ends: what the gateway will know once it has read everything *)

\* The route messages of two deployments differ, and so do the two of one.
LEMMA OtherMessages ==
    ASSUME NEW d \in Deps, NEW e \in Deps
    PROVE  /\ RegisterMsg(d) # UnregisterMsg(e)
           /\ RegisterMsg(d) = RegisterMsg(e) => d = e
           /\ UnregisterMsg(d) = UnregisterMsg(e) => d = e
<1>1. /\ RegisterMsg(d).type = "register" /\ RegisterMsg(d).dep = d
      /\ RegisterMsg(e).dep = e /\ UnregisterMsg(e).type = "unregister"
      /\ UnregisterMsg(d).dep = d /\ UnregisterMsg(e).dep = e
  BY MessageFacts
<1> QED BY <1>1

\* FinallyRouted over a queue q and a table.
Finally(q, table, d) ==
    \/ \E i \in 1..Len(q) :
          /\ q[i] = RegisterMsg(d)
          /\ \A j \in 1..Len(q) : q[j] = UnregisterMsg(d) => j < i
    \/ d \in table /\ \A j \in 1..Len(q) : q[j] # UnregisterMsg(d)

\* Reading a message and changing the table by it leaves the outcome alone.
LEMMA ReadKeepsOutcome ==
    ASSUME NEW q \in Seq(Messages), q # <<>>, NEW table, NEW next, NEW d \in Deps,
           Head(q) = RegisterMsg(d) => d \in next,
           Head(q) = UnregisterMsg(d) => d \notin next,
           Head(q) # RegisterMsg(d) /\ Head(q) # UnregisterMsg(d) =>
               (d \in next <=> d \in table)
    PROVE  Finally(Tail(q), next, d) <=> Finally(q, table, d)
<1>1. /\ Len(q) \in Nat /\ 1 \in 1..Len(q) /\ Head(q) = q[1]
      /\ \A i \in 1..Len(Tail(q)) : i + 1 \in 1..Len(q) /\ Tail(q)[i] = q[i + 1]
      /\ \A j \in 1..Len(q) : j # 1 => j - 1 \in 1..Len(Tail(q)) /\ Tail(q)[j - 1] = q[j]
      /\ Len(Tail(q)) \in Nat
  BY TakeFacts
<1>2. RegisterMsg(d) # UnregisterMsg(d)
  BY OtherMessages
<1> DEFINE t == Tail(q)
<1>3. ASSUME Finally(t, next, d) PROVE Finally(q, table, d)
  <2>1. CASE \E i \in 1..Len(t) : /\ t[i] = RegisterMsg(d)
                                  /\ \A j \in 1..Len(t) : t[j] = UnregisterMsg(d) => j < i
    <3>1. PICK i \in 1..Len(t) : /\ t[i] = RegisterMsg(d)
                                 /\ \A j \in 1..Len(t) : t[j] = UnregisterMsg(d) => j < i
      BY <2>1
    <3>2. i \in Nat /\ i >= 1 /\ i + 1 \in 1..Len(q) /\ q[i + 1] = RegisterMsg(d)
      BY <1>1, <3>1
    <3>3. ASSUME NEW j \in 1..Len(q), q[j] = UnregisterMsg(d) PROVE j < i + 1
      <4>1. CASE j = 1
        BY <3>2, <4>1
      <4>2. CASE j # 1
        <5>1. j - 1 \in 1..Len(t) /\ t[j - 1] = UnregisterMsg(d) /\ j \in Nat
          BY <1>1, <3>3, <4>2
        <5>2. j - 1 < i
          BY <3>1, <5>1
        <5> QED BY <3>2, <5>1, <5>2
      <4> QED BY <4>1, <4>2
    <3> QED BY <3>2, <3>3 DEF Finally
  <2>2. CASE d \in next /\ \A j \in 1..Len(t) : t[j] # UnregisterMsg(d)
    <3>1. q[1] # UnregisterMsg(d)
      BY <1>1, <2>2
    <3>2. \A j \in 1..Len(q) : q[j] # UnregisterMsg(d)
      <4> SUFFICES ASSUME NEW j \in 1..Len(q), q[j] = UnregisterMsg(d) PROVE FALSE
        OBVIOUS
      <4>1. j # 1
        BY <3>1
      <4>2. j - 1 \in 1..Len(t) /\ t[j - 1] = UnregisterMsg(d)
        BY <1>1, <4>1
      <4> QED BY <2>2, <4>2
    <3>3. CASE q[1] = RegisterMsg(d)
      BY <1>1, <3>2, <3>3 DEF Finally
    <3>4. CASE q[1] # RegisterMsg(d)
      BY <1>1, <2>2, <3>1, <3>2, <3>4 DEF Finally
    <3> QED BY <3>3, <3>4
  <2> QED BY <1>3, <2>1, <2>2 DEF Finally
<1>4. ASSUME Finally(q, table, d) PROVE Finally(t, next, d)
  <2>1. CASE \E i \in 1..Len(q) : /\ q[i] = RegisterMsg(d)
                                  /\ \A j \in 1..Len(q) : q[j] = UnregisterMsg(d) => j < i
    <3>1. PICK i \in 1..Len(q) : /\ q[i] = RegisterMsg(d)
                                 /\ \A j \in 1..Len(q) : q[j] = UnregisterMsg(d) => j < i
      BY <2>1
    <3>2. CASE i = 1
      <4>1. \A j \in 1..Len(t) : t[j] # UnregisterMsg(d)
        <5> SUFFICES ASSUME NEW j \in 1..Len(t), t[j] = UnregisterMsg(d) PROVE FALSE
          OBVIOUS
        <5>1. j \in Nat /\ j >= 1 /\ j + 1 \in 1..Len(q) /\ q[j + 1] = UnregisterMsg(d)
          BY <1>1
        <5>2. j + 1 < 1
          BY <3>1, <3>2, <5>1
        <5> QED BY <5>1, <5>2
      <4> QED BY <1>1, <3>1, <3>2, <4>1 DEF Finally
    <3>3. CASE i # 1
      <4>1. i - 1 \in 1..Len(t) /\ t[i - 1] = RegisterMsg(d) /\ i \in Nat
        BY <1>1, <3>1, <3>3
      <4>2. ASSUME NEW j \in 1..Len(t), t[j] = UnregisterMsg(d) PROVE j < i - 1
        <5>1. j \in Nat /\ j + 1 \in 1..Len(q) /\ q[j + 1] = UnregisterMsg(d)
          BY <1>1, <4>2
        <5>2. j + 1 < i
          BY <3>1, <5>1
        <5> QED BY <4>1, <5>1, <5>2
      <4> QED BY <4>1, <4>2 DEF Finally
    <3> QED BY <3>2, <3>3
  <2>2. CASE d \in table /\ \A j \in 1..Len(q) : q[j] # UnregisterMsg(d)
    <3>1. \A j \in 1..Len(t) : t[j] # UnregisterMsg(d)
      BY <1>1, <2>2
    <3>2. d \in next
      BY <1>1, <2>2
    <3> QED BY <3>1, <3>2 DEF Finally
  <2> QED BY <1>4, <2>1, <2>2 DEF Finally
<1> QED BY <1>3, <1>4

\* A message at the end decides the outcome for its deployment, and for no
\* other.
LEMMA WriteDecides ==
    ASSUME NEW q \in Seq(Messages), NEW m \in Messages, NEW table, NEW d \in Deps
    PROVE  /\ m = RegisterMsg(d) => Finally(Append(q, m), table, d)
           /\ m = UnregisterMsg(d) => ~Finally(Append(q, m), table, d)
           /\ m # RegisterMsg(d) /\ m # UnregisterMsg(d) =>
                (Finally(Append(q, m), table, d) <=> Finally(q, table, d))
<1> DEFINE t == Append(q, m)
           n == Len(q) + 1
<1>1. /\ Len(q) \in Nat /\ Len(t) = n /\ t[n] = m /\ n \in 1..Len(t)
      /\ \A i \in 1..Len(q) : t[i] = q[i] /\ i \in 1..Len(t) /\ i < n
      /\ \A i \in 1..Len(t) : i \in 1..Len(q) \/ i = n
  BY PutFacts
<1>2. RegisterMsg(d) # UnregisterMsg(d)
  BY OtherMessages
<1> HIDE DEF t, n
<1>3. m = RegisterMsg(d) => Finally(t, table, d)
  <2> SUFFICES ASSUME m = RegisterMsg(d) PROVE Finally(t, table, d)
    OBVIOUS
  <2>1. \A j \in 1..Len(t) : t[j] = UnregisterMsg(d) => j < n
    BY <1>1, <1>2
  <2> QED BY <1>1, <2>1 DEF Finally
<1>4. m = UnregisterMsg(d) => ~Finally(t, table, d)
  <2> SUFFICES ASSUME m = UnregisterMsg(d), Finally(t, table, d) PROVE FALSE
    OBVIOUS
  <2>1. PICK i \in 1..Len(t) : t[i] = RegisterMsg(d) /\ n < i
    BY <1>1 DEF Finally
  <2>2. i \in 1..Len(q) \/ i = n
    BY <1>1
  <2>3. n \in Nat /\ i \in Nat
    BY <1>1, <2>2 DEF n
  <2>4. i = n \/ i < n
    BY <1>1, <2>2
  <2> QED BY <2>1, <2>3, <2>4
<1>5. ASSUME m # RegisterMsg(d), m # UnregisterMsg(d)
      PROVE  Finally(t, table, d) <=> Finally(q, table, d)
  <2>1. \A i \in 1..Len(t) : t[i] = RegisterMsg(d) => i \in 1..Len(q) /\ q[i] = RegisterMsg(d)
    BY <1>1, <1>5
  <2>2. \A i \in 1..Len(t) : t[i] = UnregisterMsg(d) =>
           i \in 1..Len(q) /\ q[i] = UnregisterMsg(d)
    BY <1>1, <1>5
  <2> QED BY <1>1, <2>1, <2>2 DEF Finally
<1> QED BY <1>3, <1>4, <1>5 DEF t

\* The two forms are one, before and after a step.
LEMMA FinallyForms ==
    /\ \A d \in Deps : FinallyRouted(d) <=> Finally(toGateway, tmRoutes, d)
    /\ \A d \in Deps : FinallyRouted(d)' <=> Finally(toGateway', tmRoutes', d)
  BY DEF FinallyRouted, Finally, RegisterMsg, UnregisterMsg

\* A deployment and its stops, which a step does not concern.
LEMMA ProgressFrame ==
    ASSUME NEW d \in Deps, Progress(d), job'[d] = job[d], d \in routes' <=> d \in routes,
           FinallyRouted(d)' <=> FinallyRouted(d),
           \A s \in Stops : target[s] = d \/ target'[s] = d =>
               target'[s] = target[s] /\ job'[s] = job[s]
    PROVE  Progress(d)'
  BY DEF Progress, Leaving, Busy

LEMMA SyncFrame ==
    ASSUME UInv, open' => open /\ connected', raced' = raced,
           open' => UNCHANGED <<toGateway, tmRoutes, routes, target>>,
           open' => \A p \in Deps \cup Stops : job'[p] = job[p]
    PROVE  Synchronised'
<1> SUFFICES ASSUME open' PROVE connected' /\ \A d \in Deps \ raced : Progress(d)'
  BY DEF Synchronised
<1>1. \A d \in Deps \ raced : Progress(d)
  BY DEF UInv, Synchronised
<1>2. \A d \in Deps : FinallyRouted(d)' <=> FinallyRouted(d)
  BY FinallyForms
<1> QED BY <1>1, <1>2, ProgressFrame

LEMMA SyncRegister ==
    ASSUME UInv, NEW d \in Deps, RegisterBegins(d) \/ ClientLocks(d) \/ SetRoute(d)
    PROVE  Synchronised'
<1> USE DEF connVars, gatewayVars, clientVars
<1> SUFFICES ASSUME open PROVE connected' /\ \A e \in Deps \ raced' : Progress(e)'
  BY DEF Synchronised, RegisterBegins, ClientLocks, SetRoute
<1>1. connected /\ (\A e \in Deps \ raced : Progress(e)) /\ DOMAIN job = Jobs /\ d \in Jobs
  BY Consts DEF UInv, Synchronised, TunnelTypeOK
<1>2. /\ UNCHANGED <<connected, toGateway, tmRoutes, target>> /\ raced \subseteq raced'
      /\ \A p \in Jobs \ {d} : job'[p] = job[p]
      /\ \A e \in Deps : e # d => (e \in routes' <=> e \in routes)
  BY <1>1 DEF RegisterBegins, ClientLocks, SetRoute
<1>3. /\ \A e \in Deps : FinallyRouted(e)' <=> FinallyRouted(e)
      /\ \A s \in Stops : job'[s] = job[s] /\ target'[s] = target[s]
  BY <1>2, FinallyForms, Consts
<1>4. ASSUME NEW e \in Deps \ raced', e # d PROVE Progress(e)'
  BY <1>1, <1>2, <1>3, <1>4, ProgressFrame, Consts
<1>5. ASSUME d \notin raced' PROVE Progress(d)'
  <2>0. Progress(d) /\ (Leaving(d)' <=> Leaving(d))
    BY <1>1, <1>2, <1>3, <1>5 DEF Leaving
  <2>1. CASE RegisterBegins(d)
    <3>1. job[d] = "none" /\ job'[d] = "send" /\ routes' = routes /\ d \notin Withdrawing
      BY <1>1, <1>5, <2>1 DEF RegisterBegins
    <3>2. \A s \in Stops : target'[s] = d => job'[s] \notin Busy
      BY <1>3, <3>1 DEF Withdrawing
    <3>3. "none" \notin Busy /\ "send" \in Busy
      BY DEF Busy
    <3> QED BY <1>3, <2>0, <3>1, <3>2, <3>3 DEF Progress
  <2>2. CASE ClientLocks(d)
    <3>1. job[d] = "send" /\ job'[d] = "writing" /\ routes' = routes
      BY <1>1, <2>2 DEF ClientLocks
    <3>2. "send" \in Busy /\ "writing" \in Busy
      BY DEF Busy
    <3> QED BY <1>3, <2>0, <3>1, <3>2 DEF Progress
  <2>3. CASE SetRoute(d)
    <3>1. job[d] = "sent" /\ job'[d] = "exposed" /\ d \in routes'
      BY <1>1, <2>3 DEF SetRoute
    <3>2. "sent" \in Busy /\ "exposed" \notin Busy
      BY DEF Busy
    <3>3. FinallyRouted(d) /\ ~Leaving(d)
      BY <2>0, <3>1, <3>2 DEF Progress, Leaving
    <3> QED BY <1>3, <2>0, <3>1, <3>2, <3>3 DEF Progress
  <2> QED BY <2>1, <2>2, <2>3
<1> QED BY <1>1, <1>2, <1>4, <1>5

LEMMA SyncStop ==
    ASSUME UInv, NEW s \in Stops, UnregisterBegins(s) \/ ClientLocks(s) \/ RemoveRoute(s)
    PROVE  Synchronised'
<1> USE DEF connVars, gatewayVars, clientVars
<1> SUFFICES ASSUME open PROVE connected' /\ \A e \in Deps \ raced' : Progress(e)'
  BY DEF Synchronised, UnregisterBegins, ClientLocks, RemoveRoute
<1>1. /\ connected /\ (\A e \in Deps \ raced : Progress(e)) /\ DOMAIN job = Jobs /\ s \in Jobs
      /\ DOMAIN target = Stops /\ Targeted
  BY Consts DEF UInv, Synchronised, TunnelTypeOK
<1>2. /\ UNCHANGED <<connected, toGateway, tmRoutes>> /\ raced \subseteq raced'
      /\ \A p \in Jobs \ {s} : job'[p] = job[p]
      /\ \A u \in Stops \ {s} : target'[u] = target[u]
  BY <1>1 DEF UnregisterBegins, ClientLocks, RemoveRoute
<1>3. /\ \A e \in Deps : (FinallyRouted(e)' <=> FinallyRouted(e)) /\ job'[e] = job[e]
      /\ \A u \in Stops \ {s} : job'[u] = job[u]
  BY <1>2, FinallyForms, Consts
<1>4. CASE UnregisterBegins(s)
  <2>1. PICK d \in Deps : /\ target'[s] = d /\ (job[d] \in Busy => d \in raced')
                          /\ target[s] = None /\ job[s] = "none" /\ job'[s] = "send"
                          /\ routes' = routes
    BY <1>1, <1>4 DEF UnregisterBegins, Targeted
  <2>2. ASSUME NEW e \in Deps \ raced', e # d PROVE Progress(e)'
    <3>1. \A u \in Stops : target[u] = e \/ target'[u] = e =>
             target'[u] = target[u] /\ job'[u] = job[u]
      BY <1>2, <1>3, <2>1, <2>2, Consts
    <3> QED BY <1>1, <1>2, <1>3, <2>1, <2>2, <3>1, ProgressFrame
  <2>3. ASSUME d \notin raced' PROVE Progress(d)'
    <3>1. Progress(d) /\ job[d] \notin Busy
      BY <1>1, <1>2, <2>1, <2>3
    <3>2. Leaving(d)' <=> Leaving(d)
      <4>1. \A u \in Stops : (target'[u] = d /\ job'[u] = "sent") <=> (target[u] = d /\ job[u] = "sent")
        BY <1>2, <1>3, <2>1
      <4> QED BY <4>1 DEF Leaving
    <3> QED BY <1>3, <2>1, <3>1, <3>2 DEF Progress
  <2> QED BY <1>1, <1>2, <2>2, <2>3
<1>5. CASE ClientLocks(s)
  <2>1. /\ job[s] = "send" /\ job'[s] = "writing" /\ UNCHANGED <<routes, target, raced>>
    BY <1>1, <1>5 DEF ClientLocks
  <2>2. ASSUME NEW e \in Deps \ raced' PROVE Progress(e)'
    <3>1. Progress(e)
      BY <1>1, <2>1, <2>2
    <3>2. Leaving(e)' <=> Leaving(e)
      <4>1. \A u \in Stops : (target'[u] = e /\ job'[u] = "sent") <=> (target[u] = e /\ job[u] = "sent")
        BY <1>2, <1>3, <2>1
      <4> QED BY <4>1 DEF Leaving
    <3>3. \A u \in Stops : job'[u] \in Busy => job[u] \in Busy
      BY <1>3, <2>1 DEF Busy
    <3> QED BY <1>3, <2>1, <3>1, <3>2, <3>3 DEF Progress
  <2> QED BY <1>1, <1>2, <2>2
<1>6. CASE RemoveRoute(s)
  <2>1. /\ job[s] = "sent" /\ job'[s] = "gone" /\ UNCHANGED <<target, raced>>
        /\ routes' = routes \ {target[s]} /\ target[s] \in Deps
    BY <1>1, <1>6 DEF RemoveRoute, Targeted
  <2>2. ASSUME NEW e \in Deps \ raced', e # target[s] PROVE Progress(e)'
    <3>1. \A u \in Stops : target[u] = e \/ target'[u] = e =>
             target'[u] = target[u] /\ job'[u] = job[u]
      BY <1>2, <1>3, <2>1, <2>2
    <3>2. Progress(e) /\ (e \in routes' <=> e \in routes)
      BY <1>1, <2>1, <2>2
    <3> QED BY <1>3, <3>1, <3>2, ProgressFrame
  <2>3. ASSUME NEW d \in Deps \ raced', d = target[s] PROVE Progress(d)'
    <3>1. Progress(d) /\ d \notin routes' /\ Leaving(d)
      BY <1>1, <2>1, <2>3 DEF Leaving
    <3>2. job[d] \notin Busy
      <4>1. job[s] \in Busy
        BY <2>1 DEF Busy
      <4> QED BY <2>3, <3>1, <4>1 DEF Progress
    <3>3. job[d] \in {"none", "exposed"}
      BY <3>1, <3>2 DEF Progress, Busy
    <3>4. ~FinallyRouted(d)
      BY <3>1, <3>3 DEF Progress
    <3> QED BY <1>3, <3>1, <3>2, <3>3, <3>4 DEF Progress
  <2> QED BY <1>1, <1>2, <2>2, <2>3
<1> QED BY <1>4, <1>5, <1>6

\* A write moves the job to "sent" and decides what the gateway will know.
LEMMA SyncWrites ==
    ASSUME UInv, NEW p \in Jobs, ClientWrites(p)
    PROVE  Synchronised'
<1> USE DEF connVars, gatewayVars, clientVars
<1> SUFFICES ASSUME open PROVE connected' /\ \A e \in Deps \ raced' : Progress(e)'
  BY DEF Synchronised, ClientWrites
<1>1. /\ connected /\ (\A e \in Deps \ raced : Progress(e)) /\ DOMAIN job = Jobs
      /\ TunnelTypeOK /\ Targeted /\ toGateway \in Seq(Messages)
  BY DEF UInv, Synchronised, TunnelTypeOK
<1>2. /\ job[p] = "writing" /\ job'[p] = "sent"
      /\ \A q \in Jobs \ {p} : job'[q] = job[q]
      /\ UNCHANGED <<connected, tmRoutes, routes, target, raced>>
      /\ toGateway' = Append(toGateway, OutMsg(p))
  BY <1>1 DEF ClientWrites
<1>3. PICK m \in Messages : m = OutMsg(p)
  BY <1>1, <1>2, OutFacts
<1>4. \A e \in Deps :
        /\ m = RegisterMsg(e) => FinallyRouted(e)'
        /\ m = UnregisterMsg(e) => ~FinallyRouted(e)'
        /\ m # RegisterMsg(e) /\ m # UnregisterMsg(e) =>
             (FinallyRouted(e)' <=> FinallyRouted(e))
  <2>1. \A e \in Deps :
          /\ m = RegisterMsg(e) => Finally(Append(toGateway, m), tmRoutes, e)
          /\ m = UnregisterMsg(e) => ~Finally(Append(toGateway, m), tmRoutes, e)
          /\ m # RegisterMsg(e) /\ m # UnregisterMsg(e) =>
               (Finally(Append(toGateway, m), tmRoutes, e) <=> Finally(toGateway, tmRoutes, e))
    BY <1>1, WriteDecides
  <2>2. \A e \in Deps : FinallyRouted(e)' <=> Finally(Append(toGateway, m), tmRoutes, e)
    BY <1>2, <1>3, FinallyForms
  <2> QED BY <2>1, <2>2, FinallyForms
<1>5. CASE p \in Reqs
  <2>1. m.type = "response"
    BY <1>1, <1>2, <1>3, <1>5, OutFacts
  <2>2. \A e \in Deps : /\ RegisterMsg(e) # m /\ UnregisterMsg(e) # m
                        /\ job'[e] = job[e]
    BY <1>2, <1>5, <2>1, MessageFacts, Consts
  <2>3. \A u \in Stops : job'[u] = job[u]
    BY <1>2, <1>5, Consts
  <2> QED BY <1>1, <1>2, <1>4, <2>2, <2>3, ProgressFrame
<1>6. CASE p \in Deps
  <2>1. m = RegisterMsg(p)
    BY <1>1, <1>2, <1>3, <1>6, OutFacts
  <2>2. \A u \in Stops : job'[u] = job[u]
    BY <1>2, <1>6, Consts
  <2>3. ASSUME NEW e \in Deps \ raced', e # p PROVE Progress(e)'
    <3>1. RegisterMsg(e) # m /\ UnregisterMsg(e) # m /\ job'[e] = job[e]
      BY <1>2, <1>6, <2>1, <2>3, OtherMessages, Consts
    <3> QED BY <1>1, <1>2, <1>4, <2>2, <3>1, ProgressFrame
  <2>4. ASSUME p \notin raced' PROVE Progress(p)'
    <3>1. Progress(p) /\ FinallyRouted(p)' /\ job[p] \in Busy
      BY <1>1, <1>2, <1>4, <1>6, <2>1, <2>4 DEF Busy
    <3>2. \A u \in Stops : target'[u] = p => job'[u] \notin Busy
      BY <1>2, <2>2, <3>1 DEF Progress
    <3> QED BY <1>2, <3>1, <3>2 DEF Progress
  <2> QED BY <1>1, <1>2, <1>6, <2>3, <2>4
<1>7. CASE p \in Stops
  <2>1. m = UnregisterMsg(target[p]) /\ target[p] \in Deps
    BY <1>1, <1>2, <1>3, <1>7, OutFacts
  <2>2. /\ \A u \in Stops \ {p} : job'[u] = job[u]
        /\ \A e \in Deps : job'[e] = job[e]
    BY <1>2, <1>7, Consts
  <2>3. ASSUME NEW e \in Deps \ raced', e # target[p] PROVE Progress(e)'
    <3>1. RegisterMsg(e) # m /\ UnregisterMsg(e) # m
      BY <2>1, <2>3, OtherMessages
    <3>2. \A u \in Stops : target[u] = e \/ target'[u] = e =>
             target'[u] = target[u] /\ job'[u] = job[u]
      BY <1>2, <2>2, <2>3
    <3> QED BY <1>1, <1>2, <1>4, <2>2, <3>1, <3>2, ProgressFrame
  <2>4. ASSUME NEW d \in Deps \ raced', d = target[p] PROVE Progress(d)'
    <3>1. Progress(d) /\ ~FinallyRouted(d)' /\ Leaving(d)'
      BY <1>1, <1>2, <1>4, <1>7, <2>1, <2>4 DEF Leaving
    <3>2. job[d] \notin Busy
      <4>1. job[p] \in Busy
        BY <1>2 DEF Busy
      <4> QED BY <1>7, <2>4, <3>1, <4>1 DEF Progress
    <3>3. job'[d] \in {"none", "exposed"} /\ job'[d] = job[d]
      BY <2>2, <3>1, <3>2 DEF Progress, Busy
    <3> QED BY <1>2, <3>1, <3>2, <3>3 DEF Progress
  <2> QED BY <1>1, <1>2, <2>3, <2>4
<1> QED BY <1>5, <1>6, <1>7, Consts

LEMMA SyncReads ==
    ASSUME UInv, ReadRegister \/ ReadUnregister \/ ReadResponse
    PROVE  Synchronised'
<1> USE DEF connVars, gatewayVars, clientVars
<1> SUFFICES ASSUME open PROVE connected' /\ \A d \in Deps \ raced : Progress(d)'
  BY DEF Synchronised, ReadRegister, ReadUnregister, ReadResponse
<1>1. /\ connected /\ (\A d \in Deps \ raced : Progress(d)) /\ toGateway \in Seq(Messages)
  BY DEF UInv, Synchronised, TunnelTypeOK
<1>2. /\ toGateway # <<>> /\ toGateway' = Tail(toGateway)
      /\ UNCHANGED <<connected, job, routes, target, raced>>
  BY DEF ReadRegister, ReadUnregister, ReadResponse
<1>3. PICK m \in Messages : m = Head(toGateway)
  BY <1>1, <1>2, TakeFacts
<1>4. ASSUME NEW d \in Deps
      PROVE  /\ m = RegisterMsg(d) => d \in tmRoutes'
             /\ m = UnregisterMsg(d) => d \notin tmRoutes'
             /\ m # RegisterMsg(d) /\ m # UnregisterMsg(d) =>
                  (d \in tmRoutes' <=> d \in tmRoutes)
  <2>0. /\ RegisterMsg(d).type = "register" /\ RegisterMsg(d).dep = d
        /\ UnregisterMsg(d).type = "unregister" /\ UnregisterMsg(d).dep = d
    BY MessageFacts
  <2>1. CASE ReadRegister
    <3>1. m.type = "register" /\ tmRoutes' = tmRoutes \cup {m.dep} /\ m.dep \in Deps
          /\ m = RegisterMsg(m.dep)
      BY <1>3, <2>1, MessageFacts DEF ReadRegister, RegisterMsg
    <3> QED BY <2>0, <3>1
  <2>2. CASE ReadUnregister
    <3>1. m.type = "unregister" /\ tmRoutes' = tmRoutes \ {m.dep} /\ m.dep \in Deps
          /\ m = UnregisterMsg(m.dep)
      BY <1>3, <2>2, MessageFacts DEF ReadUnregister, UnregisterMsg
    <3> QED BY <2>0, <3>1
  <2>3. CASE ReadResponse
    BY <1>3, <2>0, <2>3 DEF ReadResponse
  <2> QED BY <2>1, <2>2, <2>3
<1>5. ASSUME NEW d \in Deps PROVE FinallyRouted(d)' <=> FinallyRouted(d)
  <2>1. /\ Head(toGateway) = RegisterMsg(d) => d \in tmRoutes'
        /\ Head(toGateway) = UnregisterMsg(d) => d \notin tmRoutes'
        /\ Head(toGateway) # RegisterMsg(d) /\ Head(toGateway) # UnregisterMsg(d) =>
             (d \in tmRoutes' <=> d \in tmRoutes)
    BY <1>3, <1>4
  <2>2. Finally(Tail(toGateway), tmRoutes', d) <=> Finally(toGateway, tmRoutes, d)
    BY <1>1, <1>2, <2>1, ReadKeepsOutcome
  <2> QED BY <1>2, <2>2, FinallyForms
<1> QED BY <1>1, <1>2, <1>5, ProgressFrame

LEMMA SynchronisedStep == UInv /\ [TunnelNext]_vars => Synchronised'
<1> SUFFICES ASSUME UInv, [TunnelNext]_vars PROVE Synchronised'
  OBVIOUS
<1> USE DEF connVars, gatewayVars, clientVars
<1>0. DOMAIN job = Jobs /\ (open => connected)
  BY DEF UInv, TunnelTypeOK, Synchronised
<1>1. CASE Breaks \/ Close
  BY <1>1 DEF Breaks, Close, Synchronised
<1>2. ASSUME NEW r \in Reqs, Route(r) \/ Request(r) PROVE Synchronised'
  <2>1. UNCHANGED <<open, connected, toGateway, tmRoutes, routes, target, raced, job>>
    BY <1>2 DEF Route, Request, SetPending, SendLocks, SendWrites, Receive, TimesOut,
       DropPending
  <2> QED BY <1>0, <2>1, SyncFrame
<1>3. ASSUME NEW r \in Reqs, Lookup(r) \/ Forward(r) \/ ClientLocks(r) PROVE Synchronised'
  <2>1. /\ UNCHANGED <<open, connected, toGateway, tmRoutes, routes, target, raced>>
        /\ \A p \in Deps \cup Stops : job'[p] = job[p]
    BY <1>0, <1>3, Consts DEF Lookup, Forward, ClientLocks
  <2> QED BY <1>0, <2>1, SyncFrame
<1>4. CASE ReaderReads
  <2>1. Head(toClient).type = "request" => Head(toClient).from \in Reqs
    BY <1>4, TakeFacts, MessageFacts DEF ReaderReads, UInv, TunnelTypeOK
  <2>2. /\ UNCHANGED <<open, connected, toGateway, tmRoutes, routes, target, raced>>
        /\ \A p \in Deps \cup Stops : job'[p] = job[p]
    BY <1>0, <1>4, <2>1, Consts DEF ReaderReads
  <2> QED BY <1>0, <2>2, SyncFrame
<1>5. CASE ConfirmLocks \/ ConfirmWrites \/ Deliver \/ ReaderLocks \/ UNCHANGED vars
  <2>1. UNCHANGED <<open, connected, toGateway, tmRoutes, routes, target, raced, job>>
    BY <1>5 DEF ConfirmLocks, ConfirmWrites, Deliver, ReaderLocks, vars
  <2> QED BY <1>0, <2>1, SyncFrame
<1>6. CASE Cleanup \/ ReaderEnds
  BY <1>6 DEF Cleanup, ReaderEnds, Synchronised
<1> QED
  BY <1>1, <1>2, <1>3, <1>4, <1>5, <1>6, SyncRegister, SyncStop, SyncWrites, SyncReads,
     Consts
  DEF TunnelNext, handleRequest, Exposure, Withdrawal, GatewayReader, ClientReader

-----------------------------------------------------------------------------
(* The theorems *)

\* Only a request whose channel is full is answered, and no response is
\* delivered to it after that.
LEMMA AnsweredStep == UInv /\ [TunnelNext]_vars => Answered'
<1> SUFFICES ASSUME UInv, [TunnelNext]_vars PROVE Answered'
  OBVIOUS
<1> USE DEF connVars, gatewayVars, clientVars, Answered
<1>0. DOMAIN rpc = Reqs /\ DOMAIN inbox = Reqs /\ Answered
  BY DEF UInv, TunnelTypeOK
<1>1. ASSUME NEW r \in Reqs, Route(r) \/ Request(r) PROVE Answered'
  <2>1. CASE Receive(r)
    BY <1>0, <2>1 DEF Receive
  <2>2. CASE Route(r) \/ SetPending(r) \/ SendLocks(r) \/ SendWrites(r) \/ TimesOut(r)
             \/ DropPending(r)
    BY <1>0, <2>2 DEF Route, SetPending, SendLocks, SendWrites, TimesOut, DropPending
  <2> QED BY <1>1, <2>1, <2>2 DEF Request
<1>2. CASE Deliver
  <2>1. gmsg \in Messages /\ gmsg.type = "response" /\ rid[gmsg.from] # 0
    BY <1>2 DEF Deliver, UInv, Responses, IsResponse
  <2>2. rid[gmsg.from] \in RequestIDs
    BY <2>1, MessageFacts, Consts DEF UInv, TunnelTypeOK, RequestIDs
  <2>3. pending[rid[gmsg.from]] # None => rpc[pending[rid[gmsg.from]]] # "answered"
    BY <2>2 DEF UInv, Waiting
  <2> QED BY <1>0, <1>2, <2>3 DEF Deliver
<1>3. CASE UNCHANGED <<rpc, inbox>>
  BY <1>0, <1>3
<1>4. ASSUME NEW r \in Reqs, handleRequest(r) PROVE UNCHANGED <<rpc, inbox>>
  BY <1>4 DEF handleRequest, Lookup, Forward, ClientLocks, ClientWrites
<1>5. ASSUME NEW p \in Jobs, \/ RegisterBegins(p) \/ Exposure(p)
                              \/ UnregisterBegins(p) \/ Withdrawal(p)
      PROVE  UNCHANGED <<rpc, inbox>>
  BY <1>5 DEF RegisterBegins, UnregisterBegins, Exposure, Withdrawal, ClientLocks,
     ClientWrites, SetRoute, RemoveRoute
<1>6. CASE ReadRegister \/ ConfirmLocks \/ ConfirmWrites \/ ReadUnregister
           \/ ReadResponse \/ Cleanup \/ ClientReader \/ Breaks \/ Close
           \/ UNCHANGED vars
  <2>1. UNCHANGED <<rpc, inbox>>
    BY <1>6 DEF ReadRegister, ConfirmLocks, ConfirmWrites, ReadUnregister,
       ReadResponse, Cleanup, ClientReader, ReaderLocks, ReaderReads, ReaderEnds,
       Breaks, Close, vars
  <2> QED BY <1>3, <2>1
<1> QED BY <1>1, <1>2, <1>3, <1>4, <1>5, <1>6, Consts DEF TunnelNext, GatewayReader

LEMMA UStep == UInv /\ [TunnelNext]_vars => UInv'
  BY TypeStep, GatewayStep, AnsweredStep, HandlersStep, TargetedStep, ExposedStep,
     SynchronisedStep
  DEF UInv, GatewayInv

LEMMA TunnelInvariance == TunnelSpec => []UInv
  BY UInit, UStep, PTL DEF TunnelSpec

\* However many requests and deployments share a connection of whatever
\* capacity, the state of the tunnel stays of its type: in particular no more
\* than Cap messages are ever under way in one direction, and the generator
\* never gives out more IDs than there are requests.
THEOREM TunnelTypeCorrect == TunnelSpec => []TunnelTypeOK
<1>1. UInv => TunnelTypeOK
  BY DEF UInv
<1> QED BY <1>1, TunnelInvariance, PTL

\* A request that is answered gets the response of its own handler
\* (Request and handleTunnelConn match them by RequestID only), whatever was
\* late, lost or timed out, as long as no other request has its ID.
THEOREM AnswersAreRight == TunnelSpec => []RightAnswer
<1>1. ASSUME UInv, NEW r \in Reqs, rpc[r] = "answered",
             \A q \in Reqs \ {r} : rid[q] # rid[r]
      PROVE  inbox[r].from = r
  <2>1. inbox[r] \in Messages /\ inbox[r].type = "response"
        /\ rid[inbox[r].from] = rid[r]
    BY <1>1 DEF UInv, Answered, Responses, IsResponse
  <2>2. inbox[r].from \in Reqs
    BY <2>1, MessageFacts
  <2> QED BY <1>1, <2>1, <2>2
<1>2. UInv => RightAnswer
  BY <1>1 DEF RightAnswer
<1> QED BY <1>2, TunnelInvariance, PTL

\* handleTunnelConn never blocks on a response channel while it holds the
\* connection's mutex: a channel in the pending table is empty.
THEOREM ChannelsHaveRoom == TunnelSpec => []ChannelHasRoom
<1>1. UInv => ChannelHasRoom
  BY DEF UInv, Waiting, ChannelHasRoom
<1> QED BY <1>1, TunnelInvariance, PTL

\* A request that has ended has left no channel behind in the pending table,
\* even when two requests were given one ID and one dropped the other's entry.
THEOREM PendingEmptied == TunnelSpec => []NoPendingLeft
<1>1. UInv => NoPendingLeft
  <2> SUFFICES ASSUME UInv, NEW r \in Reqs, NEW i \in RequestIDs,
                      rpc[r] \in Ended, pending[i] = r
               PROVE  FALSE
    BY DEF NoPendingLeft
  <2>1. r # None
    BY Consts
  <2> QED BY <2>1 DEF UInv, Waiting, Ended
<1> QED BY <1>1, TunnelInvariance, PTL

\* Between the calls of RegisterDeployment and UnregisterDeployment, once all
\* they sent has been read, both ends of an open connection have the same
\* routes, however many stops were asked for and whenever, save those of
\* deployments that a stop was asked for in the middle of RegisterDeployment.
THEOREM RoutesInAgreement == TunnelSpec => []RoutesAgree
<1>1. ASSUME UInv, open, toGateway = <<>>, NEW d \in Deps \ raced,
             \A p \in Deps \cup Stops : job[p] \notin Busy
      PROVE  d \in tmRoutes <=> d \in routes
  <2>1. Progress(d)
    BY <1>1 DEF UInv, Synchronised
  <2>2. FinallyRouted(d) <=> d \in tmRoutes
    BY <1>1 DEF FinallyRouted
  <2>3. ~Leaving(d)
    BY <1>1 DEF Leaving, Busy
  <2>4. job[d] \in {"none", "exposed"}
    BY <1>1, <2>1 DEF Progress, Busy
  <2> QED BY <2>1, <2>2, <2>3, <2>4 DEF Progress
<1>2. UInv => RoutesAgree
  BY <1>1 DEF RoutesAgree
<1> QED BY <1>2, TunnelInvariance, PTL

\* A client answers a forwarded request with 404 only while the registration
\* of its deployment is being finished or when its stop was asked for: the
\* gateway routes to nothing the client has not announced.
THEOREM NotFoundJustified == TunnelSpec => NotFoundIsTrue
<1>1. ASSUME UInv, [TunnelNext]_vars, NEW r \in Reqs,
             job[r] = "lookup", status'[r] = 404
      PROVE  job[rdep[r]] \in {"sent"} \/ \E s \in Stops : target[s] = rdep[r]
  <2>1. status[r] = 200 /\ rpc[r] \notin {"new", "notfound"}
    BY <1>1 DEF UInv, Handlers, Unsent
  <2>2. rdep[r] \in Deps /\ rdep[r] # None
    BY <1>1, <2>1, Consts DEF UInv, Routing
  <2>3. /\ job[rdep[r]] \in {"sent", "exposed"}
        /\ job[rdep[r]] = "exposed" =>
             rdep[r] \in routes \/ \E s \in Stops : target[s] = rdep[r]
    BY <1>1, <2>2 DEF UInv, Exposed, Announced
  <2>4. ASSUME rdep[r] \in routes PROVE status'[r] # 404
    <3>1. DOMAIN status = Reqs
      BY <1>1 DEF UInv, TunnelTypeOK
    <3>2. ASSUME NEW q \in Reqs, Lookup(q) \/ Forward(q) PROVE status'[r] # 404
      BY <1>1, <2>1, <2>4, <3>1, <3>2 DEF Lookup, Forward
    <3>3. ASSUME NEW p \in Jobs, ClientLocks(p) \/ ClientWrites(p)
          PROVE  status'[r] # 404
      BY <2>1, <3>3 DEF ClientLocks, ClientWrites
    <3>4. ASSUME NEW q \in Reqs, Route(q) \/ Request(q) PROVE status'[r] # 404
      BY <2>1, <3>4 DEF Route, Request, SetPending, SendLocks, SendWrites, Receive,
         TimesOut, DropPending, clientVars
    <3>5. ASSUME NEW p \in Jobs, \/ RegisterBegins(p) \/ UnregisterBegins(p)
                                 \/ SetRoute(p) \/ RemoveRoute(p)
          PROVE  status'[r] # 404
      BY <2>1, <3>5 DEF RegisterBegins, UnregisterBegins, SetRoute, RemoveRoute
    <3>6. CASE GatewayReader \/ ClientReader \/ Breaks \/ Close \/ UNCHANGED vars
      BY <2>1, <3>6 DEF GatewayReader, ReadRegister, ConfirmLocks, ConfirmWrites,
         ReadUnregister, ReadResponse, Deliver, Cleanup, ClientReader, ReaderLocks,
         ReaderReads, ReaderEnds, Breaks, Close, vars, clientVars
    <3> QED
      BY <1>1, <3>2, <3>3, <3>4, <3>5, <3>6, Consts
      DEF TunnelNext, handleRequest, Exposure, Withdrawal
  <2> QED BY <1>1, <2>3, <2>4
<1>2. UInv /\ [TunnelNext]_vars =>
        [\A r \in Reqs : job[r] = "lookup" /\ status'[r] = 404 =>
            \/ job[rdep[r]] \in {"sent"}
            \/ \E s \in Stops : target[s] = rdep[r]]_vars
  BY <1>1
<1> QED BY <1>2, TunnelInvariance, PTL DEF TunnelSpec, NotFoundIsTrue
===============================================================================
