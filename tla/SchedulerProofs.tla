--------------------------- MODULE SchedulerProofs ---------------------------
(***************************************************************************)
(* Theorems about Scheduler, and that it implements Lifecycle, for every   *)
(* value of its constants.                                                 *)
(***************************************************************************)
EXTENDS SchedulerRefinement, TLAPS, FiniteSetTheorems

-----------------------------------------------------------------------------
(* The sum of a function on Ids *)

\* The positive part of an integer.
Pos(k) == IF k > 0 THEN k ELSE 0

\* The unit charges of f, and those of a value k at i.
Units(f) == {u \in Ids \X (1..MaxLimit) : u[2] <= f[u[1]]}
UnitsOf(i, k) == {u \in {i} \X (1..MaxLimit) : u[2] <= k}

\* The unit charges of a value at i are as many as its positive part.
LEMMA UnitsOfSize ==
    ASSUME NEW i \in Ids, NEW k \in Limits
    PROVE  /\ IsFiniteSet(UnitsOf(i, k))
           /\ Cardinality(UnitsOf(i, k)) = Pos(k)
<1> k \in Int /\ k <= MaxLimit /\ MaxLimit \in Nat
  BY SchedulerAssumption DEF SchedulerAssumption, Limits
<1>1. UnitsOf(i, k) = {i} \X (1..k)
  BY DEF UnitsOf
<1>2. IsFiniteSet({i}) /\ Cardinality({i}) = 1
  BY FS_Singleton
<1>3. IsFiniteSet(1..k) /\ Cardinality(1..k) = Pos(k)
  BY FS_Interval DEF Pos
<1>4. IsFiniteSet({i} \X (1..k))
      /\ Cardinality({i} \X (1..k)) = Cardinality({i}) * Cardinality(1..k)
  BY <1>2, <1>3, FS_Product
<1>5. Pos(k) \in Nat
  BY DEF Pos
<1>6. 1 * Pos(k) = Pos(k)
  BY <1>5
<1> QED
  BY <1>1, <1>2, <1>3, <1>4, <1>6

\* The size of a union of two disjoint finite sets.
LEMMA DisjointUnion ==
    ASSUME NEW S, NEW T, IsFiniteSet(S), IsFiniteSet(T), S \cap T = {}
    PROVE  /\ IsFiniteSet(S \cup T)
           /\ Cardinality(S) \in Nat /\ Cardinality(T) \in Nat
           /\ Cardinality(S \cup T) = Cardinality(S) + Cardinality(T)
<1>1. Cardinality(S) \in Nat /\ Cardinality(T) \in Nat
  BY FS_CardinalityType
<1>2. Cardinality(S \cap T) = 0
  BY FS_EmptySet
<1>3. IsFiniteSet(S \cup T)
      /\ Cardinality(S \cup T) =
           Cardinality(S) + Cardinality(T) - Cardinality(S \cap T)
  BY FS_Union
<1> QED
  BY <1>1, <1>2, <1>3

\* Changing one value of f moves the count of its units by the difference of
\* the positive parts.
LEMMA UnitsUpdate ==
    ASSUME NEW f \in [Ids -> Limits], NEW i \in Ids, NEW v \in Limits
    PROVE  /\ Cardinality(Units(f)) \in Nat
           /\ Cardinality(Units([f EXCEPT ![i] = v])) =
                Cardinality(Units(f)) - Pos(f[i]) + Pos(v)
<1> DEFINE g == [f EXCEPT ![i] = v]
           Rest == {u \in (Ids \ {i}) \X (1..MaxLimit) : u[2] <= f[u[1]]}
<1>1. Units(f) = Rest \cup UnitsOf(i, f[i]) /\ Rest \cap UnitsOf(i, f[i]) = {}
  BY DEF Units, UnitsOf
<1>2. Units(g) = Rest \cup UnitsOf(i, v) /\ Rest \cap UnitsOf(i, v) = {}
  BY DEF Units, UnitsOf
<1>3. IsFiniteSet(Rest)
  <2>1. IsFiniteSet(Ids) /\ IsFiniteSet(1..MaxLimit)
    BY SchedulerAssumption, FS_Interval DEF SchedulerAssumption, Ids
  <2>2. IsFiniteSet(Ids \X (1..MaxLimit))
    BY <2>1, FS_Product
  <2>3. Rest \subseteq Ids \X (1..MaxLimit)
    OBVIOUS
  <2> QED
    BY <2>2, <2>3, FS_Subset
<1> HIDE DEF Rest, g
<1>4. f[i] \in Limits
  OBVIOUS
<1>5. IsFiniteSet(UnitsOf(i, f[i])) /\ Cardinality(UnitsOf(i, f[i])) = Pos(f[i])
  BY <1>4, UnitsOfSize
<1>6. IsFiniteSet(UnitsOf(i, v)) /\ Cardinality(UnitsOf(i, v)) = Pos(v)
  BY UnitsOfSize
<1>7. Cardinality(Rest) \in Nat
  BY <1>3, FS_CardinalityType
<1>8. Cardinality(Units(f)) = Cardinality(Rest) + Pos(f[i])
  BY <1>1, <1>3, <1>5, DisjointUnion
<1>9. Cardinality(Units(g)) = Cardinality(Rest) + Pos(v)
  BY <1>2, <1>3, <1>6, DisjointUnion
<1>10. Pos(f[i]) \in Nat /\ Pos(v) \in Nat
  BY <1>4, SchedulerAssumption DEF SchedulerAssumption, Limits, Pos
<1> QED
  BY <1>7, <1>8, <1>9, <1>10 DEF g

\* Changing one value of f moves its total by the difference of the values.
LEMMA TotalUpdate ==
    ASSUME NEW f \in [Ids -> Limits], NEW i \in Ids, NEW v \in Limits
    PROVE  /\ Total(f) \in Int
           /\ Total([f EXCEPT ![i] = v]) = Total(f) - f[i] + v
<1> DEFINE neg == [j \in Ids |-> -f[j]]
           g == [f EXCEPT ![i] = v]
           ng == [j \in Ids |-> -g[j]]
<1>1. neg \in [Ids -> Limits] /\ -v \in Limits /\ neg[i] = -f[i]
      /\ f[i] \in Int /\ v \in Int
  BY SchedulerAssumption DEF SchedulerAssumption, Limits
<1>2. ng = [neg EXCEPT ![i] = -v]
  OBVIOUS
<1>3. Total(f) = Cardinality(Units(f)) - Cardinality(Units(neg))
  <2>1. Units(neg) = {u \in Ids \X (1..MaxLimit) : u[2] <= -f[u[1]]}
    BY DEF Units
  <2> QED
    BY <2>1 DEF Total, Units
<1>4. Total(g) = Cardinality(Units(g)) - Cardinality(Units(ng))
  <2>1. Units(ng) = {u \in Ids \X (1..MaxLimit) : u[2] <= -g[u[1]]}
    BY DEF Units
  <2> QED
    BY <2>1 DEF Total, Units
<1>5. /\ Cardinality(Units(f)) \in Nat
      /\ Cardinality(Units(g)) = Cardinality(Units(f)) - Pos(f[i]) + Pos(v)
  BY UnitsUpdate
<1>6. /\ Cardinality(Units(neg)) \in Nat
      /\ Cardinality(Units(ng)) =
           Cardinality(Units(neg)) - Pos(-f[i]) + Pos(-v)
  <2> HIDE DEF neg, ng
  <2> QED BY <1>1, <1>2, UnitsUpdate
<1>7. Pos(f[i]) - Pos(-f[i]) = f[i] /\ Pos(v) - Pos(-v) = v
      /\ Pos(f[i]) \in Nat /\ Pos(v) \in Nat
      /\ Pos(-f[i]) \in Nat /\ Pos(-v) \in Nat
  BY <1>1 DEF Pos
<1> HIDE DEF neg, ng, g
<1> QED
  BY <1>1, <1>3, <1>4, <1>5, <1>6, <1>7 DEF g

\* The total of the zero function is zero.
LEMMA TotalZero == Total([i \in Ids |-> 0]) = 0
<1> DEFINE z == [i \in Ids |-> 0]
<1>1. {u \in Ids \X (1..MaxLimit) : u[2] <= z[u[1]]} = {}
  BY SchedulerAssumption DEF SchedulerAssumption
<1>2. {u \in Ids \X (1..MaxLimit) : u[2] <= -z[u[1]]} = {}
  BY SchedulerAssumption DEF SchedulerAssumption
<1>3. Cardinality({}) = 0
  BY FS_EmptySet
<1> QED
  BY <1>1, <1>2, <1>3 DEF Total

-----------------------------------------------------------------------------
(* Type correctness *)

\* A goroutine inside a call holds an allocated record with a proper ID.
WellFormed ==
    /\ \A i \in Ids : deployments[i] <= calls
    /\ \A o \in 1..calls : heap[o].id \in 1..lastId
    /\ \A w \in Workers : pc[w] \notin {"idle", "error"} => dep[w] # Nil
    /\ \A s \in Stoppers : spc[s] \in {"marked", "stopped"} =>
         sdep[s] # Nil /\ target[s] # Nil

TypeInv == TypeOK /\ WellFormed

\* The steps of the scheduler when Stop may be given any ID, as StopAll does.
AnyStop(s) ==
    \/ \E id \in Ids : StopLookup(s, id)
    \/ StopContainer(s) \/ StopRelease(s) \/ StopReturns(s)

AnyNext ==
    \/ \E w \in Workers : Schedule(w)
    \/ \E s \in Stoppers : AnyStop(s)
    \/ ContainerExits

LEMMA NextIsAny == [Next]_vars => [AnyNext]_vars
  BY DEF Next, Stop, AnyNext, AnyStop

USE DEF Ids, Nil

\* The heap h2 differs from h in statuses only.
SameRecords(h, h2) ==
    \A x \in Ids : /\ h2[x].id = h[x].id
                   /\ h2[x].cpu = h[x].cpu
                   /\ h2[x].mem = h[x].mem
                   /\ h2[x].container = h[x].container

\* Setting the status of one record keeps the heap well-typed and changes
\* nothing else.
LEMMA SetStatus ==
    ASSUME NEW h \in [Ids -> Deployment], NEW o \in Ids, NEW st \in Status,
           NEW h2, h2 = [h EXCEPT ![o].status = st]
    PROVE  /\ h2 \in [Ids -> Deployment]
           /\ SameRecords(h, h2)
           /\ \A x \in Ids : x # o => h2[x] = h[x]
           /\ h2[o].status = st
<1> DEFINE d == [h[o] EXCEPT !.status = st]
<1>1. h[o] \in Deployment
  OBVIOUS
<1>2. d \in Deployment /\ d.id = h[o].id /\ d.cpu = h[o].cpu
      /\ d.mem = h[o].mem /\ d.container = h[o].container /\ d.status = st
  BY <1>1 DEF Deployment
<1>3. h2 = [h EXCEPT ![o] = d]
  OBVIOUS
<1> HIDE DEF d
<1>4. h2[o] = d /\ \A x \in Ids : x # o => h2[x] = h[x]
  BY <1>3
<1>5. h2 \in [Ids -> Deployment]
  BY <1>2, <1>3
<1>6. SameRecords(h, h2)
  BY <1>2, <1>4 DEF SameRecords
<1> QED
  BY <1>2, <1>4, <1>5, <1>6

\* updateStatus keeps the heap well-typed and changes no field but a status.
LEMMA UpdateStatusType ==
    ASSUME TypeInv, NEW id \in Ids, NEW st \in Status, updateStatus(id, st)
    PROVE  heap' \in [Ids -> Deployment] /\ SameRecords(heap, heap')
<1>1. CASE deployments[id] = Nil
  BY <1>1 DEF TypeInv, TypeOK, updateStatus, SameRecords
<1>2. CASE deployments[id] # Nil
  <2>1. deployments[id] \in Ids
    BY <1>2, SchedulerAssumption DEF TypeInv, TypeOK, SchedulerAssumption
  <2>2. heap' = [heap EXCEPT ![deployments[id]].status = st]
    BY <1>2 DEF updateStatus
  <2>3. heap \in [Ids -> Deployment]
    BY DEF TypeInv, TypeOK
  <2> QED
    BY <2>1, <2>2, <2>3, SetStatus, Zenon
<1> QED
  BY <1>1, <1>2

\* Release keeps the table and the heap well-typed and changes no field but a
\* status.
LEMMA ReleaseType ==
    ASSUME TypeInv, NEW id \in Ids, NEW st \in Status, Release(id, st)
    PROVE  /\ heap' \in [Ids -> Deployment] /\ SameRecords(heap, heap')
           /\ deployments' \in [Ids -> 0..MaxDeploys]
           /\ usedCPU' \in Int /\ usedMemory' \in Int
           /\ deployments' = [deployments EXCEPT ![id] = Nil]
<1>1. CASE deployments[id] = Nil
  BY <1>1 DEF TypeInv, TypeOK, Release, tableVars, SameRecords
<1>2. CASE deployments[id] # Nil
  <2> DEFINE d == heap[deployments[id]]
  <2>1. deployments[id] \in Ids /\ heap \in [Ids -> Deployment]
        /\ deployments \in [Ids -> 0..MaxDeploys]
        /\ usedCPU \in Int /\ usedMemory \in Int
    BY <1>2, SchedulerAssumption DEF TypeInv, TypeOK, SchedulerAssumption
  <2>2. d.cpu \in Int /\ d.mem \in Int
    <3>1. d \in Deployment
      BY <2>1
    <3> HIDE DEF d
    <3>2. d.cpu \in Limits /\ d.mem \in Limits
      BY <3>1 DEF Deployment
    <3> QED
      BY <3>2, SchedulerAssumption DEF Limits, SchedulerAssumption
  <2>3. /\ usedCPU' = usedCPU - d.cpu /\ usedMemory' = usedMemory - d.mem
        /\ heap' = [heap EXCEPT ![deployments[id]].status = st]
        /\ deployments' = [deployments EXCEPT ![id] = Nil]
    BY <1>2 DEF Release
  <2>4. heap' \in [Ids -> Deployment] /\ SameRecords(heap, heap')
    BY <2>1, <2>3, SetStatus, Zenon
  <2>5. usedCPU' \in Int /\ usedMemory' \in Int
    BY <2>1, <2>2, <2>3
  <2>6. deployments' \in [Ids -> 0..MaxDeploys]
    BY <2>1, <2>3, SchedulerAssumption DEF SchedulerAssumption
  <2> QED
    BY <2>3, <2>4, <2>5, <2>6
<1> QED
  BY <1>1, <1>2

\* Publish keeps the heap well-typed and changes the status and the container
\* of at most one record.
LEMMA PublishType ==
    ASSUME TypeInv, NEW w \in Workers, Publish(w),
           dep[w] \in Ids, heap[dep[w]].id \in Ids
    PROVE  /\ heap' \in [Ids -> Deployment]
           /\ \A x \in Ids : /\ heap'[x].id = heap[x].id
                             /\ heap'[x].cpu = heap[x].cpu
                             /\ heap'[x].mem = heap[x].mem
                             /\ x # deployments[heap[dep[w]].id] =>
                                  heap'[x] = heap[x]
           /\ deployments[heap[dep[w]].id] # Nil =>
                heap'[deployments[heap[dep[w]].id]].container = dep[w]
<1> DEFINE o == deployments[heap[dep[w]].id]
           d == [heap[o] EXCEPT !.container = dep[w], !.status = "running"]
<1>1. heap \in [Ids -> Deployment]
  BY DEF TypeInv, TypeOK
<1>2. CASE o = Nil
  BY <1>1, <1>2 DEF Publish
<1>3. CASE o # Nil
  <2>1. o \in Ids
    BY <1>3, SchedulerAssumption DEF TypeInv, TypeOK, SchedulerAssumption
  <2>2. heap' = [heap EXCEPT ![o].container = dep[w], ![o].status = "running"]
    BY <1>3 DEF Publish
  <2> HIDE DEF o
  <2>3. heap' = [heap EXCEPT ![o] = d]
    BY <1>1, <2>1, <2>2
  <2>4. d \in Deployment /\ d.id = heap[o].id /\ d.cpu = heap[o].cpu
        /\ d.mem = heap[o].mem /\ d.container = dep[w]
    <3>1. heap[o] \in Deployment /\ dep[w] \in 0..MaxDeploys
      BY <1>1, <2>1, SchedulerAssumption DEF SchedulerAssumption
    <3> QED
      BY <3>1 DEF Deployment, Status
  <2> HIDE DEF d
  <2>5. heap'[o] = d /\ \A x \in Ids : x # o => heap'[x] = heap[x]
    BY <1>1, <2>1, <2>3
  <2>6. heap' \in [Ids -> Deployment]
    BY <1>1, <2>1, <2>3, <2>4
  <2> QED
    BY <2>4, <2>5, <2>6 DEF o
<1> QED
  BY <1>2, <1>3

\* NewScheduler's empty tables have the types.
LEMMA TypeInit == Init => TypeInv
  BY SchedulerAssumption DEF SchedulerAssumption, Init, TypeInv, TypeOK,
     WellFormed, Deployment, Limits, Status

\* Every step keeps the types and the pointers well-formed.
LEMMA TypeStep == TypeInv /\ [AnyNext]_vars => TypeInv'
<1> SUFFICES ASSUME TypeInv, [AnyNext]_vars PROVE TypeInv'
  OBVIOUS
<1> MaxDeploys \in Nat /\ calls \in Nat /\ lastId \in Nat /\ calls <= MaxDeploys
    /\ lastId <= calls /\ Requests \subseteq [cpu : Limits, mem : Limits]
  BY SchedulerAssumption DEF SchedulerAssumption, TypeInv, TypeOK
<1>1. ASSUME NEW w \in Workers, Admit(w) PROVE TypeInv'
  <2>1. PICK r \in Requests, id \in NewIds :
          /\ lastId' = id
          /\ heap' = [heap EXCEPT ![calls + 1] =
               [id |-> id, cpu |-> r.cpu, mem |-> r.mem,
                status |-> "pending", container |-> Nil]]
    BY <1>1 DEF Admit
  <2>2. id \in 1..(calls + 1) /\ id >= lastId /\ calls + 1 \in Ids
    BY <1>1 DEF NewIds, Admit
  <2>3. r.cpu \in Limits /\ r.mem \in Limits
    OBVIOUS
  <2>4. heap' \in [Ids -> Deployment]
    BY <2>1, <2>2, <2>3 DEF TypeInv, TypeOK, Deployment, Status
  <2>5. TypeOK'
    BY <1>1, <2>1, <2>2, <2>4 DEF TypeInv, TypeOK, Admit, tableVars, stopVars
  <2>6. \A o \in 1..calls' : heap'[o].id \in 1..lastId'
    <3> SUFFICES ASSUME NEW o \in 1..(calls + 1) PROVE heap'[o].id \in 1..id
      BY <1>1, <2>1 DEF Admit
    <3>1. CASE o = calls + 1
      BY <2>1, <2>2, <3>1 DEF TypeInv, TypeOK
    <3>2. CASE o # calls + 1
      <4>1. o \in 1..calls /\ heap'[o] = heap[o]
        BY <2>1, <3>2 DEF TypeInv, TypeOK
      <4> QED
        BY <2>2, <4>1 DEF TypeInv, WellFormed
    <3> QED
      BY <3>1, <3>2
  <2> QED
    BY <1>1, <2>5, <2>6
    DEF TypeInv, TypeOK, WellFormed, Admit, tableVars, stopVars
<1>2. ASSUME NEW w \in Workers, Reject(w) PROVE TypeInv'
  BY <1>2 DEF TypeInv, TypeOK, WellFormed, Reject, tableVars, stopVars
<1>3. ASSUME NEW w \in Workers, pc[w] \notin {"idle", "error"}
      PROVE  dep[w] \in 1..calls /\ dep[w] \in Ids /\ heap[dep[w]].id \in Ids
  <2>1. dep[w] \in 1..calls
    BY <1>3 DEF TypeInv, TypeOK, WellFormed
  <2>2. heap[dep[w]].id \in 1..lastId
    BY <2>1 DEF TypeInv, WellFormed
  <2> QED
    BY <2>1, <2>2
<1>4. ASSUME NEW w \in Workers, Register(w) PROVE TypeInv'
  <2> DEFINE d == heap[dep[w]]
  <2>1. dep[w] \in 1..calls /\ dep[w] \in Ids /\ d.id \in Ids
    BY <1>3, <1>4 DEF Register
  <2>2. d.cpu \in Int /\ d.mem \in Int
    <3>1. d \in Deployment
      BY <2>1 DEF TypeInv, TypeOK
    <3> HIDE DEF d
    <3>2. d.cpu \in Limits /\ d.mem \in Limits
      BY <3>1 DEF Deployment
    <3> QED
      BY <3>2, SchedulerAssumption DEF Limits, SchedulerAssumption
  <2>3. /\ deployments' = [deployments EXCEPT ![d.id] = dep[w]]
        /\ usedCPU' = usedCPU + d.cpu
        /\ usedMemory' = usedMemory + d.mem
    BY <1>4 DEF Register
  <2> HIDE DEF d
  <2>4. deployments' \in [Ids -> 0..MaxDeploys]
        /\ \A i \in Ids : deployments'[i] <= calls
    BY <2>1, <2>3 DEF TypeInv, TypeOK, WellFormed
  <2>5. usedCPU' \in Int /\ usedMemory' \in Int
    BY <2>2, <2>3 DEF TypeInv, TypeOK
  <2>6. TypeOK'
    BY <1>4, <2>4, <2>5 DEF TypeInv, TypeOK, Register, stopVars
  <2>7. WellFormed'
    BY <1>4, <2>1, <2>4 DEF TypeInv, TypeOK, WellFormed, Register, stopVars
  <2> QED
    BY <2>6, <2>7 DEF TypeInv
<1>5. ASSUME NEW w \in Workers, SetPulling(w) \/ PullSucceeds(w) PROVE TypeInv'
  <2>1. dep[w] # Nil /\ heap[dep[w]].id \in Ids
    BY <1>3, <1>5 DEF SetPulling, PullSucceeds
  <2>2. PICK st \in Status : updateStatus(heap[dep[w]].id, st)
    BY <1>5 DEF SetPulling, PullSucceeds, Status
  <2>3. heap' \in [Ids -> Deployment] /\ SameRecords(heap, heap')
    BY <2>1, <2>2, UpdateStatusType
  <2>4. TypeOK'
    BY <1>5, <2>3 DEF TypeInv, TypeOK, SetPulling, PullSucceeds,
       tableVars, stopVars
  <2>5. \A o \in 1..calls : heap'[o].id \in 1..lastId
    BY <2>3 DEF TypeInv, WellFormed, SameRecords
  <2>6. WellFormed'
    BY <1>5, <2>1, <2>5 DEF TypeInv, TypeOK, WellFormed, SetPulling,
       PullSucceeds, tableVars, stopVars
  <2> QED
    BY <2>4, <2>6 DEF TypeInv
<1>6. ASSUME NEW w \in Workers, PullFails(w) \/ RunFails(w) PROVE TypeInv'
  <2>1. heap[dep[w]].id \in Ids /\ failDeployment(w)
    BY <1>3, <1>6 DEF PullFails, RunFails
  <2>2. Release(heap[dep[w]].id, "failed") /\ "failed" \in Status
    BY <2>1 DEF failDeployment, Status
  <2>3. /\ heap' \in [Ids -> Deployment] /\ SameRecords(heap, heap')
        /\ deployments' \in [Ids -> 0..MaxDeploys]
        /\ usedCPU' \in Int /\ usedMemory' \in Int
        /\ deployments' = [deployments EXCEPT ![heap[dep[w]].id] = Nil]
    BY <2>1, <2>2, ReleaseType
  <2>4. TypeOK'
    BY <2>1, <2>3 DEF TypeInv, TypeOK, failDeployment, stopVars
  <2>5. \A o \in 1..calls : heap'[o].id \in 1..lastId
    <3>1. SameRecords(heap, heap')
      BY <2>3
    <3> QED
      BY <3>1 DEF TypeInv, WellFormed, SameRecords
  <2>6. \A i \in Ids : deployments'[i] <= calls
    BY <2>1, <2>3 DEF TypeInv, TypeOK, WellFormed
  <2>7. WellFormed'
    BY <2>1, <2>5, <2>6 DEF TypeInv, TypeOK, WellFormed, failDeployment, stopVars
  <2> QED
    BY <2>4, <2>7 DEF TypeInv
<1>7. ASSUME NEW w \in Workers, RunSucceeds(w) PROVE TypeInv'
  <2>1. dep[w] \in Ids
    BY <1>3, <1>7 DEF RunSucceeds
  <2> QED
    BY <1>7, <2>1 DEF TypeInv, TypeOK, WellFormed, RunSucceeds, tableVars,
       stopVars
<1>8. ASSUME NEW w \in Workers, Publish(w) PROVE TypeInv'
  <2>1. dep[w] \in Ids /\ heap[dep[w]].id \in Ids
    BY <1>3, <1>8 DEF Publish
  <2>2. /\ heap' \in [Ids -> Deployment]
        /\ \A x \in Ids : heap'[x].id = heap[x].id
    BY <2>1, PublishType, <1>8
  <2>3. TypeOK'
    BY <1>8, <2>2 DEF TypeInv, TypeOK, Publish, tableVars, stopVars
  <2>4. \A o \in 1..calls : heap'[o].id \in 1..lastId
    BY <2>2 DEF TypeInv, WellFormed
  <2>5. WellFormed'
    BY <1>8, <2>1, <2>4 DEF TypeInv, TypeOK, WellFormed, Publish, tableVars,
       stopVars
  <2> QED
    BY <2>3, <2>5 DEF TypeInv
<1>9. ASSUME NEW w \in Workers, ScheduleReturns(w) PROVE TypeInv'
  BY <1>9 DEF TypeInv, TypeOK, WellFormed, ScheduleReturns, tableVars, stopVars
<1>10. ASSUME NEW s \in Stoppers, NEW id \in Ids, StopLookup(s, id)
       PROVE  TypeInv'
  <2>1. /\ target' = [target EXCEPT ![s] = id]
        /\ sdep' = [sdep EXCEPT ![s] = deployments[id]]
        /\ updateStatus(id, "stopping")
        /\ spc' = [spc EXCEPT ![s] = IF deployments[id] = Nil
                                     THEN "error" ELSE "marked"]
    BY <1>10 DEF StopLookup
  <2>2. /\ heap' \in [Ids -> Deployment]
        /\ SameRecords(heap, heap')
    BY <2>1, UpdateStatusType DEF Status
  <2>3. deployments[id] \in 0..calls
    BY DEF TypeInv, TypeOK, WellFormed
  <2>4. TypeOK'
    BY <1>10, <2>1, <2>2, <2>3
    DEF TypeInv, TypeOK, StopLookup, tableVars, workerVars
  <2>5. \A o \in 1..calls : heap'[o].id \in 1..lastId
    BY <2>2 DEF TypeInv, WellFormed, SameRecords
  <2>6. \A t \in Stoppers : spc'[t] \in {"marked", "stopped"} =>
          sdep'[t] # Nil /\ target'[t] # Nil
    BY <2>1, <2>3 DEF TypeInv, TypeOK, WellFormed
  <2>7. WellFormed'
    BY <1>10, <2>5, <2>6
    DEF TypeInv, TypeOK, WellFormed, StopLookup, tableVars, workerVars
  <2> QED
    BY <2>4, <2>7 DEF TypeInv
<1>11. ASSUME NEW s \in Stoppers, StopContainer(s) PROVE TypeInv'
  BY <1>11 DEF TypeInv, TypeOK, WellFormed, StopContainer, tableVars, workerVars
<1>12. ASSUME NEW s \in Stoppers, StopRelease(s) PROVE TypeInv'
  <2>1. target[s] \in Ids /\ Release(target[s], "stopped") /\ "stopped" \in Status
    BY <1>12 DEF TypeInv, TypeOK, WellFormed, StopRelease, Status
  <2>2. /\ heap' \in [Ids -> Deployment] /\ SameRecords(heap, heap')
        /\ deployments' \in [Ids -> 0..MaxDeploys]
        /\ usedCPU' \in Int /\ usedMemory' \in Int
        /\ deployments' = [deployments EXCEPT ![target[s]] = Nil]
    BY <2>1, ReleaseType
  <2>3. TypeOK'
    BY <1>12, <2>2 DEF TypeInv, TypeOK, StopRelease, workerVars
  <2>4. \A o \in 1..calls : heap'[o].id \in 1..lastId
    BY <2>2 DEF TypeInv, WellFormed, SameRecords
  <2>5. \A i \in Ids : deployments'[i] <= calls
    BY <2>1, <2>2 DEF TypeInv, TypeOK, WellFormed
  <2>6. WellFormed'
    BY <1>12, <2>4, <2>5 DEF TypeInv, TypeOK, WellFormed, StopRelease, workerVars
  <2> QED
    BY <2>3, <2>6 DEF TypeInv
<1>13. ASSUME NEW s \in Stoppers, StopReturns(s) PROVE TypeInv'
  BY <1>13 DEF TypeInv, TypeOK, WellFormed, StopReturns, tableVars, workerVars
<1>14. CASE ContainerExits
  BY <1>14 DEF TypeInv, TypeOK, WellFormed, ContainerExits, tableVars,
     workerVars, stopVars
<1>15. CASE UNCHANGED vars
  BY <1>15 DEF TypeInv, TypeOK, WellFormed, vars, tableVars, workerVars, stopVars
<1> QED
  BY <1>1, <1>2, <1>4, <1>5, <1>6, <1>7, <1>8, <1>9, <1>10, <1>11, <1>12,
     <1>13, <1>14, <1>15 DEF AnyNext, Schedule, AnyStop

\* The scheduler's state is well-typed in every reachable state.
THEOREM TypeCorrect == Spec => []TypeOK
<1>1. Spec => []TypeInv
  BY TypeInit, TypeStep, NextIsAny, PTL DEF Spec
<1> QED
  BY <1>1, PTL DEF TypeInv

\* The strengthened type invariant itself, for the proofs below.
LEMMA TypeInvHolds == Spec => []TypeInv
  BY TypeInit, TypeStep, NextIsAny, PTL DEF Spec

-----------------------------------------------------------------------------
(* Concurrent admission: the table and its slots *)

Admitted == {w \in Workers : pc[w] = "admitted"}

\* A call that passed CanSchedule but has not inserted yet counts as a slot.
SlotsInv ==
    Cardinality(Live) + Cardinality(Admitted)
      <= maxSlots + Cardinality(Workers) - 1

\* Both counts are over finite sets.
LEMMA SlotsFinite ==
    /\ IsFiniteSet(Live) /\ Cardinality(Live) \in Nat
    /\ IsFiniteSet(Admitted) /\ Cardinality(Admitted) \in Nat
    /\ Cardinality(Admitted) <= Cardinality(Workers)
    /\ Cardinality(Workers) \in Nat /\ Cardinality(Workers) > 0
<1>1. IsFiniteSet(Ids)
  BY SchedulerAssumption, FS_Interval DEF SchedulerAssumption
<1>2. IsFiniteSet(Live)
  BY <1>1, FS_Subset DEF Live
<1>3. IsFiniteSet(Workers) /\ Workers # {}
  BY SchedulerAssumption DEF SchedulerAssumption
<1>4. Admitted \subseteq Workers
  BY DEF Admitted
<1>5. IsFiniteSet(Admitted) /\ Cardinality(Admitted) <= Cardinality(Workers)
  BY <1>3, <1>4, FS_Subset
<1>6. Cardinality(Workers) \in Nat /\ Cardinality(Workers) # 0
  BY <1>3, FS_CardinalityType, FS_EmptySet
<1> QED
  BY <1>2, <1>5, <1>6, FS_CardinalityType

\* A step that empties slots, or none, and admits nobody keeps the bound.
LEMMA SlotsShrink ==
    ASSUME SlotsInv, Live' \subseteq Live, Admitted' = Admitted
    PROVE  SlotsInv'
<1>1. Cardinality(Live') <= Cardinality(Live) /\ Cardinality(Live') \in Nat
  BY SlotsFinite, FS_Subset, FS_CardinalityType
<1> QED
  BY <1>1, SlotsFinite, SchedulerAssumption DEF SchedulerAssumption, SlotsInv

\* Release only removes entries.
LEMMA ReleaseShrinks ==
    ASSUME TypeInv, NEW id \in Ids, NEW st \in Status, Release(id, st)
    PROVE  Live' \subseteq Live
<1>1. deployments' = [deployments EXCEPT ![id] = Nil]
  BY ReleaseType
<1> QED
  BY <1>1 DEF TypeInv, TypeOK, Live

\* An empty table is within the slots.
LEMMA SlotsInit == Init => SlotsInv
<1> SUFFICES ASSUME Init PROVE SlotsInv
  OBVIOUS
<1>1. Live = {} /\ Admitted = {}
  BY DEF Init, Live, Admitted
<1>2. Cardinality({}) = 0
  BY FS_EmptySet
<1> QED
  BY <1>1, <1>2, SlotsFinite, SchedulerAssumption
  DEF SlotsInv, SchedulerAssumption

\* Every step keeps the bound: admission needs a free slot, and an insertion
\* turns an admitted call into an entry.
LEMMA SlotsStep == TypeInv /\ SlotsInv /\ [Next]_vars => SlotsInv'
<1> SUFFICES ASSUME TypeInv, SlotsInv, [Next]_vars PROVE SlotsInv'
  OBVIOUS
<1> USE SlotsFinite
<1>1. ASSUME NEW w \in Workers, Admit(w) PROVE SlotsInv'
  <2>1. Live' = Live /\ Cardinality(Live) < maxSlots
    BY <1>1 DEF Admit, CanSchedule, Live, tableVars
  <2>2. IsFiniteSet(Admitted') /\ Cardinality(Admitted') \in Nat
        /\ Cardinality(Admitted') <= Cardinality(Workers)
    <3>1. Admitted' \subseteq Workers
      BY DEF Admitted
    <3> QED
      BY <3>1, FS_Subset, FS_CardinalityType, SchedulerAssumption
      DEF SchedulerAssumption
  <2> QED
    BY <2>1, <2>2, SchedulerAssumption DEF SlotsInv, SchedulerAssumption
<1>2. ASSUME NEW w \in Workers, Register(w) PROVE SlotsInv'
  <2>1. PICK id \in Ids, o \in Ids :
          deployments' = [deployments EXCEPT ![id] = o]
    <3>1. dep[w] \in 1..calls
      BY <1>2 DEF TypeInv, TypeOK, WellFormed, Register
    <3>2. heap[dep[w]].id \in 1..lastId
      BY <3>1 DEF TypeInv, WellFormed
    <3>3. heap[dep[w]].id \in Ids /\ dep[w] \in Ids
      BY <3>1, <3>2, SchedulerAssumption DEF TypeInv, TypeOK, SchedulerAssumption
    <3> QED
      BY <1>2, <3>3 DEF Register
  <2>2. Live' = Live \cup {id}
    BY <2>1 DEF TypeInv, TypeOK, Live
  <2>3. Cardinality(Live') <= Cardinality(Live) + 1 /\ Cardinality(Live') \in Nat
    <3>1. IsFiniteSet(Live \cup {id})
          /\ Cardinality(Live \cup {id}) \in {Cardinality(Live), Cardinality(Live) + 1}
      BY FS_AddElement
    <3> QED
      BY <2>2, <3>1
  <2>4. Admitted' = Admitted \ {w} /\ w \in Admitted
    BY <1>2 DEF TypeInv, TypeOK, Register, Admitted
  <2>5. Cardinality(Admitted') = Cardinality(Admitted) - 1
    BY <2>4, FS_RemoveElement
  <2> QED
    BY <2>3, <2>5, SchedulerAssumption DEF SlotsInv, SchedulerAssumption
<1>3. ASSUME NEW w \in Workers, PullFails(w) \/ RunFails(w) PROVE SlotsInv'
  <2>1. failDeployment(w) /\ pc[w] \in {"pulling", "starting"}
    BY <1>3 DEF PullFails, RunFails
  <2>2. dep[w] \in 1..calls
    BY <2>1 DEF TypeInv, TypeOK, WellFormed
  <2>3. heap[dep[w]].id \in 1..lastId
    BY <2>2 DEF TypeInv, WellFormed
  <2>4. heap[dep[w]].id \in Ids
    BY <2>3, SchedulerAssumption DEF TypeInv, TypeOK, SchedulerAssumption
  <2>5. Live' \subseteq Live
    BY <2>1, <2>4, ReleaseShrinks DEF failDeployment, Status
  <2>6. Admitted' = Admitted
    BY <2>1 DEF TypeInv, TypeOK, failDeployment, Admitted
  <2> QED
    BY <2>5, <2>6, SlotsShrink
<1>4. ASSUME NEW w \in Workers,
             \/ Reject(w) \/ SetPulling(w) \/ PullSucceeds(w) \/ RunSucceeds(w)
             \/ Publish(w) \/ ScheduleReturns(w)
      PROVE SlotsInv'
  <2>1. Live' = Live
    BY <1>4 DEF Live, Reject, SetPulling, PullSucceeds, RunSucceeds, Publish,
       ScheduleReturns, tableVars
  <2>2. Admitted' = Admitted
    BY <1>4 DEF TypeInv, TypeOK, Admitted, Reject, SetPulling, PullSucceeds,
       RunSucceeds, Publish, ScheduleReturns
  <2> QED
    BY <2>1, <2>2, SlotsShrink
<1>5. ASSUME NEW s \in Stoppers, StopRelease(s) PROVE SlotsInv'
  <2>1. target[s] \in Ids
    BY <1>5 DEF TypeInv, TypeOK, WellFormed, StopRelease
  <2>2. Live' \subseteq Live
    BY <1>5, <2>1, ReleaseShrinks DEF StopRelease, Status
  <2>3. Admitted' = Admitted
    BY <1>5 DEF StopRelease, workerVars, Admitted
  <2> QED
    BY <2>2, <2>3, SlotsShrink
<1>6. ASSUME \/ ContainerExits \/ UNCHANGED vars
             \/ \E s \in Stoppers : \/ \E id \in Ids : StopLookup(s, id)
                                    \/ StopContainer(s) \/ StopReturns(s)
      PROVE SlotsInv'
  <2>1. Live' = Live /\ Admitted' = Admitted
    BY <1>6 DEF Live, Admitted, ContainerExits, StopLookup, StopContainer,
       StopReturns, vars, tableVars, workerVars
  <2> QED
    BY <2>1, SlotsShrink
<1> QED
  BY <1>1, <1>2, <1>3, <1>4, <1>5, <1>6 DEF Next, Schedule, Stop

\* However many Schedule calls race, the table holds at most one entry more
\* than its slots for each concurrent call but one.
THEOREM SlotsBounded == Spec => []SlotsBound
<1>1. SlotsInv => SlotsBound
  BY SlotsFinite, SchedulerAssumption DEF SlotsInv, SlotsBound, SchedulerAssumption
<1>2. Spec => []SlotsInv
  BY SlotsInit, SlotsStep, TypeInvHolds, PTL DEF Spec
<1> QED
  BY <1>1, <1>2, PTL

-----------------------------------------------------------------------------
(* Resource accounting *)

\* With distinct clock readings a record's number is its ID, the table holds
\* a record under its own ID, and no two calls share a record.
OwnRecord ==
    /\ lastId = calls
    /\ \A o \in 1..calls : heap[o].id = o
    /\ \A i \in Ids : deployments[i] \in {Nil, i}
    /\ \A w \in Workers : pc[w] = "admitted" => deployments[dep[w]] = Nil
    /\ \A v, w \in Workers : v # w /\ dep[v] # Nil => dep[v] # dep[w]

\* Before the first call no worker has a record to own.
LEMMA OwnRecordInit == Init => OwnRecord
  BY SchedulerAssumption DEF Init, OwnRecord, SchedulerAssumption

\* A step that leaves the records' IDs, the workers' records and the set of
\* admitted calls alone and at most deletes entries keeps OwnRecord.
LEMMA OwnRecordFrame ==
    ASSUME TypeInv, OwnRecord, calls' = calls, lastId' = lastId,
           \A o \in Ids : heap'[o].id = heap[o].id,
           \A i \in Ids : deployments'[i] \in {Nil, deployments[i]},
           \A w \in Workers : dep'[w] \in {Nil, dep[w]},
           \A w \in Workers : pc'[w] = "admitted" =>
               pc[w] = "admitted" /\ dep'[w] = dep[w]
    PROVE  OwnRecord'
<1>1. calls \in Nat /\ calls <= MaxDeploys /\ MaxDeploys \in Nat
  BY SchedulerAssumption DEF TypeInv, TypeOK, SchedulerAssumption
<1>2. \A o \in 1..calls' : heap'[o].id = o
  BY <1>1 DEF OwnRecord
<1>3. \A i \in Ids : deployments'[i] \in {Nil, i}
  BY DEF OwnRecord
<1>4. \A w \in Workers : pc'[w] = "admitted" => deployments'[dep'[w]] = Nil
  <2> SUFFICES ASSUME NEW w \in Workers, pc'[w] = "admitted"
               PROVE  deployments'[dep'[w]] = Nil
    OBVIOUS
  <2>1. dep[w] \in Ids
    BY <1>1 DEF TypeInv, TypeOK, WellFormed
  <2> QED
    BY <2>1 DEF OwnRecord
<1>5. \A v, w \in Workers : v # w /\ dep'[v] # Nil => dep'[v] # dep'[w]
  BY DEF OwnRecord
<1> QED
  BY <1>2, <1>3, <1>4, <1>5 DEF OwnRecord

\* The ID of the record a call in progress holds.
LEMMA InCall ==
    ASSUME TypeInv, NEW w \in Workers, pc[w] \notin {"idle", "error"}
    PROVE  dep[w] \in 1..calls /\ dep[w] \in Ids /\ heap[dep[w]].id \in Ids
<1>1. dep[w] \in 1..calls
  BY DEF TypeInv, TypeOK, WellFormed
<1>2. heap[dep[w]].id \in 1..lastId
  BY <1>1 DEF TypeInv, WellFormed
<1> QED
  BY <1>1, <1>2, SchedulerAssumption DEF TypeInv, TypeOK, SchedulerAssumption

\* The charges are within the limits requested.
LEMMA LiveType ==
    ASSUME TypeInv
    PROVE  LiveCPU \in [Ids -> Limits] /\ LiveMem \in [Ids -> Limits]
<1>1. 0 \in Limits
  BY SchedulerAssumption DEF SchedulerAssumption, Limits
<1>2. ASSUME NEW i \in Ids, deployments[i] # Nil
      PROVE  heap[deployments[i]].cpu \in Limits
             /\ heap[deployments[i]].mem \in Limits
  <2>1. deployments[i] \in Ids
    BY <1>2, SchedulerAssumption DEF TypeInv, TypeOK, SchedulerAssumption
  <2>2. heap[deployments[i]] \in Deployment
    BY <2>1 DEF TypeInv, TypeOK
  <2> QED
    BY <2>2 DEF Deployment
<1> QED
  BY <1>1, <1>2 DEF LiveCPU, LiveMem

\* A step that leaves the table, the counters and the limits of the records in
\* the table alone keeps the accounts.
LEMMA AccountsFrame ==
    ASSUME TypeInv, Balanced, UNCHANGED tableVars,
           \A i \in Ids : deployments[i] # Nil =>
               /\ heap'[deployments[i]].cpu = heap[deployments[i]].cpu
               /\ heap'[deployments[i]].mem = heap[deployments[i]].mem
    PROVE  Balanced'
<1>1. LiveCPU' = LiveCPU /\ LiveMem' = LiveMem
  BY DEF LiveCPU, LiveMem, tableVars
<1> QED
  BY <1>1 DEF Balanced, Total, tableVars

\* Release gives back exactly the charge of the entry it deletes.
LEMMA ReleaseAccounts ==
    ASSUME TypeInv, Balanced, NEW id \in Ids, NEW st \in Status,
           Release(id, st)
    PROVE  Balanced'
<1>1. CASE deployments[id] = Nil
  BY <1>1, AccountsFrame DEF Release, tableVars
<1>2. CASE deployments[id] # Nil
  <2> DEFINE d == heap[deployments[id]]
  <2>1. deployments \in [Ids -> 0..MaxDeploys]
    BY DEF TypeInv, TypeOK
  <2>2. /\ deployments' = [deployments EXCEPT ![id] = Nil]
        /\ SameRecords(heap, heap')
    BY ReleaseType
  <2>3. usedCPU' = usedCPU - d.cpu /\ usedMemory' = usedMemory - d.mem
    BY <1>2 DEF Release
  <2>4. \A i \in Ids : deployments[i] # Nil => deployments[i] \in Ids
    BY <2>1, SchedulerAssumption DEF SchedulerAssumption
  <2>5. LiveCPU' = [LiveCPU EXCEPT ![id] = 0] /\ LiveCPU[id] = d.cpu
    BY <1>2, <2>1, <2>2, <2>4 DEF LiveCPU, SameRecords
  <2>6. LiveMem' = [LiveMem EXCEPT ![id] = 0] /\ LiveMem[id] = d.mem
    BY <1>2, <2>1, <2>2, <2>4 DEF LiveMem, SameRecords
  <2>7. 0 \in Limits
    BY SchedulerAssumption DEF SchedulerAssumption, Limits
  <2>8. /\ Total(LiveCPU) \in Int
        /\ Total(LiveCPU') = Total(LiveCPU) - d.cpu + 0
    BY <2>5, <2>7, LiveType, TotalUpdate
  <2>9. /\ Total(LiveMem) \in Int
        /\ Total(LiveMem') = Total(LiveMem) - d.mem + 0
    BY <2>6, <2>7, LiveType, TotalUpdate
  <2>10. d.cpu \in Int /\ d.mem \in Int
    BY <2>5, <2>6, LiveType, SchedulerAssumption DEF Limits, SchedulerAssumption
  <2>11. Total(LiveCPU)' = Total(LiveCPU') /\ Total(LiveMem)' = Total(LiveMem')
    BY DEF Total
  <2> HIDE DEF d
  <2> QED
    BY <2>3, <2>8, <2>9, <2>10, <2>11 DEF Balanced
<1> QED
  BY <1>1, <1>2

\* Register charges exactly what the entry it makes is worth.
LEMMA RegisterAccounts ==
    ASSUME TypeInv, OwnRecord, Balanced, NEW w \in Workers, Register(w)
    PROVE  Balanced'
<1> DEFINE d == heap[dep[w]]
<1>1. dep[w] \in Ids /\ d.id = dep[w] /\ deployments[dep[w]] = Nil
  BY InCall DEF Register, OwnRecord
<1>2. /\ deployments' = [deployments EXCEPT ![dep[w]] = dep[w]]
      /\ usedCPU' = usedCPU + d.cpu /\ usedMemory' = usedMemory + d.mem
      /\ heap' = heap
  BY <1>1 DEF Register
<1>3. deployments \in [Ids -> 0..MaxDeploys] /\ d \in Deployment /\ dep[w] # Nil
  BY <1>1 DEF TypeInv, TypeOK
<1>4. d.cpu \in Limits /\ d.mem \in Limits
  BY <1>3 DEF Deployment
<1>5. LiveCPU' = [LiveCPU EXCEPT ![dep[w]] = d.cpu] /\ LiveCPU[dep[w]] = 0
  BY <1>1, <1>2, <1>3 DEF LiveCPU
<1>6. LiveMem' = [LiveMem EXCEPT ![dep[w]] = d.mem] /\ LiveMem[dep[w]] = 0
  BY <1>1, <1>2, <1>3 DEF LiveMem
<1> HIDE DEF d
<1>7. /\ Total(LiveCPU) \in Int
      /\ Total(LiveCPU') = Total(LiveCPU) - 0 + d.cpu
  BY <1>1, <1>4, <1>5, LiveType, TotalUpdate
<1>8. /\ Total(LiveMem) \in Int
      /\ Total(LiveMem') = Total(LiveMem) - 0 + d.mem
  BY <1>1, <1>4, <1>6, LiveType, TotalUpdate
<1>9. d.cpu \in Int /\ d.mem \in Int
  BY <1>4, SchedulerAssumption DEF Limits, SchedulerAssumption
<1>10. Total(LiveCPU)' = Total(LiveCPU') /\ Total(LiveMem)' = Total(LiveMem')
  BY DEF Total
<1> QED
  BY <1>2, <1>7, <1>8, <1>9, <1>10 DEF Balanced

\* NewScheduler's zero counters are the sums over an empty table.
LEMMA AccountingInit == Init => Balanced
<1> SUFFICES ASSUME Init PROVE Balanced
  OBVIOUS
<1>1. LiveCPU = [i \in Ids |-> 0] /\ LiveMem = [i \in Ids |-> 0]
  BY DEF Init, LiveCPU, LiveMem
<1> QED
  BY <1>1, TotalZero DEF Init, Balanced

\* Only Admit reads the clock.
LEMMA OnlyAdmitCounts ==
    [AnyNext]_vars => (\E w \in Workers : Admit(w)) \/ UNCHANGED <<calls, lastId>>
  BY DEF AnyNext, Schedule, AnyStop, Reject, Register, SetPulling, PullSucceeds,
     PullFails, RunSucceeds, RunFails, failDeployment, Publish,
     ScheduleReturns, StopLookup, StopContainer, StopRelease, StopReturns,
     ContainerExits, vars, workerVars

\* IDs that repeat stay repeated.
LEMMA DistinctBefore == TypeInv /\ [AnyNext]_vars /\ DistinctIds' => DistinctIds
<1> SUFFICES ASSUME TypeInv, [AnyNext]_vars, DistinctIds' PROVE DistinctIds
  OBVIOUS
<1> calls \in Nat /\ lastId \in Nat /\ lastId <= calls
  BY SchedulerAssumption DEF SchedulerAssumption, TypeInv, TypeOK
<1>1. CASE \E w \in Workers : Admit(w)
  <2>1. calls' = calls + 1 /\ lastId' \in {lastId, lastId + 1}
    BY <1>1 DEF Admit, NewIds
  <2> QED
    BY <2>1 DEF DistinctIds
<1>2. CASE UNCHANGED <<calls, lastId>>
  BY <1>2 DEF DistinctIds
<1> QED
  BY <1>1, <1>2, OnlyAdmitCounts

\* A step that does not repeat an ID keeps the accounts and the ownership they
\* rest on.
LEMMA AccountingStep ==
    TypeInv /\ OwnRecord /\ Balanced /\ [AnyNext]_vars /\ DistinctIds'
      => OwnRecord' /\ Balanced'
<1> SUFFICES ASSUME TypeInv, OwnRecord, Balanced, [AnyNext]_vars, DistinctIds'
             PROVE  OwnRecord' /\ Balanced'
  OBVIOUS
<1> MaxDeploys \in Nat /\ calls \in Nat /\ calls <= MaxDeploys
  BY SchedulerAssumption DEF SchedulerAssumption, TypeInv, TypeOK
<1> heap \in [Ids -> Deployment] /\ pc \in [Workers -> {"idle", "admitted",
      "registered", "pulling", "starting", "started", "done", "error"}]
    /\ dep \in [Workers -> 0..calls] /\ deployments \in [Ids -> 0..MaxDeploys]
  BY DEF TypeInv, TypeOK
<1>0. \A i \in Ids : deployments[i] # Nil =>
        deployments[i] \in Ids /\ deployments[i] <= calls
  <2> SUFFICES ASSUME NEW i \in Ids, deployments[i] # Nil
               PROVE  deployments[i] \in Ids /\ deployments[i] <= calls
    OBVIOUS
  <2>1. deployments[i] <= calls
    BY DEF TypeInv, WellFormed
  <2>2. deployments[i] \in 0..MaxDeploys
    OBVIOUS
  <2> QED BY <2>1, <2>2
<1>1. ASSUME NEW w \in Workers, Admit(w) PROVE OwnRecord' /\ Balanced'
  <2>1. PICK r \in Requests :
          /\ lastId' = calls + 1
          /\ heap' = [heap EXCEPT ![calls + 1] =
               [id |-> calls + 1, cpu |-> r.cpu, mem |-> r.mem,
                status |-> "pending", container |-> Nil]]
    BY <1>1 DEF Admit, NewIds, OwnRecord, DistinctIds
  <2>2. /\ calls' = calls + 1 /\ dep' = [dep EXCEPT ![w] = calls + 1]
        /\ pc' = [pc EXCEPT ![w] = "admitted"] /\ UNCHANGED tableVars
        /\ calls + 1 \in Ids
    BY <1>1 DEF Admit
  <2>3. \A x \in Ids : x # calls + 1 => heap'[x] = heap[x]
    BY <2>1
  <2>4. heap'[calls + 1].id = calls + 1
    BY <2>1, <2>2
  <2>5. Balanced'
    <3>1. \A i \in Ids : deployments[i] # Nil =>
            heap'[deployments[i]] = heap[deployments[i]]
      BY <1>0, <2>3
    <3> QED
      BY <2>2, <3>1, AccountsFrame
  <2>6. \A o \in 1..calls' : heap'[o].id = o
    BY <2>2, <2>3, <2>4 DEF OwnRecord
  <2>7. \A v \in Workers : pc'[v] = "admitted" => deployments'[dep'[v]] = Nil
    <3>1. deployments[calls + 1] = Nil
      BY <1>0, <2>2 DEF OwnRecord
    <3> QED
      BY <2>2, <3>1 DEF OwnRecord, tableVars
  <2>8. \A u, v \in Workers : u # v /\ dep'[u] # Nil => dep'[u] # dep'[v]
    BY <2>2 DEF OwnRecord
  <2>9. \A i \in Ids : deployments'[i] \in {Nil, i}
    BY <2>2 DEF OwnRecord, tableVars
  <2> QED
    BY <2>1, <2>2, <2>5, <2>6, <2>7, <2>8, <2>9 DEF OwnRecord
<1>2. ASSUME NEW w \in Workers, Register(w) PROVE OwnRecord' /\ Balanced'
  <2>1. dep[w] \in Ids /\ heap[dep[w]].id = dep[w]
    BY <1>2, InCall DEF Register, OwnRecord
  <2>2. /\ deployments' = [deployments EXCEPT ![dep[w]] = dep[w]]
        /\ heap' = heap /\ dep' = dep /\ calls' = calls /\ lastId' = lastId
        /\ pc' = [pc EXCEPT ![w] = "registered"]
    BY <1>2, <2>1 DEF Register
  <2>3. \A v \in Workers : pc'[v] = "admitted" => deployments'[dep'[v]] = Nil
    <3> SUFFICES ASSUME NEW v \in Workers, pc'[v] = "admitted"
                 PROVE  deployments'[dep'[v]] = Nil
      OBVIOUS
    <3>1. v # w /\ pc[v] = "admitted"
      BY <2>2
    <3>2. dep[v] \in Ids /\ dep[v] # dep[w]
      BY <3>1, <2>1, InCall DEF OwnRecord
    <3> QED
      BY <2>2, <3>1, <3>2 DEF OwnRecord
  <2>4. OwnRecord'
    BY <2>1, <2>2, <2>3 DEF OwnRecord
  <2> QED
    BY <1>2, <2>4, RegisterAccounts
<1>3. ASSUME NEW w \in Workers, SetPulling(w) \/ PullSucceeds(w)
      PROVE  OwnRecord' /\ Balanced'
  <2>1. heap[dep[w]].id \in Ids
    BY <1>3, InCall DEF SetPulling, PullSucceeds
  <2>2. SameRecords(heap, heap')
    BY <1>3, <2>1, UpdateStatusType DEF SetPulling, PullSucceeds, Status
  <2>3. UNCHANGED <<tableVars, dep, calls, lastId>>
        /\ \A v \in Workers : pc'[v] = "admitted" => pc[v] = "admitted"
    BY <1>3 DEF SetPulling, PullSucceeds
  <2>4. Balanced'
    BY <1>0, <2>2, <2>3, AccountsFrame DEF SameRecords
  <2>5. OwnRecord'
    BY <2>2, <2>3, OwnRecordFrame DEF SameRecords, tableVars
  <2> QED
    BY <2>4, <2>5
<1>4. ASSUME NEW w \in Workers, PullFails(w) \/ RunFails(w)
      PROVE  OwnRecord' /\ Balanced'
  <2>1. failDeployment(w) /\ heap[dep[w]].id \in Ids
    BY <1>4, InCall DEF PullFails, RunFails
  <2>2. Release(heap[dep[w]].id, "failed") /\ "failed" \in Status
    BY <2>1 DEF failDeployment, Status
  <2>3. /\ SameRecords(heap, heap')
        /\ deployments' = [deployments EXCEPT ![heap[dep[w]].id] = Nil]
    BY <2>1, <2>2, ReleaseType
  <2>4. UNCHANGED <<dep, calls, lastId>>
        /\ \A v \in Workers : pc'[v] = "admitted" => pc[v] = "admitted"
    BY <2>1 DEF failDeployment
  <2>5. /\ \A i \in Ids : deployments'[i] \in {Nil, deployments[i]}
        /\ \A o \in Ids : heap'[o].id = heap[o].id
    BY <2>1, <2>3 DEF SameRecords
  <2>6. OwnRecord'
    BY <2>4, <2>5, OwnRecordFrame
  <2> QED
    BY <2>1, <2>2, <2>6, ReleaseAccounts
<1>5. ASSUME NEW w \in Workers, Publish(w) PROVE OwnRecord' /\ Balanced'
  <2>1. \A x \in Ids : /\ heap'[x].id = heap[x].id
                       /\ heap'[x].cpu = heap[x].cpu
                       /\ heap'[x].mem = heap[x].mem
    <3>1. dep[w] \in Ids /\ heap[dep[w]].id \in Ids
      BY <1>5, InCall DEF Publish
    <3> QED
      BY <1>5, <3>1, PublishType
  <2>2. UNCHANGED <<tableVars, dep, calls, lastId>>
        /\ \A v \in Workers : pc'[v] = "admitted" => pc[v] = "admitted"
    BY <1>5 DEF Publish
  <2>3. Balanced'
    BY <1>0, <2>1, <2>2, AccountsFrame
  <2>4. OwnRecord'
    BY <2>1, <2>2, OwnRecordFrame DEF tableVars
  <2> QED
    BY <2>3, <2>4
<1>6. ASSUME NEW w \in Workers, Reject(w) \/ RunSucceeds(w) \/ ScheduleReturns(w)
      PROVE  OwnRecord' /\ Balanced'
  <2>1. /\ UNCHANGED <<tableVars, heap, calls, lastId>>
        /\ \A v \in Workers : dep'[v] \in {Nil, dep[v]}
        /\ \A v \in Workers : pc'[v] = "admitted" =>
             pc[v] = "admitted" /\ dep'[v] = dep[v]
    BY <1>6 DEF Reject, RunSucceeds, ScheduleReturns
  <2>2. Balanced'
    BY <2>1, AccountsFrame
  <2>3. OwnRecord'
    BY <2>1, OwnRecordFrame DEF tableVars
  <2> QED
    BY <2>2, <2>3
<1>7. ASSUME NEW s \in Stoppers, NEW id \in Ids, StopLookup(s, id)
      PROVE  OwnRecord' /\ Balanced'
  <2>1. updateStatus(id, "stopping")
    BY <1>7 DEF StopLookup
  <2>2. SameRecords(heap, heap')
    BY <2>1, UpdateStatusType DEF Status
  <2>3. UNCHANGED <<tableVars, workerVars>>
    BY <1>7 DEF StopLookup
  <2>4. Balanced'
    BY <1>0, <2>2, <2>3, AccountsFrame DEF SameRecords
  <2>5. OwnRecord'
    BY <2>2, <2>3, OwnRecordFrame DEF SameRecords, tableVars, workerVars
  <2> QED
    BY <2>4, <2>5
<1>8. ASSUME NEW s \in Stoppers, StopRelease(s) PROVE OwnRecord' /\ Balanced'
  <2>1. target[s] \in Ids /\ Release(target[s], "stopped") /\ "stopped" \in Status
    BY <1>8 DEF TypeInv, TypeOK, WellFormed, StopRelease, Status
  <2>2. /\ SameRecords(heap, heap')
        /\ deployments' = [deployments EXCEPT ![target[s]] = Nil]
    BY <2>1, ReleaseType
  <2>3. UNCHANGED workerVars
    BY <1>8 DEF StopRelease
  <2>4. /\ \A i \in Ids : deployments'[i] \in {Nil, deployments[i]}
        /\ \A o \in Ids : heap'[o].id = heap[o].id
    BY <2>1, <2>2 DEF SameRecords
  <2>5. OwnRecord'
    BY <2>3, <2>4, OwnRecordFrame DEF workerVars
  <2> QED
    BY <2>1, <2>5, ReleaseAccounts
<1>9. ASSUME \/ ContainerExits \/ UNCHANGED vars
             \/ \E s \in Stoppers : StopContainer(s) \/ StopReturns(s)
      PROVE  OwnRecord' /\ Balanced'
  <2>1. UNCHANGED <<tableVars, heap, workerVars>>
    BY <1>9 DEF ContainerExits, StopContainer, StopReturns, vars
  <2>2. Balanced'
    BY <2>1, AccountsFrame
  <2>3. OwnRecord'
    BY <2>1, OwnRecordFrame DEF tableVars, workerVars
  <2> QED
    BY <2>2, <2>3
<1> QED
  BY <1>1, <1>2, <1>3, <1>4, <1>5, <1>6, <1>7, <1>8, <1>9
  DEF AnyNext, Schedule, AnyStop

\* Until two calls read the same clock value, the counters CanSchedule decides
\* on are the sums of the limits of the deployments in the table, in every
\* interleaving of any number of Schedule and Stop calls.
THEOREM AccountingHolds == Spec => []Accounting
<1> DEFINE Inv == DistinctIds => OwnRecord /\ Balanced
<1>1. Init => Inv
  BY OwnRecordInit, AccountingInit
<1>2. TypeInv /\ Inv /\ [Next]_vars => Inv'
  BY AccountingStep, DistinctBefore, NextIsAny
<1>3. Inv => Accounting
  BY DEF Accounting
<1> HIDE DEF Inv
<1> QED
  BY <1>1, <1>2, <1>3, TypeInvHolds, PTL DEF Spec

-----------------------------------------------------------------------------
(* Containers, when nobody stops a deployment before its deploy call is      *)
(* answered, clock readings are distinct and docker obeys                    *)

Orderly == ~ClockRepeats /\ ~EarlyStops /\ ~DockerFails

\* On a clock that does not repeat, IDs stay distinct.
LEMMA DistinctStays ==
    ASSUME ~ClockRepeats
    PROVE  TypeInv /\ [AnyNext]_vars /\ DistinctIds => DistinctIds'
<1> SUFFICES ASSUME TypeInv, [AnyNext]_vars, DistinctIds PROVE DistinctIds'
  OBVIOUS
<1>1. CASE \E w \in Workers : Admit(w)
  BY <1>1 DEF Admit, NewIds, DistinctIds
<1>2. CASE UNCHANGED <<calls, lastId>>
  BY <1>2 DEF DistinctIds
<1> QED
  BY <1>1, <1>2, OnlyAdmitCounts

\* A record names no container but its own.
OwnContainer == \A o \in Ids : heap[o].container \in {Nil, o}

\* The entry of a call in progress stays in the table until the call itself
\* removes it; its container is absent until docker starts it, and is named by
\* the record before the call returns.
CallTracked ==
    \A w \in Workers :
        /\ pc[w] \in {"registered", "pulling", "starting", "started", "done"}
             => deployments[dep[w]] = dep[w]
        /\ pc[w] \in {"admitted", "registered", "pulling", "starting"}
             => dep[w] \notin containers
        /\ pc[w] = "done" => heap[dep[w]].container = dep[w]

\* A running container is in the table under its own ID.
ContainerTracked ==
    \A c \in containers :
        /\ c <= calls /\ deployments[c] = c
        /\ heap[c].container = c \/ \E w \in Workers : pc[w] = "started" /\ dep[w] = c

\* A Stop call works on a deployment that no Schedule call still works on, and
\* once docker has stopped the container it stays stopped.
StopTracked ==
    \A s \in Stoppers :
        /\ spc[s] \in {"marked", "stopped", "done"} =>
             target[s] \in 1..calls /\ \A w \in Workers : dep[w] # target[s]
        /\ spc[s] = "marked" => sdep[s] = target[s]
        /\ spc[s] \in {"stopped", "done"} => target[s] \notin containers

Tracked == OwnContainer /\ CallTracked /\ ContainerTracked /\ StopTracked

\* Before the first call there is no container to keep track of.
LEMMA TrackedInit == Init => Tracked
  BY DEF Init, Tracked, OwnContainer, CallTracked, ContainerTracked, StopTracked

\* Every step keeps the containers tracked.
LEMMA TrackedStep ==
    ASSUME Orderly
    PROVE  TypeInv /\ OwnRecord /\ Tracked /\ [Next]_vars => Tracked'
<1> SUFFICES ASSUME TypeInv, OwnRecord, Tracked, [Next]_vars PROVE Tracked'
  OBVIOUS
<1> MaxDeploys \in Nat /\ calls \in Nat /\ calls <= MaxDeploys
  BY SchedulerAssumption DEF SchedulerAssumption, TypeInv, TypeOK
<1> heap \in [Ids -> Deployment] /\ pc \in [Workers -> {"idle", "admitted",
      "registered", "pulling", "starting", "started", "done", "error"}]
    /\ dep \in [Workers -> 0..calls] /\ deployments \in [Ids -> 0..MaxDeploys]
    /\ spc \in [Stoppers -> {"idle", "marked", "stopped", "done", "error"}]
    /\ target \in [Stoppers -> 0..MaxDeploys] /\ sdep \in [Stoppers -> 0..calls]
    /\ containers \subseteq Ids
  BY DEF TypeInv, TypeOK
<1>0. ASSUME NEW w \in Workers, pc[w] \notin {"idle", "error"}
      PROVE  dep[w] \in 1..calls /\ dep[w] \in Ids /\ heap[dep[w]].id = dep[w]
  BY <1>0, InCall DEF OwnRecord
<1>1. ASSUME NEW w \in Workers, Admit(w) PROVE Tracked'
  <2>1. PICK r \in Requests :
          heap' = [heap EXCEPT ![calls + 1] =
            [id |-> calls + 1, cpu |-> r.cpu, mem |-> r.mem,
             status |-> "pending", container |-> Nil]]
    BY <1>1 DEF Admit, NewIds, OwnRecord, Orderly
  <2>2. /\ calls' = calls + 1 /\ dep' = [dep EXCEPT ![w] = calls + 1]
        /\ pc' = [pc EXCEPT ![w] = "admitted"]
        /\ UNCHANGED <<deployments, containers, spc, target, sdep>>
        /\ calls + 1 \in Ids /\ pc[w] = "idle"
    BY <1>1 DEF Admit, tableVars, stopVars
  <2>3. /\ \A x \in Ids : x # calls + 1 => heap'[x] = heap[x]
        /\ heap'[calls + 1].container = Nil
    BY <2>1, <2>2
  <2>4. \A c \in containers : c <= calls
    BY DEF Tracked, ContainerTracked
  <2>5. OwnContainer'
    BY <2>3 DEF Tracked, OwnContainer
  <2>6. CallTracked'
    <3> SUFFICES ASSUME NEW v \in Workers
                 PROVE  /\ pc'[v] \in {"registered", "pulling", "starting", "started", "done"}
                             => deployments'[dep'[v]] = dep'[v]
                        /\ pc'[v] \in {"admitted", "registered", "pulling", "starting"}
                             => dep'[v] \notin containers'
                        /\ pc'[v] = "done" => heap'[dep'[v]].container = dep'[v]
      BY DEF CallTracked
    <3>1. CASE v = w
      BY <2>2, <2>4, <3>1
    <3>2. CASE v # w
      <4>1. pc'[v] = pc[v] /\ dep'[v] = dep[v]
        BY <2>2, <3>2
      <4>2. pc[v] = "done" => heap'[dep[v]] = heap[dep[v]]
        BY <1>0, <2>3
      <4> QED
        BY <2>2, <4>1, <4>2 DEF Tracked, CallTracked
    <3> QED
      BY <3>1, <3>2
  <2>7. ContainerTracked'
    <3> SUFFICES ASSUME NEW c \in containers
                 PROVE  /\ c <= calls + 1 /\ deployments[c] = c
                        /\ \/ heap'[c].container = c
                           \/ \E v \in Workers : pc'[v] = "started" /\ dep'[v] = c
      BY <2>2 DEF ContainerTracked
    <3>1. /\ c <= calls /\ deployments[c] = c
          /\ \/ heap[c].container = c
             \/ \E v \in Workers : pc[v] = "started" /\ dep[v] = c
      BY DEF Tracked, ContainerTracked
    <3>2. heap'[c] = heap[c]
      <4>1. c \in Ids /\ c # calls + 1
        BY <2>4
      <4> QED
        BY <2>3, <4>1
    <3>3. \A v \in Workers : pc[v] = "started" => pc'[v] = pc[v] /\ dep'[v] = dep[v]
      BY <2>2
    <3>4. CASE heap[c].container = c
      <4>1. heap'[c].container = c
        BY <3>2, <3>4
      <4>2. c <= calls + 1
        BY <3>1
      <4> QED
        BY <3>1, <4>1, <4>2
    <3>5. CASE \E v \in Workers : pc[v] = "started" /\ dep[v] = c
      <4>1. \E v \in Workers : pc'[v] = "started" /\ dep'[v] = c
        BY <3>3, <3>5, Zenon
      <4>2. c <= calls + 1
        BY <3>1
      <4> QED
        BY <3>1, <4>1, <4>2
    <3> QED
      BY <3>1, <3>4, <3>5
  <2>8. StopTracked'
    BY <2>2 DEF Tracked, StopTracked
  <2> QED
    BY <2>5, <2>6, <2>7, <2>8 DEF Tracked
<1>2. ASSUME NEW w \in Workers, Register(w) PROVE Tracked'
  <2>1. dep[w] \in Ids /\ heap[dep[w]].id = dep[w] /\ pc[w] = "admitted"
    BY <1>0, <1>2 DEF Register
  <2>2. /\ deployments' = [deployments EXCEPT ![dep[w]] = dep[w]]
        /\ pc' = [pc EXCEPT ![w] = "registered"]
        /\ UNCHANGED <<heap, containers, dep, calls, spc, target, sdep>>
    BY <1>2, <2>1 DEF Register, stopVars
  <2>3. CallTracked'
    BY <1>0, <2>1, <2>2 DEF Tracked, CallTracked
  <2>4. ContainerTracked'
    BY <2>1, <2>2 DEF Tracked, ContainerTracked
  <2> QED
    BY <2>2, <2>3, <2>4 DEF Tracked, OwnContainer, StopTracked
<1>3. ASSUME NEW w \in Workers, SetPulling(w) \/ PullSucceeds(w) PROVE Tracked'
  <2>1. heap[dep[w]].id \in Ids /\ dep[w] \in Ids
    BY <1>3, InCall DEF SetPulling, PullSucceeds
  <2>2. SameRecords(heap, heap')
    BY <1>3, <2>1, UpdateStatusType DEF SetPulling, PullSucceeds, Status
  <2>3. /\ UNCHANGED <<deployments, containers, dep, calls, spc, target, sdep>>
        /\ pc[w] \in {"registered", "pulling"}
        /\ \/ pc' = [pc EXCEPT ![w] = "pulling"]
           \/ pc' = [pc EXCEPT ![w] = "starting"]
    BY <1>3 DEF SetPulling, PullSucceeds, tableVars, stopVars
  <2>4. CallTracked'
    BY <1>0, <2>2, <2>3 DEF Tracked, CallTracked, SameRecords
  <2>5. ContainerTracked'
    <3>1. \A v \in Workers : pc[v] = "started" => pc'[v] = "started"
      BY <2>3
    <3>2. \A c \in containers : heap'[c].container = heap[c].container
      BY <2>2 DEF SameRecords
    <3>3. containers' = containers /\ calls' = calls /\ deployments' = deployments
          /\ dep' = dep
      BY <2>3
    <3> SUFFICES ASSUME NEW c \in containers
                 PROVE  /\ c <= calls /\ deployments[c] = c
                        /\ \/ heap'[c].container = c
                           \/ \E v \in Workers : pc'[v] = "started" /\ dep[v] = c
      BY <3>3 DEF ContainerTracked
    <3>4. /\ c <= calls /\ deployments[c] = c
          /\ \/ heap[c].container = c
             \/ \E v \in Workers : pc[v] = "started" /\ dep[v] = c
      BY DEF Tracked, ContainerTracked
    <3> QED
      BY <3>1, <3>2, <3>4, Zenon
  <2> QED
    BY <2>2, <2>3, <2>4, <2>5 DEF Tracked, OwnContainer, StopTracked, SameRecords
<1>4. ASSUME NEW w \in Workers, PullFails(w) \/ RunFails(w) PROVE Tracked'
  <2>1. /\ failDeployment(w) /\ dep[w] \in Ids /\ heap[dep[w]].id = dep[w]
        /\ pc[w] \in {"pulling", "starting"}
    BY <1>0, <1>4 DEF PullFails, RunFails
  <2>2. Release(dep[w], "failed") /\ "failed" \in Status
    BY <2>1 DEF failDeployment, Status
  <2>3. SameRecords(heap, heap') /\ deployments' = [deployments EXCEPT ![dep[w]] = Nil]
    BY <2>1, <2>2, ReleaseType
  <2>4. /\ UNCHANGED <<containers, dep, calls, spc, target, sdep>>
        /\ pc' = [pc EXCEPT ![w] = "error"]
    BY <2>1 DEF failDeployment, stopVars
  <2>5. CallTracked'
    <3> SUFFICES ASSUME NEW v \in Workers, v # w
                 PROVE  /\ pc[v] \in {"registered", "pulling", "starting", "started", "done"}
                             => deployments'[dep[v]] = dep[v]
                        /\ pc[v] \in {"admitted", "registered", "pulling", "starting"}
                             => dep[v] \notin containers
                        /\ pc[v] = "done" => heap'[dep[v]].container = dep[v]
      BY <2>4 DEF CallTracked
    <3>1. pc[v] \notin {"idle", "error"} => dep[v] \in Ids /\ dep[v] # dep[w]
      BY <1>0, <2>1 DEF OwnRecord
    <3> QED
      BY <2>3, <3>1 DEF Tracked, CallTracked, SameRecords
  <2>6. ContainerTracked'
    <3> SUFFICES ASSUME NEW c \in containers
                 PROVE  /\ c <= calls /\ deployments'[c] = c
                        /\ \/ heap'[c].container = c
                           \/ \E v \in Workers : pc'[v] = "started" /\ dep[v] = c
      BY <2>4 DEF ContainerTracked
    <3>1. c # dep[w]
      BY <2>1 DEF Tracked, CallTracked
    <3>2. deployments'[c] = deployments[c] /\ heap'[c].container = heap[c].container
      BY <2>1, <2>3, <3>1 DEF SameRecords
    <3>3. \A v \in Workers : pc[v] = "started" => pc'[v] = "started"
      BY <2>1, <2>4
    <3> QED
      BY <3>2, <3>3 DEF Tracked, ContainerTracked
  <2> QED
    BY <2>3, <2>4, <2>5, <2>6 DEF Tracked, OwnContainer, StopTracked, SameRecords
<1>5. ASSUME NEW w \in Workers, RunSucceeds(w) PROVE Tracked'
  <2>1. dep[w] \in 1..calls /\ dep[w] \in Ids /\ pc[w] = "starting"
    BY <1>0, <1>5 DEF RunSucceeds
  <2>2. /\ containers' = containers \cup {dep[w]}
        /\ pc' = [pc EXCEPT ![w] = "started"]
        /\ UNCHANGED <<deployments, heap, dep, calls, spc, target, sdep>>
    BY <1>5 DEF RunSucceeds, tableVars, stopVars
  <2>3. CallTracked'
    BY <1>0, <2>1, <2>2 DEF Tracked, CallTracked, OwnRecord
  <2>4. ContainerTracked'
    <3>1. deployments[dep[w]] = dep[w]
      BY <2>1 DEF Tracked, CallTracked
    <3>2. \A v \in Workers : pc[v] = "started" => pc'[v] = "started"
      BY <2>2
    <3>3. pc'[w] = "started"
      BY <2>2
    <3> QED
      BY <2>1, <2>2, <3>1, <3>2, <3>3 DEF Tracked, ContainerTracked
  <2>5. StopTracked'
    BY <2>2 DEF Tracked, StopTracked
  <2> QED
    BY <2>2, <2>3, <2>4, <2>5 DEF Tracked, OwnContainer
<1>6. ASSUME NEW w \in Workers, Publish(w) PROVE Tracked'
  <2>1. /\ dep[w] \in 1..calls /\ dep[w] \in Ids /\ heap[dep[w]].id = dep[w]
        /\ pc[w] = "started" /\ deployments[dep[w]] = dep[w]
    BY <1>0, <1>6 DEF Publish, Tracked, CallTracked
  <2>2. /\ \A x \in Ids : x # dep[w] => heap'[x] = heap[x]
        /\ heap'[dep[w]].container = dep[w]
    <3>1. heap[dep[w]].id \in Ids
      BY <2>1
    <3>2. /\ \A x \in Ids : x # deployments[heap[dep[w]].id] => heap'[x] = heap[x]
          /\ deployments[heap[dep[w]].id] # Nil =>
               heap'[deployments[heap[dep[w]].id]].container = dep[w]
      BY <1>6, <2>1, <3>1, PublishType
    <3>3. deployments[heap[dep[w]].id] = dep[w] /\ dep[w] # Nil
      BY <2>1
    <3> QED
      BY <3>2, <3>3
  <2>3. /\ pc' = [pc EXCEPT ![w] = "done"]
        /\ UNCHANGED <<deployments, containers, dep, calls, spc, target, sdep>>
    BY <1>6 DEF Publish, tableVars, stopVars
  <2>4. OwnContainer'
    BY <2>2 DEF Tracked, OwnContainer
  <2>5. CallTracked'
    <3> SUFFICES ASSUME NEW v \in Workers
                 PROVE  /\ pc'[v] \in {"registered", "pulling", "starting", "started", "done"}
                             => deployments[dep[v]] = dep[v]
                        /\ pc'[v] \in {"admitted", "registered", "pulling", "starting"}
                             => dep[v] \notin containers
                        /\ pc'[v] = "done" => heap'[dep[v]].container = dep[v]
      BY <2>3 DEF CallTracked
    <3>1. CASE v = w
      BY <2>1, <2>2, <2>3, <3>1
    <3>2. CASE v # w
      <4>1. pc'[v] = pc[v]
        BY <2>3, <3>2
      <4>2. pc[v] = "done" => dep[v] \in Ids /\ dep[v] # dep[w]
        <5>1. pc[v] = "done" => dep[v] \in Ids
          BY <1>0
        <5> QED
          BY <3>2, <5>1 DEF OwnRecord
      <4> QED
        BY <2>2, <4>1, <4>2 DEF Tracked, CallTracked
    <3> QED
      BY <3>1, <3>2
  <2>6. ContainerTracked'
    <3> SUFFICES ASSUME NEW c \in containers
                 PROVE  /\ c <= calls /\ deployments[c] = c
                        /\ \/ heap'[c].container = c
                           \/ \E v \in Workers : pc'[v] = "started" /\ dep[v] = c
      BY <2>3 DEF ContainerTracked
    <3>1. /\ c <= calls /\ deployments[c] = c
          /\ heap[c].container = c
             \/ \E v \in Workers : pc[v] = "started" /\ dep[v] = c
      BY DEF Tracked, ContainerTracked
    <3>2. CASE c = dep[w]
      BY <2>2, <3>1, <3>2
    <3>3. CASE c # dep[w]
      <4>1. heap'[c] = heap[c]
        BY <2>2, <3>3
      <4>2. \A v \in Workers : pc[v] = "started" /\ dep[v] = c => pc'[v] = "started"
        BY <2>3, <3>3
      <4> QED
        BY <3>1, <4>1, <4>2
    <3> QED
      BY <3>2, <3>3
  <2> QED
    BY <2>3, <2>4, <2>5, <2>6 DEF Tracked, StopTracked
<1>7. ASSUME NEW w \in Workers, Reject(w) \/ ScheduleReturns(w) PROVE Tracked'
  <2>1. /\ UNCHANGED <<deployments, heap, containers, calls, spc, target, sdep>>
        /\ dep' = [dep EXCEPT ![w] = Nil]
        /\ pc[w] \in {"idle", "done", "error"}
        /\ pc' = [pc EXCEPT ![w] = "idle"] \/ pc' = [pc EXCEPT ![w] = "error"]
    BY <1>7 DEF Reject, ScheduleReturns, tableVars, stopVars
  <2>2. CallTracked'
    BY <2>1 DEF Tracked, CallTracked
  <2>3. ContainerTracked'
    BY <2>1 DEF Tracked, ContainerTracked
  <2>4. StopTracked'
    BY <2>1 DEF Tracked, StopTracked
  <2> QED
    BY <2>1, <2>2, <2>3, <2>4 DEF Tracked, OwnContainer
<1>8. ASSUME NEW s \in Stoppers, NEW id \in Ids, Answered(id), StopLookup(s, id)
      PROVE  Tracked'
  <2>1. /\ target' = [target EXCEPT ![s] = id]
        /\ sdep' = [sdep EXCEPT ![s] = deployments[id]]
        /\ updateStatus(id, "stopping")
        /\ spc' = [spc EXCEPT ![s] = IF deployments[id] = Nil
                                     THEN "error" ELSE "marked"]
    BY <1>8 DEF StopLookup
  <2>2. SameRecords(heap, heap')
    BY <2>1, UpdateStatusType DEF Status
  <2>3. UNCHANGED <<deployments, containers, pc, dep, calls>>
    BY <1>8 DEF StopLookup, tableVars, workerVars
  <2>4. CallTracked'
    BY <1>0, <2>2, <2>3 DEF Tracked, CallTracked, SameRecords
  <2>5. ContainerTracked'
    BY <2>2, <2>3 DEF Tracked, ContainerTracked, SameRecords
  <2>6. deployments[id] # Nil => deployments[id] = id /\ id \in 1..calls
    BY DEF OwnRecord, TypeInv, WellFormed
  <2>7. \A w \in Workers : dep[w] # id
    <3> SUFFICES ASSUME NEW w \in Workers, dep[w] = id PROVE FALSE
      OBVIOUS
    <3>1. dep[w] \in 1..calls /\ heap[dep[w]].id = dep[w]
      BY DEF OwnRecord
    <3>2. dep[w] # Nil => heap[dep[w]].id # id
      BY <1>8 DEF Answered
    <3> QED
      BY <3>1, <3>2
  <2>8. StopTracked'
    BY <2>1, <2>3, <2>6, <2>7 DEF Tracked, StopTracked
  <2> QED
    BY <2>2, <2>4, <2>5, <2>8 DEF Tracked, OwnContainer, SameRecords
<1>9. ASSUME NEW s \in Stoppers, StopContainer(s) PROVE Tracked'
  <2>1. /\ containers' = containers \ {heap[sdep[s]].container}
        /\ spc' = [spc EXCEPT ![s] = "stopped"] /\ spc[s] = "marked"
        /\ UNCHANGED <<deployments, heap, pc, dep, calls, target, sdep>>
    BY <1>9 DEF StopContainer, Orderly, tableVars, workerVars
  <2>2. target[s] \notin containers'
    BY <2>1 DEF Tracked, ContainerTracked, StopTracked
  <2>3. StopTracked'
    BY <2>1, <2>2 DEF Tracked, StopTracked
  <2> QED
    BY <2>1, <2>3 DEF Tracked, OwnContainer, CallTracked, ContainerTracked
<1>10. ASSUME NEW s \in Stoppers, StopRelease(s) PROVE Tracked'
  <2>1. /\ target[s] \in Ids /\ Release(target[s], "stopped")
        /\ "stopped" \in Status /\ spc[s] = "stopped"
    BY <1>10 DEF TypeInv, TypeOK, WellFormed, StopRelease, Status
  <2>2. SameRecords(heap, heap') /\ deployments' = [deployments EXCEPT ![target[s]] = Nil]
    BY <2>1, ReleaseType
  <2>3. /\ spc' = [spc EXCEPT ![s] = "done"]
        /\ UNCHANGED <<containers, pc, dep, calls, target, sdep>>
    BY <1>10 DEF StopRelease, workerVars
  <2>4. target[s] \notin containers /\ \A w \in Workers : dep[w] # target[s]
    BY <2>1 DEF Tracked, StopTracked
  <2>5. CallTracked'
    BY <1>0, <2>2, <2>3, <2>4 DEF Tracked, CallTracked, SameRecords
  <2>6. ContainerTracked'
    BY <2>2, <2>3, <2>4 DEF Tracked, ContainerTracked, SameRecords
  <2>7. StopTracked'
    BY <2>1, <2>3 DEF Tracked, StopTracked
  <2> QED
    BY <2>2, <2>5, <2>6, <2>7 DEF Tracked, OwnContainer, SameRecords
<1>11. ASSUME NEW s \in Stoppers, StopReturns(s) PROVE Tracked'
  <2>1. /\ spc' = [spc EXCEPT ![s] = "idle"] /\ target' = [target EXCEPT ![s] = Nil]
        /\ sdep' = [sdep EXCEPT ![s] = Nil]
        /\ UNCHANGED <<deployments, heap, containers, pc, dep, calls>>
    BY <1>11 DEF StopReturns, tableVars, workerVars
  <2>2. StopTracked'
    BY <2>1 DEF Tracked, StopTracked
  <2> QED
    BY <2>1, <2>2 DEF Tracked, OwnContainer, CallTracked, ContainerTracked
<1>12. ASSUME ContainerExits \/ UNCHANGED vars PROVE Tracked'
  <2>1. /\ containers' \subseteq containers
        /\ UNCHANGED <<deployments, heap, pc, dep, calls, spc, target, sdep>>
    BY <1>12 DEF ContainerExits, vars, tableVars, workerVars, stopVars
  <2> QED
    BY <2>1 DEF Tracked, OwnContainer, CallTracked, ContainerTracked, StopTracked
<1> QED
  BY <1>1, <1>2, <1>3, <1>4, <1>5, <1>6, <1>7, <1>8, <1>9, <1>10, <1>11, <1>12
  DEF Next, Schedule, Stop, Stoppable, Orderly

\* In an orderly environment no container is ever lost by the table, a Stop
\* that returned nil has stopped its container for good, and a successful
\* Schedule returns a record that names its container.
THEOREM ContainersTracked ==
    ASSUME Orderly
    PROVE  Spec => [](NoOrphans /\ StopComplete /\ AnswerHasContainer)
<1>1. TypeInv /\ OwnRecord /\ Tracked
        => NoOrphans /\ StopComplete /\ AnswerHasContainer
  <2> SUFFICES ASSUME TypeInv, OwnRecord, Tracked
               PROVE  NoOrphans /\ StopComplete /\ AnswerHasContainer
    OBVIOUS
  <2>1. \A c \in containers : c \in 1..calls /\ heap[c].id = c
    BY SchedulerAssumption DEF SchedulerAssumption, TypeInv, TypeOK, OwnRecord,
       Tracked, ContainerTracked
  <2>2. NoOrphans
    BY <2>1 DEF Tracked, ContainerTracked, NoOrphans
  <2>3. StopComplete
    BY <2>1 DEF Tracked, StopTracked, StopComplete
  <2>4. AnswerHasContainer
    BY DEF Tracked, CallTracked, AnswerHasContainer
  <2> QED
    BY <2>2, <2>3, <2>4
<1>2. TypeInv /\ OwnRecord /\ Balanced /\ [Next]_vars => OwnRecord' /\ Balanced'
  BY AccountingStep, DistinctStays, NextIsAny DEF OwnRecord, DistinctIds, Orderly
<1>3. Spec => [](OwnRecord /\ Balanced)
  BY <1>2, OwnRecordInit, AccountingInit, TypeInvHolds, PTL DEF Spec
<1>4. Spec => []Tracked
  BY <1>3, TrackedInit, TrackedStep, TypeInvHolds, PTL DEF Spec
<1> QED
  BY <1>1, <1>3, <1>4, TypeInvHolds, PTL

\* A Stop that returned nil for an ID has left no container of it running,
\* whatever other calls are in progress.
THEOREM StopsComplete == ASSUME Orderly PROVE Spec => []StopComplete
<1>1. Spec => [](NoOrphans /\ StopComplete /\ AnswerHasContainer)
  BY ContainersTracked
<1> QED BY <1>1, PTL

-----------------------------------------------------------------------------
(* The scheduler implements Lifecycle *)

\* The statuses of a deployment that is still being started.
Early == {"pending", "pulling", "starting"}

\* A call that has entered its record in the table and has not answered.
Starting(w) == pc[w] \in {"registered", "pulling", "starting", "started"}

\* The status a call has brought its own record to: nobody else writes it.
StatusAt(p) ==
    CASE p \in {"admitted", "registered"} -> "pending"
      [] p = "pulling" -> "pulling"
      [] p \in {"starting", "started"} -> "starting"
      [] p = "done" -> "running"

CallStatus ==
    \A w \in Workers : pc[w] \notin {"idle", "error"} =>
        heap[dep[w]].status = StatusAt(pc[w])

\* What a record of the table says: it is not over, and while it is being
\* started a call is at work on it.
TableStatus ==
    \A o \in Ids : deployments[o] # Nil =>
        /\ heap[o].status \notin {"stopped", "failed"}
        /\ heap[o].status \in Early => \E w \in Workers : Starting(w) /\ dep[w] = o

\* A Stop that finds its target's record in the table finds its own mark on it.
StopStatus ==
    \A s \in Stoppers :
        spc[s] \in {"marked", "stopped"} /\ deployments[target[s]] # Nil =>
            heap[target[s]].status = "stopping"

FreshStatus == \A o \in Ids : o > calls => heap[o].status = "pending"

Statuses == CallStatus /\ TableStatus /\ StopStatus /\ FreshStatus

RInv == TypeInv /\ SlotsInv /\ OwnRecord /\ Tracked /\ Statuses

\* What the proofs below need of the types.
LEMMA Types ==
    ASSUME TypeInv, OwnRecord
    PROVE  /\ MaxDeploys \in Nat /\ calls \in Nat /\ calls <= MaxDeploys
           /\ heap \in [Ids -> Deployment]
           /\ deployments \in [Ids -> 0..MaxDeploys]
           /\ \A i \in Ids : deployments[i] \in {Nil, i}
           /\ \A i \in Ids : deployments[i] # Nil => i <= calls
           /\ pc \in [Workers -> {"idle", "admitted", "registered", "pulling",
                                  "starting", "started", "done", "error"}]
           /\ dep \in [Workers -> 0..calls]
           /\ \A w \in Workers : pc[w] \notin {"idle", "error"} =>
                dep[w] \in Ids /\ dep[w] <= calls /\ heap[dep[w]].id = dep[w]
<1>1. /\ MaxDeploys \in Nat /\ calls \in Nat /\ calls <= MaxDeploys
      /\ heap \in [Ids -> Deployment]
      /\ deployments \in [Ids -> 0..MaxDeploys]
      /\ pc \in [Workers -> {"idle", "admitted", "registered", "pulling",
                             "starting", "started", "done", "error"}]
      /\ dep \in [Workers -> 0..calls]
  BY SchedulerAssumption DEF SchedulerAssumption, TypeInv, TypeOK
<1>2. ASSUME NEW i \in Ids
      PROVE  deployments[i] \in {Nil, i} /\ (deployments[i] # Nil => i <= calls)
  BY <1>1 DEF OwnRecord, TypeInv, WellFormed
<1>3. ASSUME NEW w \in Workers, pc[w] \notin {"idle", "error"}
      PROVE  dep[w] \in Ids /\ dep[w] <= calls /\ heap[dep[w]].id = dep[w]
  BY <1>1, <1>3, InCall DEF OwnRecord
<1> QED BY <1>1, <1>2, <1>3

-----------------------------------------------------------------------------
(* What each step does to the statuses *)

\* Of all statuses only that of record o changes, to st.
Marks(o, st) ==
    /\ heap'[o].status = st
    /\ \A x \in Ids \ {o} : heap'[x].status = heap[x].status

LEMMA UpdateMarks ==
    ASSUME TypeInv, OwnRecord, NEW o \in Ids, deployments[o] # Nil,
           NEW st \in Status, updateStatus(o, st)
    PROVE  Marks(o, st)
<1>1. deployments[o] = o /\ heap \in [Ids -> Deployment]
  BY Types
<1>2. heap' = [heap EXCEPT ![o].status = st]
  BY <1>1 DEF updateStatus
<1> QED BY <1>1, <1>2, SetStatus DEF Marks

LEMMA ReleaseMarks ==
    ASSUME TypeInv, OwnRecord, NEW o \in Ids, deployments[o] # Nil,
           NEW st \in Status, Release(o, st)
    PROVE  Marks(o, st) /\ deployments' = [deployments EXCEPT ![o] = Nil]
<1>1. deployments[o] = o /\ heap \in [Ids -> Deployment]
  BY Types
<1>2. heap' = [heap EXCEPT ![o].status = st]
      /\ deployments' = [deployments EXCEPT ![o] = Nil]
  BY <1>1 DEF Release
<1> QED BY <1>1, <1>2, SetStatus DEF Marks

LEMMA AdmitEffect ==
    ASSUME Orderly, RInv, NEW w \in Workers, Admit(w)
    PROVE  /\ calls + 1 \in Ids /\ deployments[calls + 1] = Nil
           /\ pc[w] = "idle" /\ calls' = calls + 1
           /\ pc' = [pc EXCEPT ![w] = "admitted"]
           /\ dep' = [dep EXCEPT ![w] = calls + 1]
           /\ Marks(calls + 1, "pending")
           /\ UNCHANGED <<deployments, containers, spc, target, sdep>>
<1>1. /\ calls + 1 \in Ids /\ deployments[calls + 1] = Nil
      /\ pc[w] = "idle" /\ calls' = calls + 1
      /\ pc' = [pc EXCEPT ![w] = "admitted"]
      /\ dep' = [dep EXCEPT ![w] = calls + 1]
      /\ UNCHANGED <<deployments, containers, spc, target, sdep>>
  BY Types DEF RInv, Admit, tableVars, stopVars
<1>2. Marks(calls + 1, "pending")
  <2>1. PICK r \in Requests, id \in NewIds :
          heap' = [heap EXCEPT ![calls + 1] =
            [id |-> id, cpu |-> r.cpu, mem |-> r.mem,
             status |-> "pending", container |-> Nil]]
    BY DEF Admit
  <2> QED BY <1>1, <2>1, Types DEF RInv, Marks
<1> QED BY <1>1, <1>2

LEMMA RegisterEffect ==
    ASSUME RInv, NEW w \in Workers, Register(w)
    PROVE  /\ dep[w] \in Ids /\ dep[w] <= calls /\ deployments[dep[w]] = Nil
           /\ pc[w] = "admitted"
           /\ pc' = [pc EXCEPT ![w] = "registered"]
           /\ deployments' = [deployments EXCEPT ![dep[w]] = dep[w]]
           /\ UNCHANGED <<heap, containers, dep, calls, spc, target, sdep>>
  BY Types DEF RInv, OwnRecord, Register, stopVars

LEMMA ProgressEffect ==
    ASSUME RInv, NEW w \in Workers, SetPulling(w) \/ PullSucceeds(w)
    PROVE  /\ dep[w] \in Ids /\ dep[w] <= calls /\ deployments[dep[w]] # Nil
           /\ pc[w] \in {"registered", "pulling"}
           /\ \E st \in {"pulling", "starting"} :
                pc' = [pc EXCEPT ![w] = st] /\ Marks(dep[w], st)
           /\ UNCHANGED <<deployments, containers, dep, calls, spc, target, sdep>>
<1>1. /\ pc[w] \in {"registered", "pulling"}
      /\ \E st \in {"pulling", "starting"} :
           pc' = [pc EXCEPT ![w] = st] /\ updateStatus(heap[dep[w]].id, st)
      /\ UNCHANGED <<deployments, containers, dep, calls, spc, target, sdep>>
  BY DEF SetPulling, PullSucceeds, tableVars, stopVars
<1>2. /\ dep[w] \in Ids /\ dep[w] <= calls /\ deployments[dep[w]] # Nil
      /\ heap[dep[w]].id = dep[w]
  BY <1>1, Types DEF RInv, Tracked, CallTracked
<1>3. {"pulling", "starting"} \subseteq Status
  BY DEF Status
<1> QED BY <1>1, <1>2, <1>3, UpdateMarks DEF RInv

LEMMA FailEffect ==
    ASSUME RInv, NEW w \in Workers, PullFails(w) \/ RunFails(w)
    PROVE  /\ dep[w] \in Ids /\ dep[w] <= calls /\ deployments[dep[w]] # Nil
           /\ pc[w] \in {"pulling", "starting"}
           /\ pc' = [pc EXCEPT ![w] = "error"]
           /\ Marks(dep[w], "failed")
           /\ deployments' = [deployments EXCEPT ![dep[w]] = Nil]
           /\ UNCHANGED <<containers, dep, calls, spc, target, sdep>>
<1>1. /\ pc[w] \in {"pulling", "starting"}
      /\ Release(heap[dep[w]].id, "failed")
      /\ pc' = [pc EXCEPT ![w] = "error"]
      /\ UNCHANGED <<containers, dep, calls, spc, target, sdep>>
  BY DEF PullFails, RunFails, failDeployment, stopVars
<1>2. /\ dep[w] \in Ids /\ dep[w] <= calls /\ deployments[dep[w]] # Nil
      /\ heap[dep[w]].id = dep[w]
  BY <1>1, Types DEF RInv, Tracked, CallTracked
<1> QED BY <1>1, <1>2, ReleaseMarks DEF RInv, Status

LEMMA PublishEffect ==
    ASSUME RInv, NEW w \in Workers, Publish(w)
    PROVE  /\ dep[w] \in Ids /\ dep[w] <= calls /\ deployments[dep[w]] # Nil
           /\ pc[w] = "started" /\ pc' = [pc EXCEPT ![w] = "done"]
           /\ Marks(dep[w], "running")
           /\ UNCHANGED <<deployments, containers, dep, calls, spc, target, sdep>>
<1>1. /\ pc[w] = "started" /\ pc' = [pc EXCEPT ![w] = "done"]
      /\ UNCHANGED <<deployments, containers, dep, calls, spc, target, sdep>>
  BY DEF Publish, tableVars, stopVars
<1>2. /\ dep[w] \in Ids /\ dep[w] <= calls /\ deployments[dep[w]] = dep[w]
      /\ heap[dep[w]].id = dep[w] /\ dep[w] # Nil
  BY <1>1, Types DEF RInv, Tracked, CallTracked
<1>3. Marks(dep[w], "running")
  <2>1. heap' = [heap EXCEPT ![dep[w]].container = dep[w],
                             ![dep[w]].status = "running"]
    BY <1>2 DEF Publish
  <2>2. heap \in [Ids -> Deployment]
    BY Types DEF RInv
  <2>3. heap[dep[w]] \in Deployment
    BY <1>2, <2>2
  <2> QED BY <1>2, <2>1, <2>2, <2>3 DEF Marks, Deployment
<1> QED BY <1>1, <1>2, <1>3

LEMMA LookupEffect ==
    ASSUME Orderly, RInv, NEW s \in Stoppers, NEW id \in Ids, Stoppable(id),
           StopLookup(s, id)
    PROVE  /\ \A w \in Workers : dep[w] # id
           /\ target' = [target EXCEPT ![s] = id]
           /\ IF deployments[id] = Nil
              THEN UNCHANGED heap /\ spc' = [spc EXCEPT ![s] = "error"]
              ELSE Marks(id, "stopping") /\ spc' = [spc EXCEPT ![s] = "marked"]
           /\ UNCHANGED <<deployments, containers, pc, dep, calls>>
<1>1. /\ target' = [target EXCEPT ![s] = id] /\ updateStatus(id, "stopping")
      /\ spc' = [spc EXCEPT ![s] = IF deployments[id] = Nil
                                   THEN "error" ELSE "marked"]
      /\ UNCHANGED <<deployments, containers, pc, dep, calls>>
  BY DEF StopLookup, tableVars, workerVars
<1>2. \A w \in Workers : dep[w] # id
  <2> SUFFICES ASSUME NEW w \in Workers, dep[w] = id PROVE FALSE
    OBVIOUS
  <2>1. dep[w] \in 1..calls
    BY Types DEF RInv
  <2>2. heap[dep[w]].id = id /\ dep[w] # Nil
    BY <2>1 DEF RInv, OwnRecord
  <2> QED BY <2>2 DEF Stoppable, Answered, Orderly
<1>3. CASE deployments[id] = Nil
  BY <1>1, <1>2, <1>3 DEF updateStatus
<1>4. CASE deployments[id] # Nil
  BY <1>1, <1>2, <1>4, UpdateMarks DEF RInv, Status
<1> QED BY <1>3, <1>4

LEMMA StopReleaseEffect ==
    ASSUME RInv, NEW s \in Stoppers, StopRelease(s)
    PROVE  /\ target[s] \in Ids /\ \A w \in Workers : dep[w] # target[s]
           /\ target[s] \notin containers
           /\ spc[s] = "stopped" /\ spc' = [spc EXCEPT ![s] = "done"]
           /\ IF deployments[target[s]] = Nil
              THEN UNCHANGED <<heap, deployments>>
              ELSE /\ Marks(target[s], "stopped")
                   /\ deployments' = [deployments EXCEPT ![target[s]] = Nil]
           /\ UNCHANGED <<containers, pc, dep, calls, target, sdep>>
<1>1. /\ spc[s] = "stopped" /\ spc' = [spc EXCEPT ![s] = "done"]
      /\ Release(target[s], "stopped")
      /\ UNCHANGED <<containers, pc, dep, calls, target, sdep>>
  BY DEF StopRelease, workerVars
<1>2. /\ target[s] \in Ids /\ target[s] \notin containers
      /\ \A w \in Workers : dep[w] # target[s]
  BY <1>1, Types DEF RInv, Tracked, StopTracked
<1>3. CASE deployments[target[s]] = Nil
  BY <1>1, <1>2, <1>3 DEF Release, tableVars
<1>4. CASE deployments[target[s]] # Nil
  BY <1>1, <1>2, <1>4, ReleaseMarks DEF RInv, Status
<1> QED BY <1>3, <1>4

-----------------------------------------------------------------------------
(* The statuses are kept *)

LEMMA StatusesInit == Init => Statuses
  BY SchedulerAssumption DEF SchedulerAssumption, Init, Statuses, CallStatus,
     TableStatus, StopStatus, FreshStatus, StatusAt

\* The target of a Stop at work is an allocated record of no call.
LEMMA StopTargets ==
    ASSUME RInv, NEW s \in Stoppers, spc[s] \in {"marked", "stopped"}
    PROVE  /\ target[s] \in Ids /\ target[s] <= calls
           /\ \A w \in Workers : dep[w] # target[s]
  BY Types DEF RInv, Tracked, StopTracked

LEMMA StatusesAdmit ==
    ASSUME Orderly, RInv, NEW w \in Workers, Admit(w)
    PROVE  Statuses'
<1> DEFINE o == calls + 1
<1>1. /\ o \in Ids /\ deployments[o] = Nil /\ pc[w] = "idle" /\ calls' = o
      /\ pc' = [pc EXCEPT ![w] = "admitted"] /\ dep' = [dep EXCEPT ![w] = o]
      /\ Marks(o, "pending")
      /\ UNCHANGED <<deployments, containers, spc, target, sdep>>
  BY AdmitEffect
<1>2. CallStatus'
  BY <1>1, Types DEF RInv, Statuses, CallStatus, StatusAt, Marks
<1>3. TableStatus'
  <2> SUFFICES ASSUME NEW x \in Ids, deployments[x] # Nil
               PROVE  /\ heap'[x].status \notin {"stopped", "failed"}
                      /\ heap'[x].status \in Early =>
                           \E v \in Workers : Starting(v)' /\ dep'[v] = x
    BY <1>1 DEF TableStatus
  <2>1. heap'[x].status = heap[x].status
    BY <1>1 DEF Marks
  <2>2. \A v \in Workers : Starting(v) => Starting(v)' /\ dep'[v] = dep[v]
    BY <1>1, Types DEF RInv, Starting
  <2> QED BY <2>1, <2>2 DEF RInv, Statuses, TableStatus
<1>4. StopStatus'
  BY <1>1, StopTargets, Types DEF RInv, Statuses, StopStatus, Marks
<1>5. FreshStatus'
  BY <1>1, Types DEF RInv, Statuses, FreshStatus, Marks
<1> QED BY <1>2, <1>3, <1>4, <1>5 DEF Statuses

\* A step of call w on its own record o, which it leaves in the table with the
\* status of its new place, or takes out of it.
LEMMA StatusesOwn ==
    ASSUME RInv, NEW w \in Workers, NEW q, NEW o, o = dep[w], o \in Ids, o <= calls,
           pc[w] \notin {"idle", "error", "done"},
           pc' = [pc EXCEPT ![w] = q],
           UNCHANGED <<dep, calls, spc, target>>,
           \A x \in Ids \ {o} : /\ heap'[x].status = heap[x].status
                                /\ deployments'[x] = deployments[x],
           \/ q = "error" /\ deployments'[o] = Nil
           \/ /\ q \in {"registered", "pulling", "starting", "started", "done"}
              /\ heap'[o].status = StatusAt(q)
    PROVE  Statuses'
<1>1. \A v \in Workers \ {w} : pc'[v] = pc[v] /\ dep'[v] = dep[v]
      /\ (pc[v] \notin {"idle", "error"} => dep[v] \in Ids /\ dep[v] # o)
  BY Types DEF RInv, OwnRecord
<1>2. pc'[w] = q /\ dep'[w] = o
  BY Types DEF RInv
<1>3. CallStatus'
  BY <1>1, <1>2 DEF RInv, Statuses, CallStatus
<1>4. TableStatus'
  <2> SUFFICES ASSUME NEW x \in Ids, deployments'[x] # Nil
               PROVE  /\ heap'[x].status \notin {"stopped", "failed"}
                      /\ heap'[x].status \in Early =>
                           \E v \in Workers : Starting(v)' /\ dep'[v] = x
    BY DEF TableStatus
  <2>1. CASE x = o
    BY <1>2, <2>1 DEF StatusAt, Early, Starting
  <2>2. CASE x # o
    <3>1. /\ heap[x].status \notin {"stopped", "failed"}
          /\ heap[x].status \in Early =>
               \E v \in Workers : Starting(v) /\ dep[v] = x
      BY <2>2 DEF RInv, Statuses, TableStatus
    <3>2. \A v \in Workers : dep[v] = x /\ Starting(v) => Starting(v)' /\ dep'[v] = x
      BY <1>1, <2>2 DEF Starting
    <3>3. heap'[x].status = heap[x].status
      BY <2>2
    <3> QED BY <3>1, <3>2, <3>3
  <2> QED BY <2>1, <2>2
<1>5. StopStatus'
  BY StopTargets DEF RInv, Statuses, StopStatus
<1>6. FreshStatus'
  BY Types DEF RInv, Statuses, FreshStatus
<1> QED BY <1>3, <1>4, <1>5, <1>6 DEF Statuses

LEMMA StatusesSchedule ==
    ASSUME Orderly, RInv, NEW w \in Workers, Schedule(w)
    PROVE  Statuses'
<1>1. CASE Admit(w)
  BY <1>1, StatusesAdmit
<1>2. CASE Reject(w) \/ ScheduleReturns(w)
  <2>1. /\ pc[w] \in {"idle", "done", "error"}
        /\ pc' \in {[pc EXCEPT ![w] = "error"], [pc EXCEPT ![w] = "idle"]}
        /\ dep' = [dep EXCEPT ![w] = Nil]
        /\ UNCHANGED <<deployments, heap, calls, spc, target>>
    BY <1>2 DEF Reject, ScheduleReturns, tableVars, stopVars
  <2>2. CallStatus'
    BY <2>1, Types DEF RInv, Statuses, CallStatus
  <2>3. \A v \in Workers : Starting(v) => Starting(v)' /\ dep'[v] = dep[v]
    BY <2>1, Types DEF RInv, Starting
  <2>4. TableStatus'
    BY <2>1, <2>3 DEF RInv, Statuses, TableStatus
  <2> QED BY <2>1, <2>2, <2>4 DEF RInv, Statuses, StopStatus, FreshStatus
<1>3. CASE Register(w)
  <2>1. heap[dep[w]].status = "pending"
    BY <1>3, RegisterEffect DEF RInv, Statuses, CallStatus, StatusAt
  <2>2. /\ dep[w] \in Ids /\ dep[w] <= calls /\ pc[w] = "admitted"
        /\ pc' = [pc EXCEPT ![w] = "registered"]
        /\ UNCHANGED <<heap, dep, calls, spc, target>>
        /\ \A x \in Ids \ {dep[w]} : deployments'[x] = deployments[x]
    BY <1>3, RegisterEffect, Types DEF RInv
  <2>3. heap'[dep[w]].status = StatusAt("registered")
    BY <2>1, <2>2 DEF StatusAt
  <2> QED BY <2>2, <2>3, StatusesOwn
<1>4. CASE SetPulling(w) \/ PullSucceeds(w)
  <2>1. PICK st \in {"pulling", "starting"} :
          pc' = [pc EXCEPT ![w] = st] /\ Marks(dep[w], st)
    BY <1>4, ProgressEffect
  <2>2. StatusAt(st) = st
    BY DEF StatusAt
  <2>3. /\ dep[w] \in Ids /\ dep[w] <= calls /\ pc[w] \in {"registered", "pulling"}
        /\ UNCHANGED <<deployments, dep, calls, spc, target>>
    BY <1>4, ProgressEffect
  <2>4. /\ heap'[dep[w]].status = StatusAt(st)
        /\ \A x \in Ids \ {dep[w]} : heap'[x].status = heap[x].status
    BY <2>1, <2>2 DEF Marks
  <2> QED BY <2>1, <2>3, <2>4, StatusesOwn
<1>5. CASE PullFails(w) \/ RunFails(w)
  <2>1. /\ dep[w] \in Ids /\ dep[w] <= calls /\ pc[w] \in {"pulling", "starting"}
        /\ pc' = [pc EXCEPT ![w] = "error"]
        /\ UNCHANGED <<dep, calls, spc, target>>
        /\ \A x \in Ids \ {dep[w]} : heap'[x].status = heap[x].status
        /\ deployments' = [deployments EXCEPT ![dep[w]] = Nil]
    BY <1>5, FailEffect DEF Marks
  <2>2. /\ deployments'[dep[w]] = Nil
        /\ \A x \in Ids \ {dep[w]} : deployments'[x] = deployments[x]
    BY <2>1, Types DEF RInv
  <2> QED BY <2>1, <2>2, StatusesOwn
<1>6. CASE RunSucceeds(w)
  <2>1. /\ pc[w] = "starting" /\ pc' = [pc EXCEPT ![w] = "started"]
        /\ UNCHANGED <<heap, deployments, dep, calls, spc, target>>
    BY <1>6 DEF RunSucceeds, tableVars, stopVars
  <2>2. /\ dep[w] \in Ids /\ dep[w] <= calls
        /\ heap[dep[w]].status = StatusAt("started")
    BY <2>1, Types DEF RInv, Statuses, CallStatus, StatusAt
  <2> QED BY <2>1, <2>2, StatusesOwn
<1>7. CASE Publish(w)
  <2>1. StatusAt("done") = "running"
    BY DEF StatusAt
  <2> QED BY <1>7, <2>1, PublishEffect, StatusesOwn DEF Marks
<1> QED BY <1>1, <1>2, <1>3, <1>4, <1>5, <1>6, <1>7 DEF Schedule

\* A step of a Stop on a record o of no call.
LEMMA StatusesStop ==
    ASSUME Orderly, RInv, NEW s \in Stoppers, Stop(s)
    PROVE  Statuses'
<1>1. ASSUME NEW id \in Ids, Stoppable(id), StopLookup(s, id) PROVE Statuses'
  <2>1. /\ \A w \in Workers : dep[w] # id
        /\ target' = [target EXCEPT ![s] = id]
        /\ UNCHANGED <<deployments, pc, dep, calls>>
    BY <1>1, LookupEffect
  <2>2. CASE deployments[id] = Nil
    <3>1. UNCHANGED heap /\ spc' = [spc EXCEPT ![s] = "error"]
      BY <1>1, <2>2, LookupEffect
    <3>2. StopStatus'
      BY <2>1, <3>1 DEF RInv, TypeInv, TypeOK, Statuses, StopStatus
    <3> QED
      BY <2>1, <3>1, <3>2 DEF RInv, Statuses, CallStatus, TableStatus, FreshStatus,
         Starting
  <2>3. CASE deployments[id] # Nil
    <3>1. Marks(id, "stopping") /\ spc' = [spc EXCEPT ![s] = "marked"] /\ id <= calls
      BY <1>1, <2>3, LookupEffect, Types DEF RInv
    <3>2. CallStatus'
      BY <2>1, <3>1, Types DEF RInv, Statuses, CallStatus, Marks
    <3>3. TableStatus'
      BY <2>1, <3>1 DEF RInv, Statuses, TableStatus, Marks, Starting, Early
    <3>4. StopStatus'
      BY <2>1, <3>1, StopTargets DEF RInv, TypeInv, TypeOK, Statuses, StopStatus,
         Marks
    <3>5. FreshStatus'
      <4>1. calls \in Nat /\ MaxDeploys \in Nat /\ id \in Nat
        BY <2>1, Types DEF RInv
      <4>2. \A o \in Ids : o > calls => heap'[o].status = heap[o].status
        BY <3>1, <4>1 DEF Marks
      <4> QED BY <2>1, <4>2 DEF RInv, Statuses, FreshStatus
    <3> QED BY <3>2, <3>3, <3>4, <3>5 DEF Statuses
  <2> QED BY <2>2, <2>3
<1>2. CASE StopContainer(s) \/ StopReturns(s)
  <2>1. /\ UNCHANGED <<deployments, heap, pc, dep, calls>>
        /\ \A t \in Stoppers : spc'[t] \in {"marked", "stopped"} =>
             spc[t] \in {"marked", "stopped"} /\ target'[t] = target[t]
    BY <1>2 DEF StopContainer, StopReturns, tableVars, workerVars, RInv, TypeInv,
       TypeOK
  <2> QED
    BY <2>1 DEF RInv, Statuses, CallStatus, TableStatus, StopStatus, FreshStatus,
       Starting
<1>3. CASE StopRelease(s)
  <2>1. /\ target[s] \in Ids /\ \A w \in Workers : dep[w] # target[s]
        /\ spc[s] = "stopped" /\ spc' = [spc EXCEPT ![s] = "done"]
        /\ UNCHANGED <<pc, dep, calls, target>>
        /\ target[s] <= calls
    BY <1>3, StopReleaseEffect, StopTargets
  <2>2. /\ \A x \in Ids \ {target[s]} : /\ heap'[x].status = heap[x].status
                                        /\ deployments'[x] = deployments[x]
        /\ deployments'[target[s]] = Nil
    <3>1. IF deployments[target[s]] = Nil
          THEN UNCHANGED <<heap, deployments>>
          ELSE /\ Marks(target[s], "stopped")
               /\ deployments' = [deployments EXCEPT ![target[s]] = Nil]
      BY <1>3, StopReleaseEffect
    <3>2. DOMAIN deployments = Ids
      BY Types DEF RInv
    <3> QED BY <2>1, <3>1, <3>2 DEF Marks
  <2>3. CallStatus'
    BY <2>1, <2>2, Types DEF RInv, Statuses, CallStatus
  <2>4. TableStatus'
    BY <2>1, <2>2 DEF RInv, Statuses, TableStatus, Starting
  <2>5. StopStatus'
    BY <2>1, <2>2, StopTargets DEF RInv, TypeInv, TypeOK, Statuses, StopStatus
  <2>6. FreshStatus'
    BY <2>1, <2>2, Types DEF RInv, Statuses, FreshStatus
  <2> QED BY <2>3, <2>4, <2>5, <2>6 DEF Statuses
<1> QED BY <1>1, <1>2, <1>3 DEF Stop

LEMMA StatusesStep ==
    ASSUME Orderly
    PROVE  RInv /\ [Next]_vars => Statuses'
<1> SUFFICES ASSUME RInv, [Next]_vars PROVE Statuses'
  OBVIOUS
<1>1. CASE ContainerExits \/ UNCHANGED vars
  <2>1. UNCHANGED <<deployments, heap, pc, dep, calls, spc, target>>
    BY <1>1 DEF ContainerExits, vars, tableVars, workerVars, stopVars
  <2> QED
    BY <2>1 DEF RInv, Statuses, CallStatus, TableStatus, StopStatus, FreshStatus,
       Starting
<1> QED BY <1>1, StatusesSchedule, StatusesStop DEF Next

LEMMA RInvariance ==
    ASSUME Orderly
    PROVE  Spec => []RInv
<1>1. Init => RInv
  BY TypeInit, SlotsInit, OwnRecordInit, TrackedInit, StatusesInit DEF RInv
<1>2. RInv /\ DistinctIds /\ Balanced /\ [Next]_vars
        => RInv' /\ DistinctIds' /\ Balanced'
  BY TypeStep, SlotsStep, DistinctStays, AccountingStep, TrackedStep, StatusesStep,
     NextIsAny
  DEF RInv, Orderly
<1>3. Init => DistinctIds /\ Balanced
  BY OwnRecordInit, AccountingInit DEF DistinctIds, OwnRecord
<1> QED BY <1>1, <1>2, <1>3, PTL DEF Spec

-----------------------------------------------------------------------------
(* The stages *)

\* The stage of a deployment, from its entry and its status alone.
LEMMA StageValue ==
    ASSUME RInv, NEW o \in Ids
    PROVE  /\ deployments[o] = Nil =>
                Stage(o) = IF heap[o].status \in {"stopped", "failed"}
                           THEN "over" ELSE "none"
           /\ deployments[o] # Nil /\ heap[o].status \in Early =>
                Stage(o) = IF Unpublished(o) THEN "launched" ELSE "starting"
           /\ deployments[o] # Nil /\ heap[o].status \notin Early =>
                Stage(o) = heap[o].status /\ Stage(o) \in {"running", "stopping"}
<1>1. InTable(o) <=> deployments[o] # Nil
  BY Types DEF RInv, InTable
<1>2. heap[o] \in Deployment
  BY Types DEF RInv
<1>3. heap[o].status \in Status
  BY <1>2 DEF Deployment
<1>4. deployments[o] # Nil => heap[o].status \notin {"stopped", "failed"}
  BY DEF RInv, Statuses, TableStatus
<1> QED BY <1>1, <1>3, <1>4 DEF Stage, Early, Status

\* The same in the state after a step.
LEMMA StageValueNext ==
    ASSUME RInv', NEW o \in Ids
    PROVE  /\ deployments'[o] = Nil =>
                Stage(o)' = IF heap'[o].status \in {"stopped", "failed"}
                            THEN "over" ELSE "none"
           /\ deployments'[o] # Nil /\ heap'[o].status \in Early =>
                Stage(o)' = IF Unpublished(o)' THEN "launched" ELSE "starting"
           /\ deployments'[o] # Nil /\ heap'[o].status \notin Early =>
                Stage(o)' = heap'[o].status
<1>1. TypeOK' /\ OwnRecord' /\ MaxDeploys \in Nat
  BY SchedulerAssumption DEF RInv, TypeInv, SchedulerAssumption
<1>2. InTable(o)' <=> deployments'[o] # Nil
  <2>1. \A i \in Ids : deployments'[i] \in {Nil, i}
    BY <1>1 DEF OwnRecord
  <2> QED BY <2>1, <1>1 DEF InTable
<1>3. heap'[o] \in Deployment
  BY <1>1 DEF TypeOK
<1>4. heap'[o].status \in Status
  BY <1>3 DEF Deployment
<1>5. deployments'[o] # Nil => heap'[o].status \notin {"stopped", "failed"}
  BY DEF RInv, Statuses, TableStatus
<1> QED BY <1>2, <1>4, <1>5 DEF Stage, Early, Status

\* A deployment whose entry, status and publication stay keeps its stage.
LEMMA SameStage ==
    ASSUME RInv, RInv', NEW o \in Ids,
           heap'[o].status = heap[o].status, deployments'[o] = deployments[o],
           Unpublished(o)' <=> Unpublished(o)
    PROVE  Stage(o)' = Stage(o)
  BY StageValue, StageValueNext

\* A call that does not move from or to "started" publishes nothing.
LEMMA SameUnpublished ==
    ASSUME RInv, NEW w \in Workers, pc[w] # "started", pc'[w] # "started",
           \A v \in Workers \ {w} : pc'[v] = pc[v] /\ dep'[v] = dep[v],
           NEW o \in Ids
    PROVE  Unpublished(o)' <=> Unpublished(o)
  BY DEF Unpublished

\* The deployments in service are the entries of the table.
LEMMA ServiceIsLive ==
    ASSUME RInv
    PROVE  Live = {o \in Ids : Stage(o) \notin {"none", "over"}}
  BY StageValue DEF Live

\* Lifecycle counts with its own instance of FiniteSets.
LEMMA SameCount ==
    ASSUME NEW S
    PROVE  Life!Cardinality(S) = Cardinality(S)
  BY DEF Life!Cardinality, Cardinality

stageBar == [o \in Ids |-> Stage(o)]

\* A step that moves one deployment from one stage to another.
MovesStage(d, from, to) ==
    /\ Stage(d) = from /\ Stage(d)' = to
    /\ \A o \in Ids \ {d} : Stage(o)' = Stage(o)

LEMMA LifeMoves ==
    ASSUME NEW d \in Ids, NEW from, NEW to, MovesStage(d, from, to)
    PROVE  Life!Moves(d, from, to)
  BY DEF MovesStage, Life!Moves

-----------------------------------------------------------------------------
(* Every step is a step of Lifecycle, or none *)

Implements == [Life!Next]_<<stageBar, containers>>

LEMMA NoStage ==
    ASSUME \A o \in Ids : Stage(o)' = Stage(o), containers' = containers
    PROVE  Implements
  BY DEF Implements, stageBar

LEMMA LifeAdmit ==
    ASSUME Orderly, RInv, RInv', NEW w \in Workers, Admit(w)
    PROVE  Implements
<1>1. /\ calls + 1 \in Ids /\ deployments[calls + 1] = Nil
      /\ pc[w] = "idle" /\ pc' = [pc EXCEPT ![w] = "admitted"]
      /\ dep' = [dep EXCEPT ![w] = calls + 1]
      /\ Marks(calls + 1, "pending")
      /\ UNCHANGED <<deployments, containers>>
  BY AdmitEffect
<1>2. /\ pc'[w] # "started"
      /\ \A v \in Workers \ {w} : pc'[v] = pc[v] /\ dep'[v] = dep[v]
  BY <1>1, Types DEF RInv
<1>3. heap[calls + 1].status = "pending"
  BY <1>1, Types DEF RInv, Statuses, FreshStatus
<1>4. \A o \in Ids : heap'[o].status = heap[o].status
  BY <1>1, <1>3 DEF Marks
<1>5. \A o \in Ids : Stage(o)' = Stage(o)
  BY <1>1, <1>2, <1>4, SameUnpublished, SameStage
<1> QED BY <1>1, <1>5, NoStage

LEMMA LifeRegister ==
    ASSUME RInv, RInv', NEW w \in Workers, Register(w)
    PROVE  Implements
<1> DEFINE d == dep[w]
<1>1. /\ d \in Ids /\ deployments[d] = Nil
      /\ pc[w] = "admitted" /\ pc' = [pc EXCEPT ![w] = "registered"]
      /\ deployments' = [deployments EXCEPT ![d] = d]
      /\ UNCHANGED <<heap, containers, dep>>
  BY RegisterEffect
<1>2. /\ pc'[w] # "started"
      /\ \A v \in Workers \ {w} : pc'[v] = pc[v] /\ dep'[v] = dep[v]
  BY <1>1, Types DEF RInv
<1>3. \A o \in Ids : Unpublished(o)' <=> Unpublished(o)
  BY <1>1, <1>2, SameUnpublished
<1>4. heap[d].status = "pending" /\ ~Unpublished(d)
  BY <1>1 DEF RInv, OwnRecord, Statuses, CallStatus, StatusAt, Unpublished
<1>5. deployments'[d] # Nil
      /\ \A o \in Ids \ {d} : deployments'[o] = deployments[o]
  BY <1>1, Types DEF RInv
<1>6. MovesStage(d, "none", "starting")
  <2>1. Stage(d) = "none"
    BY <1>1, <1>4, StageValue
  <2>2. Stage(d)' = "starting"
    BY <1>1, <1>3, <1>4, <1>5, StageValueNext DEF Early
  <2>3. \A o \in Ids \ {d} : Stage(o)' = Stage(o)
    BY <1>1, <1>3, <1>5, SameStage
  <2> QED BY <2>1, <2>2, <2>3 DEF MovesStage
<1>7. Cardinality(Live) < Room
  <2>1. Cardinality(Admitted) \in Nat /\ Cardinality(Live) \in Nat
        /\ Cardinality(Workers) \in Nat /\ IsFiniteSet(Admitted)
    BY SlotsFinite
  <2>2. Cardinality(Admitted) # 0
    <3>1. w \in Admitted
      BY <1>1 DEF Admitted
    <3> QED BY <2>1, <3>1, FS_EmptySet
  <2> QED
    BY <2>1, <2>2, SchedulerAssumption DEF RInv, SlotsInv, Room, SchedulerAssumption
<1>8. Life!Accept(d)
  BY <1>1, <1>6, <1>7, LifeMoves, ServiceIsLive, SameCount
  DEF Life!Accept, Life!InService
<1> QED BY <1>1, <1>8 DEF Implements, Life!Next

LEMMA LifeProgress ==
    ASSUME RInv, RInv', NEW w \in Workers, SetPulling(w) \/ PullSucceeds(w)
    PROVE  Implements
<1> DEFINE d == dep[w]
<1>1. /\ d \in Ids /\ deployments[d] # Nil /\ pc[w] \in {"registered", "pulling"}
      /\ UNCHANGED <<deployments, containers, dep>>
  BY ProgressEffect
<1>2. PICK st \in {"pulling", "starting"} :
        pc' = [pc EXCEPT ![w] = st] /\ Marks(d, st)
  BY ProgressEffect
<1>3. /\ pc'[w] # "started"
      /\ \A v \in Workers \ {w} : pc'[v] = pc[v] /\ dep'[v] = dep[v]
  BY <1>1, <1>2, Types DEF RInv
<1>4. \A o \in Ids : Unpublished(o)' <=> Unpublished(o)
  BY <1>1, <1>3, SameUnpublished
<1>5. heap[d].status \in Early /\ heap'[d].status \in Early
  BY <1>1, <1>2 DEF RInv, Statuses, CallStatus, StatusAt, Marks, Early
<1>6. Stage(d)' = Stage(d)
  BY <1>1, <1>4, <1>5, StageValue, StageValueNext
<1>7. \A o \in Ids \ {d} : Stage(o)' = Stage(o)
  BY <1>1, <1>2, <1>4, SameStage DEF Marks
<1> QED BY <1>1, <1>6, <1>7, NoStage

LEMMA LifeFails ==
    ASSUME RInv, RInv', NEW w \in Workers, PullFails(w) \/ RunFails(w)
    PROVE  Implements
<1> DEFINE d == dep[w]
<1>1. /\ d \in Ids /\ deployments[d] # Nil /\ pc[w] \in {"pulling", "starting"}
      /\ pc' = [pc EXCEPT ![w] = "error"] /\ Marks(d, "failed")
      /\ deployments' = [deployments EXCEPT ![d] = Nil]
      /\ UNCHANGED <<containers, dep>>
  BY FailEffect
<1>2. /\ pc'[w] # "started"
      /\ \A v \in Workers \ {w} : pc'[v] = pc[v] /\ dep'[v] = dep[v]
      /\ deployments'[d] = Nil
      /\ \A o \in Ids \ {d} : deployments'[o] = deployments[o]
  BY <1>1, Types DEF RInv
<1>3. \A o \in Ids : Unpublished(o)' <=> Unpublished(o)
  BY <1>1, <1>2, SameUnpublished
<1>4. heap[d].status \in Early /\ ~Unpublished(d)
  BY <1>1 DEF RInv, OwnRecord, Statuses, CallStatus, StatusAt, Unpublished, Early
<1>5. Stage(d) = "starting"
  BY <1>1, <1>4, StageValue
<1>6. Stage(d)' = "over"
  BY <1>1, <1>2, StageValueNext DEF Marks
<1>7. \A o \in Ids \ {d} : Stage(o)' = Stage(o)
  BY <1>1, <1>2, <1>3, SameStage DEF Marks
<1>8. Life!Fail(d)
  BY <1>1, <1>5, <1>6, <1>7, LifeMoves DEF MovesStage, Life!Fail
<1> QED BY <1>1, <1>8 DEF Implements, Life!Next

LEMMA LifeRuns ==
    ASSUME RInv, RInv', NEW w \in Workers, RunSucceeds(w)
    PROVE  Implements
<1> DEFINE d == dep[w]
<1>1. /\ pc[w] = "starting" /\ pc' = [pc EXCEPT ![w] = "started"]
      /\ containers' = containers \cup {d}
      /\ UNCHANGED <<deployments, heap, dep>>
  BY DEF RunSucceeds, tableVars
<1>2. /\ d \in Ids /\ deployments[d] # Nil /\ heap[d].status \in Early
  BY <1>1, Types DEF RInv, Tracked, CallTracked, Statuses, CallStatus, StatusAt,
     Early
<1>3. ~Unpublished(d)
  BY <1>1, <1>2 DEF RInv, OwnRecord, Unpublished
<1>4. Unpublished(d)' /\ \A o \in Ids \ {d} : Unpublished(o)' <=> Unpublished(o)
  BY <1>1, Types DEF RInv, Unpublished
<1>5. Stage(d) = "starting"
  BY <1>2, <1>3, StageValue
<1>6. Stage(d)' = "launched"
  BY <1>1, <1>2, <1>4, StageValueNext
<1>7. \A o \in Ids \ {d} : Stage(o)' = Stage(o)
  BY <1>1, <1>4, SameStage
<1>8. Life!Launch(d)
  BY <1>1, <1>2, <1>5, <1>6, <1>7, LifeMoves DEF MovesStage, Life!Launch
<1> QED BY <1>2, <1>8 DEF Implements, Life!Next

LEMMA LifePublish ==
    ASSUME RInv, RInv', NEW w \in Workers, Publish(w)
    PROVE  Implements
<1> DEFINE d == dep[w]
<1>1. /\ d \in Ids /\ deployments[d] # Nil
      /\ pc[w] = "started" /\ pc' = [pc EXCEPT ![w] = "done"]
      /\ Marks(d, "running") /\ UNCHANGED <<deployments, containers, dep>>
  BY PublishEffect
<1>2. heap[d].status \in Early /\ Unpublished(d)
  BY <1>1 DEF RInv, Statuses, CallStatus, StatusAt, Unpublished, Early
<1>3. \A o \in Ids \ {d} : Unpublished(o)' <=> Unpublished(o)
  BY <1>1, Types DEF RInv, Unpublished
<1>4. Stage(d) = "launched"
  BY <1>1, <1>2, StageValue
<1>5. Stage(d)' = "running"
  BY <1>1, StageValueNext DEF Marks, Early
<1>6. \A o \in Ids \ {d} : Stage(o)' = Stage(o)
  BY <1>1, <1>3, SameStage DEF Marks
<1>7. Life!Announce(d)
  BY <1>1, <1>4, <1>5, <1>6, LifeMoves DEF MovesStage, Life!Announce
<1> QED BY <1>1, <1>7 DEF Implements, Life!Next

LEMMA LifeReturns ==
    ASSUME RInv, RInv', NEW w \in Workers, Reject(w) \/ ScheduleReturns(w)
    PROVE  Implements
<1>1. /\ pc[w] \in {"idle", "done", "error"}
      /\ pc' \in {[pc EXCEPT ![w] = "error"], [pc EXCEPT ![w] = "idle"]}
      /\ dep' = [dep EXCEPT ![w] = Nil]
      /\ UNCHANGED <<deployments, heap, containers>>
  BY DEF Reject, ScheduleReturns, tableVars
<1>2. /\ pc[w] # "started" /\ pc'[w] # "started"
      /\ \A v \in Workers \ {w} : pc'[v] = pc[v] /\ dep'[v] = dep[v]
  BY <1>1, Types DEF RInv
<1>3. \A o \in Ids : Stage(o)' = Stage(o)
  BY <1>1, <1>2, SameUnpublished, SameStage
<1> QED BY <1>1, <1>3, NoStage

\* A container that ends, by itself or at docker stop, changes no stage.
LEMMA LifeEnds ==
    ASSUME RInv, RInv', NEW c \in containers, containers' = containers \ {c},
           UNCHANGED <<deployments, heap, pc, dep>>
    PROVE  Implements
<1>1. c \in Ids
  BY DEF RInv, TypeInv, TypeOK
<1>2. \A o \in Ids : Stage(o)' = Stage(o)
  BY SameStage DEF Unpublished
<1>3. Life!Ends(c)
  BY <1>1, <1>2 DEF Life!Ends
<1> QED BY <1>1, <1>3 DEF Implements, Life!Next

LEMMA LifeStop ==
    ASSUME Orderly, RInv, RInv', NEW s \in Stoppers, Stop(s)
    PROVE  Implements
<1>1. ASSUME NEW d \in Ids, Stoppable(d), StopLookup(s, d) PROVE Implements
  <2>1. /\ \A w \in Workers : dep[w] # d
        /\ UNCHANGED <<deployments, containers, pc, dep>>
    BY <1>1, LookupEffect
  <2>2. \A o \in Ids : Unpublished(o)' <=> Unpublished(o)
    BY <2>1 DEF Unpublished
  <2>3. CASE UNCHANGED heap
    BY <2>1, <2>2, <2>3, SameStage, NoStage
  <2>4. CASE deployments[d] # Nil
    <3>1. Marks(d, "stopping")
      BY <1>1, <2>4, LookupEffect
    <3>2. heap[d].status \notin Early
      BY <2>1, <2>4 DEF RInv, Statuses, TableStatus
    <3>3. Stage(d) \in {"running", "stopping"}
      BY <2>4, <3>2, StageValue
    <3>4. Stage(d)' = "stopping"
      BY <2>1, <2>4, <3>1, StageValueNext DEF Marks, Early
    <3>5. \A o \in Ids \ {d} : Stage(o)' = Stage(o)
      BY <2>1, <2>2, <3>1, SameStage DEF Marks
    <3>6. CASE Stage(d) = "stopping"
      BY <2>1, <3>4, <3>5, <3>6, NoStage
    <3>7. CASE Stage(d) = "running"
      <4>1. Life!AskToStop(d)
        BY <2>1, <3>4, <3>5, <3>7, LifeMoves DEF MovesStage, Life!AskToStop
      <4> QED BY <4>1 DEF Implements, Life!Next
    <3> QED BY <3>3, <3>6, <3>7
  <2> QED BY <1>1, <2>3, <2>4, LookupEffect
<1>2. CASE StopContainer(s)
  <2>1. /\ containers' = containers \ {heap[sdep[s]].container}
        /\ UNCHANGED <<deployments, heap, pc, dep>>
    BY <1>2 DEF StopContainer, Orderly, tableVars, workerVars
  <2>2. CASE heap[sdep[s]].container \in containers
    BY <2>1, <2>2, LifeEnds
  <2>3. CASE heap[sdep[s]].container \notin containers
    <3>1. containers' = containers
      BY <2>1, <2>3
    <3>2. \A o \in Ids : Stage(o)' = Stage(o)
      BY <2>1, SameStage DEF Unpublished
    <3> QED BY <3>1, <3>2, NoStage
  <2> QED BY <2>2, <2>3
<1>3. CASE StopRelease(s)
  <2> PICK d \in Ids : d = target[s]
    BY <1>3, StopReleaseEffect
  <2>1. /\ d \in Ids /\ d \notin containers /\ spc[s] = "stopped"
        /\ UNCHANGED <<containers, pc, dep>>
    BY <1>3, StopReleaseEffect
  <2>2. \A o \in Ids : Unpublished(o)' <=> Unpublished(o)
    BY <2>1 DEF Unpublished
  <2>3. CASE UNCHANGED <<heap, deployments>>
    BY <2>1, <2>2, <2>3, SameStage, NoStage
  <2>4. CASE deployments[d] # Nil
    <3>1. Marks(d, "stopped") /\ deployments' = [deployments EXCEPT ![d] = Nil]
      BY <1>3, <2>4, StopReleaseEffect
    <3>2. /\ deployments'[d] = Nil
          /\ \A o \in Ids \ {d} : deployments'[o] = deployments[o]
      BY <2>1, <3>1, Types DEF RInv
    <3>3. heap[d].status = "stopping"
      BY <2>1, <2>4 DEF RInv, Statuses, StopStatus
    <3>4. Stage(d) = "stopping"
      BY <2>1, <2>4, <3>3, StageValue DEF Early
    <3>5. Stage(d)' = "over"
      BY <2>1, <3>1, <3>2, StageValueNext DEF Marks
    <3>6. \A o \in Ids \ {d} : Stage(o)' = Stage(o)
      BY <2>2, <3>1, <3>2, SameStage DEF Marks
    <3>7. Life!Finish(d)
      BY <2>1, <3>4, <3>5, <3>6, LifeMoves DEF MovesStage, Life!Finish
    <3> QED BY <2>1, <3>7 DEF Implements, Life!Next
  <2> QED BY <1>3, <2>3, <2>4, StopReleaseEffect
<1>4. CASE StopReturns(s)
  <2>1. UNCHANGED <<deployments, heap, containers, pc, dep>>
    BY <1>4 DEF StopReturns, tableVars, workerVars
  <2>2. \A o \in Ids : Stage(o)' = Stage(o)
    BY <2>1, SameStage DEF Unpublished
  <2> QED BY <2>1, <2>2, NoStage
<1> QED BY <1>1, <1>2, <1>3, <1>4 DEF Stop

LEMMA LifeStep ==
    ASSUME Orderly
    PROVE  RInv /\ RInv' /\ [Next]_vars => Implements
<1> SUFFICES ASSUME RInv, RInv', [Next]_vars PROVE Implements
  OBVIOUS
<1>1. ASSUME NEW w \in Workers, Schedule(w) PROVE Implements
  BY <1>1, LifeAdmit, LifeRegister, LifeProgress, LifeFails, LifeRuns, LifePublish,
     LifeReturns DEF Schedule
<1>2. ASSUME NEW s \in Stoppers, Stop(s) PROVE Implements
  BY <1>2, LifeStop
<1>3. CASE ContainerExits
  BY <1>3, LifeEnds DEF ContainerExits, tableVars, workerVars
<1>4. CASE UNCHANGED vars
  <2>1. UNCHANGED <<deployments, heap, containers, pc, dep>>
    BY <1>4 DEF vars, tableVars, workerVars
  <2>2. \A o \in Ids : Stage(o)' = Stage(o)
    BY <2>1, SameStage DEF Unpublished
  <2> QED BY <2>1, <2>2, NoStage
<1> QED BY <1>1, <1>2, <1>3, <1>4 DEF Next

LEMMA LifeInit ==
    ASSUME Init
    PROVE  Life!Init
<1>1. \A o \in Ids : Stage(o) = "none"
  BY DEF Init, Stage, InTable
<1> QED BY <1>1 DEF Init, Life!Init

\* The scheduler implements the life of a deployment: in every interleaving of
\* any number of Schedule and Stop calls, each step takes one deployment one
\* stage further, or none.
THEOREM SchedulerImplementsLifecycle ==
    ASSUME Orderly
    PROVE  Spec => ImplementsLifecycle
<1>1. Init => Life!Init
  BY LifeInit
<1>2. RInv /\ RInv' /\ [Next]_vars => [Life!Next]_<<stageBar, containers>>
  BY LifeStep DEF Implements
<1>3. Spec => []RInv
  BY RInvariance
<1> QED
  BY <1>1, <1>2, <1>3, PTL DEF Spec, ImplementsLifecycle, Life!Spec, stageBar
==============================================================================
