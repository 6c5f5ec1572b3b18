------------------------------- MODULE Limits -------------------------------
(***************************************************************************)
(* The resource limits of a deployment, from the flags of `peerctl deploy' *)
(* (cmd/peerctl/deploy.go) to the accounts of the scheduler                *)
(* (internal/scheduler/scheduler.go), with the widths of the code: every   *)
(* limit and both accounts are int64, here integers of W bits.             *)
(*                                                                         *)
(* Schedule gives the mutex back between CanSchedule and the charge, so    *)
(* several calls may have passed the check before any of them is charged.  *)
(* A call is held from its charge to its failure or stop, and docker looks *)
(* at its limits only while it is held.                                    *)
(***************************************************************************)
EXTENDS Integers, FiniteSets

CONSTANTS
    W,          \* the width of an int64
    Kilo,       \* 1024
    Fine,       \* steps of the --cpu flag per millicore
    MaxCores,   \* the 32 CPUs of parseCPU, in millicores
    MinMemory,  \* the 4MB of validateConfig
    maxCPU, maxMemory,  \* the budgets of the scheduler
    maxSlots,   \* its deployment slots
    Calls,      \* calls of Schedule, each with the deployment it makes
    Handlers,   \* the most calls that are between check and charge at a time
    CPUFlags,   \* values of --cpu: in steps, or NaN
    MemFlags,   \* values of --memory: [value, unit]
    NaN, None

MaxInt == 2^(W - 1) - 1
MinInt == -(2^(W - 1))
Int64 == MinInt..MaxInt

Stages == {"checked", "starting", "running"}

ASSUME LimitsAssumption ==
    /\ W \in Nat \ {0} /\ Kilo \in Nat \ {0} /\ Fine \in Nat \ {0}
    /\ MaxCores \in 1..MaxInt /\ MinMemory \in 1..MaxInt
    /\ maxCPU \in 0..MaxInt /\ maxMemory \in 0..MaxInt /\ maxSlots \in Nat
    /\ Handlers \in Nat \ {0}
    /\ Handlers * maxCPU + MaxCores <= MaxInt
    /\ Handlers * maxMemory <= MaxInt
    /\ CPUFlags \subseteq Int \cup {NaN}
    /\ MemFlags \subseteq [value : Int64, unit : {"K", "M", "G", "T"}]
    /\ IsFiniteSet(Calls)
    /\ None \notin [cpu : Int64, mem : Int64, at : Stages]

\* True of every width; the proofs know no more of powers of two.
ASSUME WidthAssumption ==
    2^(W - 1) \in Nat \ {0} /\ 2^W = 2 * 2^(W - 1)

VARIABLES
    call,                   \* per call: its limits and how far it is
    usedCPU, usedMemory,    \* Scheduler.usedCPU, Scheduler.usedMemory
    nan,        \* history: a call that is not over entered beside a NaN
    wild        \* history: one entered beside a memory limit that is negative
                \*   or may overflow the account

vars == <<call, usedCPU, usedMemory, nan, wild>>

\* What parseCPU lets through: a number of cores, or what a NaN becomes.
CPULimits == 0..MaxCores \cup {MinInt}

Request == [cpu : CPULimits, mem : Int64, at : Stages]

LimitsTypeOK ==
    /\ call \in [Calls -> Request \cup {None}]
    /\ usedCPU \in Int64 /\ usedMemory \in Int64
    /\ nan \in BOOLEAN /\ wild \in BOOLEAN

Open == {c \in Calls : call[c] # None}
Checked == {c \in Open : call[c].at = "checked"}
Held == Open \ Checked

-----------------------------------------------------------------------------
\* The value an int64 takes.
Wrap(x) == ((x - MinInt) % 2^W) + MinInt

\* Mutant: the upper bound is not checked.
parseCPUUnbounded(x) ==
    IF x = NaN THEN {MinInt, 0}
    ELSE IF x <= 0 THEN {}
    ELSE {Wrap(x \div Fine)}

\* Mutant: the lower bound is not checked.
parseCPUSigned(x) ==
    IF x = NaN THEN {MinInt, 0}
    ELSE IF x > MaxCores * Fine THEN {}
    ELSE {x \div Fine}

\* The results parseCPU may return, none if it refuses the flag.  The double
\* nearest to a number of millicores may lie just below it, and then one is
\* lost.  NaN passes both comparisons, and int64(NaN) is what the machine
\* makes of it.
parseCPU(x) ==
    IF x = NaN THEN {MinInt, 0}
    ELSE IF x <= 0 \/ x > MaxCores * Fine THEN {}
    ELSE {x \div Fine} \cup
           (IF x % Fine = 0 /\ x > Fine THEN {x \div Fine - 1} ELSE {})

\* The results parseMemory may return: the product in int64, whatever its sign.
parseMemory(f) ==
    CASE f.unit = "K" -> {Wrap(f.value * Kilo)}
      [] f.unit = "M" -> {Wrap(f.value * Kilo * Kilo)}
      [] f.unit = "G" -> {Wrap(f.value * Kilo * Kilo * Kilo)}
      [] OTHER -> {}

\* Mutant: each request is compared with the whole budget.
CanScheduleEach(cpu, mem) ==
    /\ Cardinality(Held) < maxSlots
    /\ cpu <= maxCPU
    /\ mem <= maxMemory

\* The sums are computed in int64 before they are compared.
CanSchedule(cpu, mem) ==
    /\ Cardinality(Held) < maxSlots
    /\ Wrap(usedCPU + cpu) <= maxCPU
    /\ Wrap(usedMemory + mem) <= maxMemory

\* A command is run with the two flags, and its request passes CanSchedule.
\* Handlers bounds how many calls are past it at a time.
Check(c, x, f) ==
    /\ call[c] = None /\ Cardinality(Checked) < Handlers
    /\ \E cpu \in parseCPU(x), mem \in parseMemory(f) :
         /\ CanSchedule(cpu, mem)
         /\ call' = [call EXCEPT ![c] = [cpu |-> cpu, mem |-> mem, at |-> "checked"]]
         /\ wild' = (wild \/ mem \notin 0..(MaxInt - Handlers * maxMemory))
    /\ nan' = (nan \/ x = NaN)
    /\ UNCHANGED <<usedCPU, usedMemory>>

\* The mutex is taken again and the request charged, whatever the accounts say
\* by then.
Charge(c) ==
    /\ c \in Checked
    /\ call' = [call EXCEPT ![c].at = "starting"]
    /\ usedCPU' = Wrap(usedCPU + call[c].cpu)
    /\ usedMemory' = Wrap(usedMemory + call[c].mem)
    /\ UNCHANGED <<nan, wild>>

validateConfig(r) == r.cpu > 0 /\ r.mem > 0 /\ r.mem >= MinMemory

\* docker run is given the limits and starts the container.
Run(c) ==
    /\ c \in Held /\ call[c].at = "starting" /\ validateConfig(call[c])
    /\ call' = [call EXCEPT ![c].at = "running"]
    /\ UNCHANGED <<usedCPU, usedMemory, nan, wild>>

\* Mutant: the accounts are kept from going below zero.
ReleaseClamped(c) ==
    /\ c \in Held
    /\ usedCPU' = (IF usedCPU < call[c].cpu THEN 0 ELSE Wrap(usedCPU - call[c].cpu))
    /\ usedMemory' = (IF usedMemory < call[c].mem THEN 0 ELSE Wrap(usedMemory - call[c].mem))
    /\ call' = [call EXCEPT ![c] = None]
    /\ nan' = (nan /\ Open # {c}) /\ wild' = (wild /\ Open # {c})

\* failDeployment, which a refusal of validateConfig leads to, or Stop.
Release(c) ==
    /\ c \in Held
    /\ usedCPU' = Wrap(usedCPU - call[c].cpu)
    /\ usedMemory' = Wrap(usedMemory - call[c].mem)
    /\ call' = [call EXCEPT ![c] = None]
    /\ nan' = (nan /\ Open # {c}) /\ wild' = (wild /\ Open # {c})

LimitsInit ==
    /\ call = [c \in Calls |-> None]
    /\ usedCPU = 0 /\ usedMemory = 0 /\ nan = FALSE /\ wild = FALSE

LimitsNext ==
    \E c \in Calls :
        \/ \E x \in CPUFlags, f \in MemFlags : Check(c, x, f)
        \/ Charge(c) \/ Run(c) \/ Release(c)

LimitsSpec == LimitsInit /\ [][LimitsNext]_vars

-----------------------------------------------------------------------------
(* Properties *)

\* The sum of f over the calls, for values of the width: its units above zero
\* less those below.
Total(f) ==
    Cardinality({u \in Calls \X (1..-MinInt) : u[2] <= f[u[1]]})
      - Cardinality({u \in Calls \X (1..-MinInt) : u[2] <= -f[u[1]]})

HeldCPUs == [c \in Calls |-> IF c \in Held THEN call[c].cpu ELSE 0]
HeldMemories == [c \in Calls |-> IF c \in Held THEN call[c].mem ELSE 0]

HeldCPU == Total(HeldCPUs)
HeldMemory == Total(HeldMemories)

(***************************************************************************)
(* An account that has overflowed, or gone below zero, still comes back:   *)
(* it is the sum of what is held, modulo the width, and zero when nothing  *)
(* is, in whatever order deployments are charged, fail and are stopped.    *)
(***************************************************************************)
BooksBalance ==
    usedCPU = Wrap(HeldCPU) /\ usedMemory = Wrap(HeldMemory)

(***************************************************************************)
(* The calls that pass CanSchedule before any of them is charged are all   *)
(* measured against the same free CPU, so as many budgets may be promised  *)
(* as calls were in that gap together, and no more, whatever the command   *)
(* line says, NaN apart: the bounds of parseCPU keep the sum of            *)
(* CanSchedule from overflowing even then.                                 *)
(***************************************************************************)
CPUBudget == ~nan => HeldCPU \in 0..(Handlers * maxCPU)

(***************************************************************************)
(* So it is with the memory, unless a limit was negative or large enough   *)
(* for the sum to overflow: parseMemory and CanSchedule check neither, and *)
(* such a request opens the budget to others until it is released.         *)
(***************************************************************************)
MemoryBudget == ~wild => HeldMemory \in 0..(Handlers * maxMemory)
=============================================================================
