----------------------------- MODULE LimitsProofs -----------------------------
(***************************************************************************)
(* Proofs about Limits: for integers of any width, any budgets and flags,  *)
(* and any number of deployments, the accounts are right modulo the width, *)
(* and the budgets are kept where the code can keep them.                  *)
(***************************************************************************)
EXTENDS Limits, FiniteSetTheorems, TLAPS

\* What has passed CanSchedule, charged or not: a charge moves a call from the
\* one kind to the other and leaves these sums alone.
OpenCPUs == [c \in Calls |-> IF c \in Open THEN call[c].cpu ELSE 0]
OpenMemories == [c \in Calls |-> IF c \in Open THEN call[c].mem ELSE 0]

CPUsBounded ==
    ~nan => /\ OpenCPUs \in [Calls -> 0..maxCPU]
            /\ Total(OpenCPUs) \in 0..(Handlers * maxCPU)

MemoriesBounded ==
    ~wild => /\ OpenMemories \in [Calls -> 0..maxMemory]
             /\ Total(OpenMemories) \in 0..(Handlers * maxMemory)

GapBounded == Cardinality(Checked) <= Handlers

LInv == LimitsTypeOK /\ BooksBalance /\ GapBounded /\ CPUsBounded /\ MemoriesBounded

-----------------------------------------------------------------------------
(* Integers of W bits *)

LEMMA Widths ==
    /\ MaxInt \in Nat /\ MinInt \in Int /\ MinInt = -MaxInt - 1
    /\ 2^W \in Nat /\ 2^W > 0 /\ 2^W = 2 * MaxInt + 2
    /\ 0 \in Int64 /\ MinInt \in Int64
    /\ \A x \in Int : x \in Int64 <=> MinInt <= x /\ x <= MaxInt
    /\ Int64 \subseteq Int
<1>1. PICK h \in Nat \ {0} : h = 2^(W - 1) /\ 2^W = 2 * h
  BY WidthAssumption DEF WidthAssumption
<1>2. MaxInt = h - 1 /\ MinInt = -h
  BY <1>1 DEF MaxInt, MinInt
<1> HIDE DEF MaxInt, MinInt
<1> QED BY <1>1, <1>2 DEF Int64

\* Division with remainder by a positive number, and its uniqueness.
LEMMA Division ==
    ASSUME NEW m \in Nat, m > 0, NEW x \in Int
    PROVE  /\ x % m \in 0..(m - 1) /\ x \div m \in Int
           /\ x = m * (x \div m) + (x % m)
  OBVIOUS

LEMMA RemainderUnique ==
    ASSUME NEW m \in Nat, m > 0, NEW q \in Int, NEW p \in Int,
           NEW r \in 0..(m - 1), NEW t \in 0..(m - 1), m * q + r = m * p + t
    PROVE  r = t
<1>1. m * (q - p) = t - r
  OBVIOUS
<1>2. CASE q - p >= 1
  <2>1. m * (q - p) >= m
    BY <1>2
  <2> QED BY <1>1, <2>1
<1>3. CASE q - p <= -1
  <2>1. m * (q - p) <= -m
    BY <1>3
  <2> QED BY <1>1, <2>1
<1>4. CASE q - p = 0
  BY <1>4
<1> QED BY <1>2, <1>3, <1>4

\* Wrap yields the one integer of the width that differs from its argument by
\* a multiple of 2^W.
LEMMA WrapFacts ==
    ASSUME NEW x \in Int
    PROVE  Wrap(x) \in Int64 /\ \E k \in Int : x = 2^W * k + Wrap(x)
<1>1. PICK m \in Nat : m = 2^W /\ m > 0 /\ m = 2 * MaxInt + 2
  BY Widths
<1>2. /\ (x - MinInt) % m \in 0..(m - 1) /\ (x - MinInt) \div m \in Int
      /\ x - MinInt = m * ((x - MinInt) \div m) + ((x - MinInt) % m)
  <2>1. x - MinInt \in Int
    BY Widths
  <2> QED BY <1>1, <2>1, Division
<1>3. PICK r \in 0..(m - 1), k \in Int : r = (x - MinInt) % m /\ x - MinInt = m * k + r
  BY <1>2
<1>4. Wrap(x) = r + MinInt
  BY <1>1, <1>3 DEF Wrap
<1>5. Wrap(x) \in Int64
  BY <1>1, <1>3, <1>4, Widths
<1>6. m * k \in Int
  BY <1>1, <1>3
<1>7. x = m * k + Wrap(x)
  BY <1>3, <1>4, <1>6, Widths
<1> QED BY <1>1, <1>5, <1>7

LEMMA WrapUnique ==
    ASSUME NEW x \in Int, NEW y \in Int64, NEW k \in Int, x = 2^W * k + y
    PROVE  Wrap(x) = y
<1>1. PICK m \in Nat : m = 2^W /\ m > 0 /\ m = 2 * MaxInt + 2
  BY Widths
<1>2. PICK j \in Int : x = m * j + Wrap(x) /\ Wrap(x) \in Int64
  BY <1>1, WrapFacts
<1>3. /\ y - MinInt \in 0..(m - 1) /\ Wrap(x) - MinInt \in 0..(m - 1)
      /\ y \in Int /\ Wrap(x) \in Int /\ m * j \in Int /\ m * k \in Int
  <2>1. y \in Int /\ Wrap(x) \in Int
    BY <1>2, Widths
  <2>2. MinInt <= y /\ y <= MaxInt /\ MinInt <= Wrap(x) /\ Wrap(x) <= MaxInt
    BY <1>2, <2>1, Widths
  <2>3. m * j \in Int /\ m * k \in Int
    BY <1>1
  <2> QED BY <1>1, <2>1, <2>2, <2>3, Widths
<1>4. m * j + (Wrap(x) - MinInt) = m * k + (y - MinInt)
  BY <1>1, <1>2, <1>3, Widths
<1>5. Wrap(x) - MinInt = y - MinInt
  BY <1>1, <1>3, <1>4, RemainderUnique
<1> QED BY <1>3, <1>5, Widths

LEMMA WrapKeeps == ASSUME NEW x \in Int64 PROVE Wrap(x) = x
<1>1. x \in Int /\ x = 2^W * 0 + x
  BY Widths
<1> QED BY <1>1, WrapUnique

\* An overflow on the way does not change where a sum ends.
LEMMA WrapAdd ==
    ASSUME NEW x \in Int, NEW y \in Int
    PROVE  Wrap(Wrap(x) + y) = Wrap(x + y)
<1>1. PICK m \in Nat : m = 2^W
  BY Widths
<1>2. PICK k \in Int : x = m * k + Wrap(x) /\ Wrap(x) \in Int64
  BY <1>1, WrapFacts
<1>3. PICK j \in Int : Wrap(x) + y = m * j + Wrap(Wrap(x) + y) /\ Wrap(Wrap(x) + y) \in Int64
  <2>1. Wrap(x) \in Int
    BY <1>2, Widths
  <2>2. Wrap(x) + y \in Int
    BY <2>1
  <2> QED BY <1>1, <2>2, WrapFacts
<1>4. Wrap(x) \in Int /\ Wrap(Wrap(x) + y) \in Int /\ m * j \in Int /\ m * k \in Int
  <2>1. Wrap(x) \in Int /\ Wrap(Wrap(x) + y) \in Int
    BY <1>2, <1>3, Widths
  <2>2. m * j \in Int /\ m * k \in Int
    BY <1>1
  <2> QED BY <2>1, <2>2
<1>5. m * (k + j) = m * k + m * j
  BY <1>1, <1>2, <1>3
<1>6. x + y = m * (k + j) + Wrap(Wrap(x) + y)
  BY <1>2, <1>3, <1>4, <1>5
<1>7. k + j \in Int /\ x + y \in Int
  BY <1>2, <1>3
<1> QED BY <1>1, <1>3, <1>6, <1>7, WrapUnique

-----------------------------------------------------------------------------
(* The sum over the calls *)

\* The values of the width and their negatives.
Reach == MinInt..-MinInt

Pos(k) == IF k > 0 THEN k ELSE 0

Units(f) == {u \in Calls \X (1..-MinInt) : u[2] <= f[u[1]]}
UnitsOf(s, k) == {u \in {s} \X (1..-MinInt) : u[2] <= k}

LEMMA ReachFacts ==
    /\ -MinInt \in Nat /\ 0 \in Reach
    /\ \A k \in Reach : k \in Int /\ -k \in Reach /\ k <= -MinInt
    /\ \A k \in Int64 : k \in Reach
  BY Widths DEF Reach

\* A value at s has as many units as its positive part.
LEMMA UnitsOfSize ==
    ASSUME NEW s \in Calls, NEW k \in Reach
    PROVE  IsFiniteSet(UnitsOf(s, k)) /\ Cardinality(UnitsOf(s, k)) = Pos(k)
<1>0. k \in Int /\ k <= -MinInt /\ -MinInt \in Nat
  BY ReachFacts
<1>1. UnitsOf(s, k) = {s} \X (1..k)
  BY <1>0 DEF UnitsOf
<1>2. IsFiniteSet({s}) /\ Cardinality({s}) = 1
  BY FS_Singleton
<1>3. IsFiniteSet(1..k) /\ Cardinality(1..k) = Pos(k)
  <2>1. /\ IsFiniteSet(1..k)
        /\ Cardinality(1..k) = IF 1 > k THEN 0 ELSE k - 1 + 1
    BY <1>0, FS_Interval
  <2> QED BY <1>0, <2>1 DEF Pos
<1>4. /\ IsFiniteSet({s} \X (1..k))
      /\ Cardinality({s} \X (1..k)) = Cardinality({s}) * Cardinality(1..k)
  BY <1>2, <1>3, FS_Product
<1>5. Pos(k) \in Nat
  BY <1>0 DEF Pos
<1>6. 1 * Pos(k) = Pos(k)
  BY <1>5
<1> QED BY <1>1, <1>2, <1>3, <1>4, <1>6

LEMMA DisjointUnion ==
    ASSUME NEW S, NEW T, IsFiniteSet(S), IsFiniteSet(T), S \cap T = {}
    PROVE  /\ Cardinality(S) \in Nat /\ Cardinality(T) \in Nat
           /\ Cardinality(S \cup T) = Cardinality(S) + Cardinality(T)
<1>1. Cardinality(S) \in Nat /\ Cardinality(T) \in Nat
  BY FS_CardinalityType
<1>2. Cardinality(S \cap T) = 0
  BY FS_EmptySet
<1>3. Cardinality(S \cup T) = Cardinality(S) + Cardinality(T) - Cardinality(S \cap T)
  BY FS_Union
<1> QED BY <1>1, <1>2, <1>3

\* Changing one value moves the number of units by the difference.
LEMMA UnitsUpdate ==
    ASSUME NEW f \in [Calls -> Reach], NEW s \in Calls, NEW v \in Reach
    PROVE  /\ Cardinality(Units(f)) \in Nat
           /\ Cardinality(Units([f EXCEPT ![s] = v])) =
                Cardinality(Units(f)) - Pos(f[s]) + Pos(v)
<1> DEFINE g == [f EXCEPT ![s] = v]
           Rest == {u \in (Calls \ {s}) \X (1..-MinInt) : u[2] <= f[u[1]]}
<1>1. Units(f) = Rest \cup UnitsOf(s, f[s]) /\ Rest \cap UnitsOf(s, f[s]) = {}
  BY DEF Units, UnitsOf
<1>2. Units(g) = Rest \cup UnitsOf(s, v) /\ Rest \cap UnitsOf(s, v) = {}
  BY DEF Units, UnitsOf
<1>3. IsFiniteSet(Rest)
  <2>1. IsFiniteSet(1..-MinInt)
    BY ReachFacts, FS_Interval
  <2>2. IsFiniteSet(Calls \X (1..-MinInt))
    BY <2>1, LimitsAssumption, FS_Product DEF LimitsAssumption
  <2>3. Rest \subseteq Calls \X (1..-MinInt)
    OBVIOUS
  <2> QED BY <2>2, <2>3, FS_Subset
<1> HIDE DEF Rest, g
<1>4. f[s] \in Reach
  OBVIOUS
<1>5. IsFiniteSet(UnitsOf(s, f[s])) /\ Cardinality(UnitsOf(s, f[s])) = Pos(f[s])
  BY <1>4, UnitsOfSize
<1>6. IsFiniteSet(UnitsOf(s, v)) /\ Cardinality(UnitsOf(s, v)) = Pos(v)
  BY UnitsOfSize
<1>7. Cardinality(Rest) \in Nat
  BY <1>3, FS_CardinalityType
<1>8. Cardinality(Units(f)) = Cardinality(Rest) + Pos(f[s])
  BY <1>1, <1>3, <1>5, DisjointUnion
<1>9. Cardinality(Units(g)) = Cardinality(Rest) + Pos(v)
  BY <1>2, <1>3, <1>6, DisjointUnion
<1>10. Pos(f[s]) \in Nat /\ Pos(v) \in Nat
  BY <1>4, ReachFacts DEF Pos
<1> QED BY <1>7, <1>8, <1>9, <1>10 DEF g

\* Changing one value moves the total by the difference.
LEMMA TotalUpdate ==
    ASSUME NEW f \in [Calls -> Int64], NEW s \in Calls, NEW v \in Int64
    PROVE  Total(f) \in Int /\ Total([f EXCEPT ![s] = v]) = Total(f) - f[s] + v
<1> DEFINE neg == [t \in Calls |-> -f[t]]
           g == [f EXCEPT ![s] = v]
           ng == [t \in Calls |-> -g[t]]
<1>0. f \in [Calls -> Reach] /\ v \in Reach
  BY ReachFacts
<1>1. /\ neg \in [Calls -> Reach] /\ -v \in Reach /\ neg[s] = -f[s]
      /\ f[s] \in Int /\ v \in Int
  BY <1>0, ReachFacts
<1>2. ng = [neg EXCEPT ![s] = -v]
  OBVIOUS
<1>3. Total(f) = Cardinality(Units(f)) - Cardinality(Units(neg))
  <2>1. Units(neg) = {u \in Calls \X (1..-MinInt) : u[2] <= -f[u[1]]}
    BY DEF Units
  <2> QED BY <2>1 DEF Total, Units
<1>4. Total(g) = Cardinality(Units(g)) - Cardinality(Units(ng))
  <2>1. Units(ng) = {u \in Calls \X (1..-MinInt) : u[2] <= -g[u[1]]}
    BY DEF Units
  <2> QED BY <2>1 DEF Total, Units
<1>5. /\ Cardinality(Units(f)) \in Nat
      /\ Cardinality(Units(g)) = Cardinality(Units(f)) - Pos(f[s]) + Pos(v)
  BY <1>0, UnitsUpdate
<1>6. /\ Cardinality(Units(neg)) \in Nat
      /\ Cardinality(Units(ng)) = Cardinality(Units(neg)) - Pos(-f[s]) + Pos(-v)
  <2> HIDE DEF neg, ng
  <2> QED BY <1>1, <1>2, UnitsUpdate
<1>7. /\ Pos(f[s]) - Pos(-f[s]) = f[s] /\ Pos(v) - Pos(-v) = v
      /\ Pos(f[s]) \in Nat /\ Pos(v) \in Nat /\ Pos(-f[s]) \in Nat /\ Pos(-v) \in Nat
  BY <1>1 DEF Pos
<1> HIDE DEF neg, ng, g
<1> QED BY <1>1, <1>3, <1>4, <1>5, <1>6, <1>7 DEF g

\* The total of nothing, and of what is not negative.
LEMMA TotalZero == Total([s \in Calls |-> 0]) = 0
<1> DEFINE z == [s \in Calls |-> 0]
<1>1. /\ {u \in Calls \X (1..-MinInt) : u[2] <= z[u[1]]} = {}
      /\ {u \in Calls \X (1..-MinInt) : u[2] <= -z[u[1]]} = {}
  BY ReachFacts
<1>2. Cardinality({}) = 0
  BY FS_EmptySet
<1> HIDE DEF z
<1>3. Total(z) = Cardinality({}) - Cardinality({})
  BY <1>1 DEF Total
<1> QED BY <1>2, <1>3 DEF z

LEMMA TotalNatural ==
    ASSUME NEW f \in [Calls -> Nat], f \in [Calls -> Int64]
    PROVE  Total(f) \in Nat
<1>1. {u \in Calls \X (1..-MinInt) : u[2] <= -f[u[1]]} = {}
  BY ReachFacts
<1>2. Cardinality({}) = 0
  BY FS_EmptySet
<1>3. Cardinality(Units(f)) \in Nat
  <2>1. f \in [Calls -> Reach]
    BY ReachFacts
  <2>2. CASE Calls = {}
    <3>1. Units(f) = {}
      BY <2>2 DEF Units
    <3> QED BY <1>2, <3>1
  <2>3. CASE Calls # {}
    BY <2>1, <2>3, UnitsUpdate, ReachFacts
  <2> QED BY <2>2, <2>3
<1>4. Total(f) = Cardinality(Units(f)) - Cardinality({})
  BY <1>1 DEF Total, Units
<1> QED BY <1>2, <1>3, <1>4

\* A sum of naturals splits into that over S and that over the rest, and over
\* S it is at most the largest value as often as S has members.
LEMMA TotalSplit ==
    ASSUME NEW bound \in Nat, bound <= MaxInt, NEW f \in [Calls -> 0..bound], NEW S \in SUBSET Calls,
           NEW g, g = [c \in Calls |-> IF c \in S THEN f[c] ELSE 0],
           NEW h, h = [c \in Calls |-> IF c \in S THEN 0 ELSE f[c]]
    PROVE  /\ Total(f) = Total(g) + Total(h) /\ Total(g) \in Nat /\ Total(h) \in Nat
           /\ IsFiniteSet(S) /\ Cardinality(S) \in Nat /\ Total(g) <= Cardinality(S) * bound
<1>0. MaxInt \in Nat /\ -MinInt = MaxInt + 1 /\ 0..bound \subseteq Nat /\ 0..bound \subseteq Int64
  BY Widths
<1>1. ASSUME NEW k \in [Calls -> 0..bound]
      PROVE  Total(k) = Cardinality(Units(k)) /\ IsFiniteSet(Units(k)) /\ Total(k) \in Nat
  <2>1. {u \in Calls \X (1..-MinInt) : u[2] <= -k[u[1]]} = {}
    BY <1>0
  <2>2. Cardinality({}) = 0
    BY FS_EmptySet
  <2>3. IsFiniteSet(Units(k))
    <3>1. IsFiniteSet(1..-MinInt)
      BY ReachFacts, FS_Interval
    <3>2. IsFiniteSet(Calls \X (1..-MinInt))
      BY <3>1, LimitsAssumption, FS_Product DEF LimitsAssumption
    <3>3. Units(k) \subseteq Calls \X (1..-MinInt)
      BY DEF Units
    <3> QED BY <3>2, <3>3, FS_Subset
  <2>4. Cardinality(Units(k)) \in Nat
    BY <2>3, FS_CardinalityType
  <2>5. Total(k) = Cardinality(Units(k)) - Cardinality({})
    BY <2>1 DEF Total, Units
  <2> QED BY <2>2, <2>3, <2>4, <2>5
<1>2. g \in [Calls -> 0..bound] /\ h \in [Calls -> 0..bound]
  OBVIOUS
<1>3. Units(f) = Units(g) \cup Units(h) /\ Units(g) \cap Units(h) = {}
  <2>1. ASSUME NEW u \in Calls \X (1..-MinInt)
        PROVE  /\ u[2] <= f[u[1]] <=> u[2] <= g[u[1]] \/ u[2] <= h[u[1]]
               /\ ~(u[2] <= g[u[1]] /\ u[2] <= h[u[1]])
    <3>1. u[1] \in Calls /\ u[2] \in 1..-MinInt /\ u[2] > 0 /\ u[2] \in Int
      BY <1>0
    <3>2. CASE u[1] \in S
      <4>1. g[u[1]] = f[u[1]] /\ h[u[1]] = 0
        BY <3>1, <3>2
      <4> QED BY <3>1, <4>1
    <3>3. CASE u[1] \notin S
      <4>1. h[u[1]] = f[u[1]] /\ g[u[1]] = 0
        BY <3>1, <3>3
      <4> QED BY <3>1, <4>1
    <3> QED BY <3>2, <3>3
  <2> QED BY <2>1 DEF Units
<1>4. Cardinality(Units(f)) = Cardinality(Units(g)) + Cardinality(Units(h))
  BY <1>1, <1>2, <1>3, DisjointUnion
<1>5. IsFiniteSet(S) /\ Cardinality(S) \in Nat
  <2>1. IsFiniteSet(S)
    BY LimitsAssumption, FS_Subset DEF LimitsAssumption
  <2> QED BY <2>1, FS_CardinalityType
<1>6. Cardinality(Units(g)) <= Cardinality(S) * bound
  <2>1. IsFiniteSet(1..bound) /\ Cardinality(1..bound) = bound
    <3>1. IsFiniteSet(1..bound) /\ Cardinality(1..bound) = IF 1 > bound THEN 0 ELSE bound - 1 + 1
      BY FS_Interval
    <3> QED BY <3>1
  <2>2. /\ IsFiniteSet(S \X (1..bound))
        /\ Cardinality(S \X (1..bound)) = Cardinality(S) * Cardinality(1..bound)
    BY <1>5, <2>1, FS_Product
  <2>3. Units(g) \subseteq S \X (1..bound)
    <3>1. ASSUME NEW u \in Calls \X (1..-MinInt), u[2] <= g[u[1]]
          PROVE  u \in S \X (1..bound)
      <4>1. u[1] \in Calls /\ u[2] \in Int /\ u[2] > 0 /\ u = <<u[1], u[2]>>
        BY <1>0
      <4>2. u[1] \in S
        BY <3>1, <4>1
      <4>3. u[2] <= bound
        BY <3>1, <4>1, <4>2
      <4> QED BY <4>1, <4>2, <4>3
    <3> QED BY <3>1 DEF Units
  <2>4. Cardinality(Units(g)) <= Cardinality(S \X (1..bound))
    BY <2>2, <2>3, FS_Subset
  <2> QED BY <2>1, <2>2, <2>4
<1>7. Total(f) = Cardinality(Units(f)) /\ Total(g) = Cardinality(Units(g)) /\ Total(g) \in Nat
      /\ Total(h) = Cardinality(Units(h)) /\ Total(h) \in Nat
  BY <1>1, <1>2
<1> QED BY <1>4, <1>5, <1>6, <1>7

-----------------------------------------------------------------------------
(* The parsers *)

\* Whatever parseMemory returns is an int64; what parseCPU makes of a number is
\* within the cores it allows.
LEMMA ParserResults ==
    /\ \A x \in CPUFlags : parseCPU(x) \subseteq CPULimits
    /\ CPULimits \subseteq Int64
    /\ \A x \in CPUFlags : x # NaN => parseCPU(x) \subseteq 0..MaxCores
    /\ \A f \in MemFlags : parseMemory(f) \subseteq Int64
<1>0. /\ Fine \in Nat /\ Fine > 0 /\ Kilo \in Nat
      /\ MaxCores \in Nat /\ MaxCores <= MaxInt /\ MaxInt \in Nat
  BY LimitsAssumption, Widths DEF LimitsAssumption
<1>1. 0..MaxCores \subseteq Int64 /\ {MinInt, 0} \subseteq Int64
  BY <1>0, Widths
<1>2. ASSUME NEW x \in CPUFlags, x # NaN PROVE parseCPU(x) \subseteq 0..MaxCores
  <2>0. x \in Int
    BY <1>2, LimitsAssumption DEF LimitsAssumption
  <2>1. CASE x <= 0 \/ x > MaxCores * Fine
    BY <1>2, <2>1 DEF parseCPU
  <2>2. CASE x > 0 /\ x <= MaxCores * Fine
    <3>1. PICK q \in Int, r \in 0..(Fine - 1) :
            q = x \div Fine /\ r = x % Fine /\ x = Fine * q + r
      BY <1>0, <2>0, Division
    <3>2. q >= 0
      <4> SUFFICES ASSUME q <= -1 PROVE FALSE
        BY <3>1
      <4>1. Fine * q <= -Fine
        BY <1>0, <3>1
      <4> QED BY <1>0, <2>2, <3>1, <4>1
    <3>3. q <= MaxCores
      <4> SUFFICES ASSUME q >= MaxCores + 1 PROVE FALSE
        BY <1>0, <3>1
      <4>1. Fine * q >= Fine * (MaxCores + 1)
        BY <1>0, <3>1
      <4>2. Fine * (MaxCores + 1) = MaxCores * Fine + Fine
        BY <1>0
      <4> QED BY <1>0, <2>2, <3>1, <4>1, <4>2
    <3>4. x > Fine => q >= 1
      <4> SUFFICES ASSUME q = 0, x > Fine PROVE FALSE
        BY <3>1, <3>2
      <4>1. Fine * q = 0
        BY <1>0
      <4> QED BY <1>0, <3>1, <4>1
    <3>5. parseCPU(x) \subseteq {q} \cup (IF x > Fine THEN {q - 1} ELSE {})
      BY <1>2, <2>0, <2>2, <3>1 DEF parseCPU
    <3> QED BY <1>0, <3>1, <3>2, <3>3, <3>4, <3>5
  <2> QED BY <1>0, <2>0, <2>1, <2>2
<1>3. parseCPU(NaN) \subseteq CPULimits /\ CPULimits \subseteq Int64
  BY <1>0, <1>1 DEF parseCPU, CPULimits
<1>4. ASSUME NEW f \in MemFlags PROVE parseMemory(f) \subseteq Int64
  <2>1. f.value \in Int
    BY LimitsAssumption, Widths DEF LimitsAssumption
  <2>2. \A x \in Int : Wrap(x) \in Int64
    BY WrapFacts
  <2>3. PICK a \in Int, b \in Int, c \in Int :
          a = f.value * Kilo /\ b = f.value * Kilo * Kilo /\ c = f.value * Kilo * Kilo * Kilo
    <3>1. f.value * Kilo \in Int
      BY <1>0, <2>1
    <3>2. f.value * Kilo * Kilo \in Int
      BY <1>0, <3>1
    <3>3. f.value * Kilo * Kilo * Kilo \in Int
      BY <1>0, <3>2
    <3> QED BY <3>1, <3>2, <3>3
  <2>4. Wrap(a) \in Int64 /\ Wrap(b) \in Int64 /\ Wrap(c) \in Int64
    BY <2>2
  <2>5. parseMemory(f) \in {{Wrap(a)}, {Wrap(b)}, {Wrap(c)}, {}}
    BY <2>3 DEF parseMemory
  <2> QED BY <2>4, <2>5
<1>5. \A x \in CPUFlags : parseCPU(x) \subseteq CPULimits
  BY <1>2, <1>3 DEF CPULimits
<1> QED BY <1>2, <1>3, <1>4, <1>5

-----------------------------------------------------------------------------
(* One account: a check, a charge and a release *)

LEMMA Charging ==
    ASSUME NEW f \in [Calls -> Int64], NEW c \in Calls, NEW v \in Int64,
           NEW used \in Int64, f[c] = 0, used = Wrap(Total(f))
    PROVE  /\ Wrap(used + v) \in Int64
           /\ Wrap(used + v) = Wrap(Total([f EXCEPT ![c] = v]))
<1>1. v \in Int /\ used \in Int
  BY Widths
<1>2. Total(f) \in Int /\ Total([f EXCEPT ![c] = v]) = Total(f) + v
  <2>1. Total(f) \in Int /\ Total([f EXCEPT ![c] = v]) = Total(f) - f[c] + v
    BY TotalUpdate
  <2> QED BY <1>1, <2>1
<1> QED BY <1>1, <1>2, WrapAdd, WrapFacts

LEMMA Discharging ==
    ASSUME NEW f \in [Calls -> Int64], NEW c \in Calls,
           NEW used \in Int64, used = Wrap(Total(f))
    PROVE  /\ Wrap(used - f[c]) \in Int64
           /\ Wrap(used - f[c]) = Wrap(Total([f EXCEPT ![c] = 0]))
<1>1. f[c] \in Int /\ used \in Int /\ 0 \in Int64
  BY Widths
<1>2. Total(f) \in Int /\ Total([f EXCEPT ![c] = 0]) = Total(f) - f[c]
  <2>1. Total(f) \in Int /\ Total([f EXCEPT ![c] = 0]) = Total(f) - f[c] + 0
    BY <1>1, TotalUpdate
  <2> QED BY <1>1, <2>1
<1>3. -f[c] \in Int /\ used - f[c] = used + (-f[c])
      /\ Total(f) - f[c] = Total(f) + (-f[c])
  BY <1>1, <1>2
<1> QED BY <1>1, <1>2, <1>3, WrapAdd, WrapFacts

\* A request that passes the check, S being the calls that have passed it
\* uncharged and h the charged ones.  No sum wraps, so the free budget that is
\* compared is the true one but for the calls in S, and those are at most one
\* less than Handlers.
LEMMA CheckFits ==
    ASSUME NEW budget \in Nat, Handlers * budget <= MaxInt,
           NEW f \in [Calls -> 0..budget], NEW S \in SUBSET Calls,
           NEW h, NEW c \in Calls, NEW v \in Nat, NEW used \in Int64,
           h = [d \in Calls |-> IF d \in S THEN 0 ELSE f[d]],
           f[c] = 0, Cardinality(S) < Handlers,
           Total(f) \in 0..(Handlers * budget), used = Wrap(Total(h)),
           v <= MaxInt - Handlers * budget, Wrap(used + v) <= budget
    PROVE  v <= budget /\ Total([f EXCEPT ![c] = v]) \in 0..(Handlers * budget)
<1>0. Handlers \in Nat /\ Handlers >= 1 /\ MaxInt \in Nat /\ Handlers * budget \in Nat
  BY LimitsAssumption, Widths DEF LimitsAssumption
<1> DEFINE g == [d \in Calls |-> IF d \in S THEN f[d] ELSE 0]
<1>1. budget <= MaxInt
  <2>1. (Handlers - 1) * budget >= 0
    BY <1>0
  <2>2. Handlers * budget = (Handlers - 1) * budget + budget
    BY <1>0
  <2> QED BY <1>0, <2>1, <2>2
<1>2. /\ Total(f) = Total(g) + Total(h) /\ Total(g) \in Nat /\ Total(h) \in Nat
      /\ Cardinality(S) \in Nat /\ Total(g) <= Cardinality(S) * budget
  BY <1>1, TotalSplit
<1> HIDE DEF g
<1>3. Total(g) + budget <= Handlers * budget
  <2>1. PICK k \in Nat : Handlers = Cardinality(S) + 1 + k
    <3>1. Handlers - (Cardinality(S) + 1) \in Nat
      BY <1>0, <1>2
    <3> QED BY <1>0, <1>2, <3>1
  <2>2. k * budget \in Nat /\ Cardinality(S) * budget \in Nat
    BY <1>2
  <2>3. Handlers * budget = Cardinality(S) * budget + budget + k * budget
    BY <1>2, <2>1
  <2> QED BY <1>2, <2>2, <2>3
<1>4. used = Total(h) /\ Wrap(used + v) = used + v
  <2>1. Total(h) \in Int64
    BY <1>0, <1>2, Widths
  <2>2. used = Total(h)
    BY <2>1, WrapKeeps
  <2>3. used + v \in Int64
    BY <1>0, <1>2, <2>2, Widths
  <2> QED BY <2>2, <2>3, WrapKeeps
<1>5. Total([f EXCEPT ![c] = v]) = Total(f) + v
  <2>1. f \in [Calls -> Int64] /\ v \in Int64
    BY <1>0, <1>1, Widths
  <2>2. Total([f EXCEPT ![c] = v]) = Total(f) - f[c] + v
    BY <2>1, TotalUpdate
  <2> QED BY <1>2, <2>2
<1> QED BY <1>0, <1>2, <1>3, <1>4, <1>5

LEMMA ReleaseFits ==
    ASSUME NEW budget \in Nat, Handlers * budget <= MaxInt,
           NEW f \in [Calls -> 0..budget], NEW c \in Calls,
           Total(f) \in 0..(Handlers * budget)
    PROVE  /\ [f EXCEPT ![c] = 0] \in [Calls -> 0..budget]
           /\ Total([f EXCEPT ![c] = 0]) \in 0..(Handlers * budget)
<1>0. Handlers \in Nat /\ Handlers >= 1 /\ MaxInt \in Nat /\ Handlers * budget \in Nat
  BY LimitsAssumption, Widths DEF LimitsAssumption
<1>1. budget <= MaxInt
  <2>1. (Handlers - 1) * budget >= 0
    BY <1>0
  <2>2. Handlers * budget = (Handlers - 1) * budget + budget
    BY <1>0
  <2> QED BY <1>0, <2>1, <2>2
<1>2. f \in [Calls -> Int64] /\ f[c] \in Nat /\ 0 \in Int64
  BY <1>0, <1>1, Widths
<1>3. Total([f EXCEPT ![c] = 0]) = Total(f) - f[c]
  <2>1. Total([f EXCEPT ![c] = 0]) = Total(f) - f[c] + 0
    BY <1>2, TotalUpdate
  <2> QED BY <1>0, <1>2, <2>1
<1>4. [f EXCEPT ![c] = 0] \in [Calls -> 0..budget]
  OBVIOUS
<1>5. Total([f EXCEPT ![c] = 0]) \in Nat
  <2>1. [f EXCEPT ![c] = 0] \in [Calls -> Nat] /\ [f EXCEPT ![c] = 0] \in [Calls -> Int64]
    BY <1>2, <1>4
  <2> QED BY <2>1, TotalNatural
<1> QED BY <1>0, <1>2, <1>3, <1>4, <1>5

-----------------------------------------------------------------------------
(* The invariant *)

LEMMA CallFacts ==
    ASSUME LimitsTypeOK
    PROVE  /\ HeldCPUs \in [Calls -> Int64] /\ HeldMemories \in [Calls -> Int64]
           /\ \A c \in Open : call[c] \in Request /\ call[c].cpu \in Int64 /\ call[c].mem \in Int64
           /\ Checked \subseteq Open /\ Open \subseteq Calls /\ Held \subseteq Open
           /\ IsFiniteSet(Checked) /\ None \notin Request
           /\ HeldCPUs = [d \in Calls |-> IF d \in Checked THEN 0 ELSE OpenCPUs[d]]
           /\ HeldMemories = [d \in Calls |-> IF d \in Checked THEN 0 ELSE OpenMemories[d]]
<1>1. 0 \in Int64 /\ CPULimits \subseteq Int64
  BY Widths, ParserResults
<1>2. Checked \subseteq Open /\ Open \subseteq Calls /\ Held \subseteq Open
  BY DEF Checked, Open, Held
<1>3. \A c \in Open : call[c] \in Request /\ call[c].cpu \in Int64 /\ call[c].mem \in Int64
  BY <1>1 DEF LimitsTypeOK, Request, Open
<1>4. HeldCPUs \in [Calls -> Int64] /\ HeldMemories \in [Calls -> Int64]
  BY <1>1, <1>2, <1>3 DEF HeldCPUs, HeldMemories
<1>5. IsFiniteSet(Checked)
  BY <1>2, LimitsAssumption, FS_Subset DEF LimitsAssumption
<1>6. None \notin Request
  BY <1>1, LimitsAssumption DEF LimitsAssumption, Request
<1>7. /\ HeldCPUs = [d \in Calls |-> IF d \in Checked THEN 0 ELSE OpenCPUs[d]]
      /\ HeldMemories = [d \in Calls |-> IF d \in Checked THEN 0 ELSE OpenMemories[d]]
  BY DEF HeldCPUs, OpenCPUs, HeldMemories, OpenMemories, Held
<1> QED BY <1>2, <1>3, <1>4, <1>5, <1>6, <1>7

LEMMA Budgets ==
    /\ maxCPU \in Nat /\ MaxCores \in Nat /\ maxMemory \in Nat /\ MaxInt \in Nat
    /\ Handlers \in Nat /\ Handlers * maxCPU \in Nat /\ Handlers * maxMemory \in Nat
    /\ Handlers * maxCPU <= MaxInt /\ Handlers * maxMemory <= MaxInt
    /\ MaxCores <= MaxInt - Handlers * maxCPU
<1>1. /\ maxCPU \in Nat /\ MaxCores \in Nat /\ maxMemory \in Nat /\ MaxInt \in Nat
      /\ Handlers \in Nat /\ Handlers * maxCPU + MaxCores <= MaxInt
      /\ Handlers * maxMemory <= MaxInt
  BY LimitsAssumption, Widths DEF LimitsAssumption
<1>2. Handlers * maxCPU \in Nat /\ Handlers * maxMemory \in Nat
  BY <1>1
<1> QED BY <1>1, <1>2

LEMMA LimitsInitial == LimitsInit => LInv
<1> SUFFICES ASSUME LimitsInit PROVE LInv
  OBVIOUS
<1>1. LimitsTypeOK
  BY Widths DEF LimitsInit, LimitsTypeOK
<1>2. Open = {} /\ Checked = {}
  BY DEF LimitsInit, Open, Checked
<1>3. /\ HeldCPUs = [c \in Calls |-> 0] /\ HeldMemories = [c \in Calls |-> 0]
      /\ OpenCPUs = [c \in Calls |-> 0] /\ OpenMemories = [c \in Calls |-> 0]
  BY <1>2 DEF Held, HeldCPUs, HeldMemories, OpenCPUs, OpenMemories
<1>4. HeldCPU = 0 /\ HeldMemory = 0 /\ Total(OpenCPUs) = 0 /\ Total(OpenMemories) = 0
  BY <1>3, TotalZero DEF HeldCPU, HeldMemory
<1>5. Wrap(0) = 0
  BY Widths, WrapKeeps
<1>6. BooksBalance
  BY <1>4, <1>5 DEF LimitsInit, BooksBalance
<1>7. CPUsBounded /\ MemoriesBounded
  BY <1>3, <1>4, Budgets DEF CPUsBounded, MemoriesBounded
<1>8. GapBounded
  <2>1. Cardinality(Checked) = 0
    BY <1>2, FS_EmptySet
  <2> QED BY <2>1, Budgets DEF GapBounded
<1> QED BY <1>1, <1>6, <1>7, <1>8 DEF LInv

\* A call that passes the check is open and not held, so only the open sums
\* move.
LEMMA CheckKeeps ==
    ASSUME LInv, NEW c \in Calls, NEW x \in CPUFlags, NEW f \in MemFlags, Check(c, x, f)
    PROVE  LInv'
<1>0. LimitsTypeOK /\ BooksBalance /\ GapBounded /\ CPUsBounded /\ MemoriesBounded
  BY DEF LInv
<1>1. PICK cpu \in parseCPU(x), mem \in parseMemory(f) :
         /\ CanSchedule(cpu, mem)
         /\ call' = [call EXCEPT ![c] = [cpu |-> cpu, mem |-> mem, at |-> "checked"]]
         /\ wild' = (wild \/ mem \notin 0..(MaxInt - Handlers * maxMemory))
  BY DEF Check
<1>2. /\ call[c] = None /\ Cardinality(Checked) < Handlers
      /\ nan' = (nan \/ x = NaN) /\ usedCPU' = usedCPU /\ usedMemory' = usedMemory
  BY DEF Check
<1>3. cpu \in CPULimits /\ mem \in Int64 /\ (x # NaN => cpu \in 0..MaxCores)
  BY ParserResults
<1>4. [cpu |-> cpu, mem |-> mem, at |-> "checked"] \in Request /\ None \notin Request
  BY <1>0, <1>3, CallFacts DEF Request, Stages
<1>5. LimitsTypeOK'
  <2>1. call' \in [Calls -> Request \cup {None}]
    BY <1>0, <1>1, <1>4 DEF LimitsTypeOK
  <2> QED BY <1>0, <1>1, <1>2, <2>1 DEF LimitsTypeOK
<1>6. /\ call'[c] = [cpu |-> cpu, mem |-> mem, at |-> "checked"]
      /\ \A d \in Calls : d # c => call'[d] = call[d]
  BY <1>0, <1>1 DEF LimitsTypeOK
<1>7. /\ c \notin Open /\ Open' = Open \cup {c} /\ Checked' = Checked \cup {c} /\ Held' = Held
  <2>1. c \notin Open /\ Open' = Open \cup {c}
    BY <1>2, <1>4, <1>6 DEF Open
  <2>2. Checked' = Checked \cup {c}
    BY <1>6, <2>1 DEF Checked, Open
  <2> QED BY <2>1, <2>2 DEF Held
<1>8. HeldCPUs' = HeldCPUs /\ HeldMemories' = HeldMemories
  <2>1. c \notin Held /\ Held \subseteq Calls
    BY <1>7 DEF Held, Open
  <2> QED BY <1>6, <1>7, <2>1 DEF HeldCPUs, HeldMemories
<1>9. BooksBalance'
  BY <1>0, <1>2, <1>8 DEF BooksBalance, HeldCPU, HeldMemory
<1>10. /\ OpenCPUs' = [OpenCPUs EXCEPT ![c] = cpu] /\ OpenCPUs[c] = 0
       /\ OpenMemories' = [OpenMemories EXCEPT ![c] = mem] /\ OpenMemories[c] = 0
  <2>1. OpenCPUs[c] = 0 /\ OpenMemories[c] = 0
    BY <1>7 DEF OpenCPUs, OpenMemories
  <2>0. call'[c].cpu = cpu /\ call'[c].mem = mem
    BY <1>6
  <2>2. OpenCPUs' = [OpenCPUs EXCEPT ![c] = cpu]
    <3>1. \A d \in Calls : d # c => (d \in Open' <=> d \in Open) /\ call'[d] = call[d]
      BY <1>6, <1>7
    <3>2. \A d \in Calls : (IF d \in Open' THEN call'[d].cpu ELSE 0) =
                            (IF d = c THEN cpu ELSE OpenCPUs[d])
      BY <1>7, <2>0, <3>1 DEF OpenCPUs
    <3> QED BY <3>2 DEF OpenCPUs
  <2>3. OpenMemories' = [OpenMemories EXCEPT ![c] = mem]
    <3>1. \A d \in Calls : d # c => (d \in Open' <=> d \in Open) /\ call'[d] = call[d]
      BY <1>6, <1>7
    <3>2. \A d \in Calls : (IF d \in Open' THEN call'[d].mem ELSE 0) =
                            (IF d = c THEN mem ELSE OpenMemories[d])
      BY <1>7, <2>0, <3>1 DEF OpenMemories
    <3> QED BY <3>2 DEF OpenMemories
  <2> QED BY <2>1, <2>2, <2>3
<1>11. /\ usedCPU \in Int64 /\ usedCPU = Wrap(Total(HeldCPUs)) /\ Wrap(usedCPU + cpu) <= maxCPU
       /\ usedMemory \in Int64 /\ usedMemory = Wrap(Total(HeldMemories))
       /\ Wrap(usedMemory + mem) <= maxMemory
       /\ Checked \in SUBSET Calls
  BY <1>0, <1>1, CallFacts
  DEF LimitsTypeOK, BooksBalance, HeldCPU, HeldMemory, CanSchedule
<1>12. CPUsBounded'
  <2> SUFFICES ASSUME ~nan, x # NaN
               PROVE  /\ OpenCPUs' \in [Calls -> 0..maxCPU]
                      /\ Total(OpenCPUs') \in 0..(Handlers * maxCPU)
    BY <1>2 DEF CPUsBounded
  <2>1. OpenCPUs \in [Calls -> 0..maxCPU] /\ Total(OpenCPUs) \in 0..(Handlers * maxCPU)
    BY <1>0 DEF CPUsBounded
  <2>2. cpu \in Nat /\ cpu <= MaxInt - Handlers * maxCPU
    BY <1>3, Budgets
  <2>3. HeldCPUs = [d \in Calls |-> IF d \in Checked THEN 0 ELSE OpenCPUs[d]]
    BY <1>0, CallFacts
  <2>4. cpu <= maxCPU /\ Total([OpenCPUs EXCEPT ![c] = cpu]) \in 0..(Handlers * maxCPU)
    BY <1>2, <1>10, <1>11, <2>1, <2>2, <2>3, Budgets, CheckFits
  <2> QED BY <1>10, <2>1, <2>2, <2>4, Budgets
<1>13. MemoriesBounded'
  <2> SUFFICES ASSUME ~wild, mem \in 0..(MaxInt - Handlers * maxMemory)
               PROVE  /\ OpenMemories' \in [Calls -> 0..maxMemory]
                      /\ Total(OpenMemories') \in 0..(Handlers * maxMemory)
    BY <1>1 DEF MemoriesBounded
  <2>1. OpenMemories \in [Calls -> 0..maxMemory] /\ Total(OpenMemories) \in 0..(Handlers * maxMemory)
    BY <1>0 DEF MemoriesBounded
  <2>2. mem \in Nat /\ mem <= MaxInt - Handlers * maxMemory
    BY Budgets
  <2>3. HeldMemories = [d \in Calls |-> IF d \in Checked THEN 0 ELSE OpenMemories[d]]
    BY <1>0, CallFacts
  <2>4. mem <= maxMemory /\ Total([OpenMemories EXCEPT ![c] = mem]) \in 0..(Handlers * maxMemory)
    BY <1>2, <1>10, <1>11, <2>1, <2>2, <2>3, Budgets, CheckFits
  <2> QED BY <1>10, <2>1, <2>2, <2>4, Budgets
<1>14. GapBounded'
  <2>1. IsFiniteSet(Checked) /\ c \notin Checked
    BY <1>0, <1>7, CallFacts
  <2>2. Cardinality(Checked \cup {c}) = Cardinality(Checked) + 1 /\ Cardinality(Checked) \in Nat
    BY <2>1, FS_AddElement, FS_CardinalityType
  <2> QED BY <1>2, <1>7, <2>2, Budgets DEF GapBounded
<1> QED BY <1>5, <1>9, <1>12, <1>13, <1>14 DEF LInv

\* A step that leaves a call open with its limits, whatever its stage.
LEMMA SameLimits ==
    ASSUME LimitsTypeOK, NEW c \in Open, NEW at \in Stages, call' = [call EXCEPT ![c].at = at]
    PROVE  /\ call' \in [Calls -> Request \cup {None}] /\ Open' = Open
           /\ OpenCPUs' = OpenCPUs /\ OpenMemories' = OpenMemories
           /\ Checked' = (IF at = "checked" THEN Checked \cup {c} ELSE Checked \ {c})
           /\ \A d \in Calls : /\ d # c => call'[d] = call[d]
                               /\ d \in Open => /\ call'[d].cpu = call[d].cpu
                                                /\ call'[d].mem = call[d].mem
<1>1. c \in Calls /\ call[c] \in Request /\ None \notin Request
  BY CallFacts DEF Open
<1>2. PICK r \in Request : /\ r.cpu = call[c].cpu /\ r.mem = call[c].mem /\ r.at = at
                           /\ call' = [call EXCEPT ![c] = r]
  BY <1>1 DEF Request
<1>3. call' \in [Calls -> Request \cup {None}] /\ call'[c] = r
      /\ \A d \in Calls : d # c => call'[d] = call[d]
  BY <1>1, <1>2 DEF LimitsTypeOK
<1>4. Open' = Open
  BY <1>1, <1>2, <1>3 DEF Open
<1>5. \A d \in Calls : d \in Open => call'[d].cpu = call[d].cpu /\ call'[d].mem = call[d].mem
  BY <1>2, <1>3
<1>6. OpenCPUs' = OpenCPUs
  BY <1>4, <1>5 DEF OpenCPUs
<1>7. OpenMemories' = OpenMemories
  BY <1>4, <1>5 DEF OpenMemories
<1>8. Checked' = (IF at = "checked" THEN Checked \cup {c} ELSE Checked \ {c})
  BY <1>1, <1>2, <1>3, <1>4 DEF Checked, Open
<1> QED BY <1>3, <1>4, <1>5, <1>6, <1>7, <1>8

\* The gap only narrows.
LEMMA GapNarrows ==
    ASSUME LInv, Checked' \subseteq Checked
    PROVE  GapBounded'
<1>1. IsFiniteSet(Checked) /\ Cardinality(Checked) <= Handlers
  BY CallFacts DEF LInv, GapBounded
<1>2. /\ Cardinality(Checked') <= Cardinality(Checked)
      /\ Cardinality(Checked') \in Nat /\ Cardinality(Checked) \in Nat
  BY <1>1, FS_Subset, FS_CardinalityType
<1> QED BY <1>1, <1>2, Budgets DEF GapBounded

LEMMA ChargeKeeps ==
    ASSUME LInv, NEW c \in Calls, Charge(c)
    PROVE  LInv'
<1>0. LimitsTypeOK /\ BooksBalance /\ GapBounded /\ CPUsBounded /\ MemoriesBounded
  BY DEF LInv
<1>1. c \in Checked /\ c \in Open /\ "starting" \in Stages
  BY <1>0, CallFacts DEF Charge, Stages
<1>2. /\ call' \in [Calls -> Request \cup {None}] /\ Open' = Open
      /\ OpenCPUs' = OpenCPUs /\ OpenMemories' = OpenMemories
      /\ Checked' = Checked \ {c}
      /\ \A d \in Calls : /\ d # c => call'[d] = call[d]
                          /\ d \in Open => /\ call'[d].cpu = call[d].cpu
                                           /\ call'[d].mem = call[d].mem
  <2>1. call' = [call EXCEPT ![c].at = "starting"]
    BY DEF Charge
  <2>2. Checked' = (IF "starting" = "checked" THEN Checked \cup {c} ELSE Checked \ {c})
    BY <1>0, <1>1, <2>1, SameLimits
  <2> QED BY <1>0, <1>1, <2>1, <2>2, SameLimits
<1>3. Held' = Held \cup {c} /\ c \notin Held /\ Held \subseteq Calls
  BY <1>1, <1>2 DEF Held, Open
<1> DEFINE cpu == call[c].cpu
           mem == call[c].mem
<1>4. cpu \in Int64 /\ mem \in Int64
  BY <1>0, <1>1, CallFacts
<1>5. HeldCPUs' = [HeldCPUs EXCEPT ![c] = cpu] /\ HeldMemories' = [HeldMemories EXCEPT ![c] = mem]
  <2>1. call'[c].cpu = cpu /\ call'[c].mem = mem
    BY <1>1, <1>2
  <2>2. HeldCPUs' = [HeldCPUs EXCEPT ![c] = cpu]
    BY <1>2, <1>3, <2>1 DEF HeldCPUs
  <2>3. HeldMemories' = [HeldMemories EXCEPT ![c] = mem]
    BY <1>2, <1>3, <2>1 DEF HeldMemories
  <2> QED BY <2>2, <2>3
<1>6. /\ HeldCPUs \in [Calls -> Int64] /\ HeldMemories \in [Calls -> Int64]
      /\ HeldCPUs[c] = 0 /\ HeldMemories[c] = 0
      /\ usedCPU \in Int64 /\ usedCPU = Wrap(Total(HeldCPUs))
      /\ usedMemory \in Int64 /\ usedMemory = Wrap(Total(HeldMemories))
  <2>1. HeldCPUs[c] = 0 /\ HeldMemories[c] = 0
    BY <1>3 DEF HeldCPUs, HeldMemories
  <2> QED BY <1>0, <2>1, CallFacts DEF LimitsTypeOK, BooksBalance, HeldCPU, HeldMemory
<1>7. /\ usedCPU' = Wrap(usedCPU + cpu) /\ usedMemory' = Wrap(usedMemory + mem)
      /\ nan' = nan /\ wild' = wild
  BY DEF Charge
<1> HIDE DEF cpu, mem
<1>8. /\ usedCPU' \in Int64 /\ usedCPU' = Wrap(Total(HeldCPUs'))
      /\ usedMemory' \in Int64 /\ usedMemory' = Wrap(Total(HeldMemories'))
  <2>1. /\ Wrap(usedCPU + cpu) \in Int64
        /\ Wrap(usedCPU + cpu) = Wrap(Total([HeldCPUs EXCEPT ![c] = cpu]))
    <3>1. /\ HeldCPUs \in [Calls -> Int64] /\ HeldCPUs[c] = 0 /\ cpu \in Int64
          /\ usedCPU \in Int64 /\ usedCPU = Wrap(Total(HeldCPUs))
      BY <1>4, <1>6
    <3> QED BY <3>1, Charging
  <2>2. /\ Wrap(usedMemory + mem) \in Int64
        /\ Wrap(usedMemory + mem) = Wrap(Total([HeldMemories EXCEPT ![c] = mem]))
    <3>1. /\ HeldMemories \in [Calls -> Int64] /\ HeldMemories[c] = 0 /\ mem \in Int64
          /\ usedMemory \in Int64 /\ usedMemory = Wrap(Total(HeldMemories))
      BY <1>4, <1>6
    <3> QED BY <3>1, Charging
  <2> QED BY <1>5, <1>7, <2>1, <2>2
<1>9. LimitsTypeOK'
  BY <1>0, <1>2, <1>7, <1>8 DEF LimitsTypeOK
<1>10. BooksBalance'
  BY <1>8 DEF BooksBalance, HeldCPU, HeldMemory
<1>11. CPUsBounded' /\ MemoriesBounded'
  BY <1>0, <1>2, <1>7 DEF CPUsBounded, MemoriesBounded
<1>12. GapBounded'
  BY <1>2, GapNarrows
<1> QED BY <1>9, <1>10, <1>11, <1>12 DEF LInv

LEMMA RunKeeps ==
    ASSUME LInv, NEW c \in Calls, Run(c)
    PROVE  LInv'
<1>0. LimitsTypeOK /\ BooksBalance /\ GapBounded /\ CPUsBounded /\ MemoriesBounded
  BY DEF LInv
<1>1. c \in Held /\ c \in Open /\ c \notin Checked /\ "running" \in Stages
  BY DEF Run, Stages, Held
<1>2. /\ call' \in [Calls -> Request \cup {None}] /\ Open' = Open
      /\ OpenCPUs' = OpenCPUs /\ OpenMemories' = OpenMemories
      /\ Checked' = Checked
      /\ \A d \in Calls : d \in Open => /\ call'[d].cpu = call[d].cpu
                                        /\ call'[d].mem = call[d].mem
  <2>1. call' = [call EXCEPT ![c].at = "running"]
    BY DEF Run
  <2>2. Checked' = (IF "running" = "checked" THEN Checked \cup {c} ELSE Checked \ {c})
    BY <1>0, <1>1, <2>1, SameLimits
  <2>3. Checked' = Checked
    BY <1>1, <2>2
  <2> QED BY <1>0, <1>1, <2>1, <2>3, SameLimits
<1>3. HeldCPUs' = HeldCPUs /\ HeldMemories' = HeldMemories
  <2>1. Held' = Held /\ Held \subseteq Open
    BY <1>2 DEF Held
  <2> QED BY <1>2, <2>1 DEF HeldCPUs, HeldMemories
<1>4. UNCHANGED <<usedCPU, usedMemory, nan, wild>>
  BY DEF Run
<1>5. LimitsTypeOK'
  BY <1>0, <1>2, <1>4 DEF LimitsTypeOK
<1>6. BooksBalance'
  BY <1>0, <1>3, <1>4 DEF BooksBalance, HeldCPU, HeldMemory
<1>7. GapBounded' /\ CPUsBounded' /\ MemoriesBounded'
  BY <1>0, <1>2, <1>4 DEF GapBounded, CPUsBounded, MemoriesBounded
<1> QED BY <1>5, <1>6, <1>7 DEF LInv

\* The history bits are cleared only with the last open call, and then the
\* sums are zero.
LEMMA ReleaseKeeps ==
    ASSUME LInv, NEW c \in Calls, Release(c)
    PROVE  LInv'
<1>0. LimitsTypeOK /\ BooksBalance /\ GapBounded /\ CPUsBounded /\ MemoriesBounded
  BY DEF LInv
<1>1. /\ c \in Held /\ c \in Open /\ c \notin Checked
      /\ HeldCPUs[c] = call[c].cpu /\ HeldMemories[c] = call[c].mem
  BY DEF Release, Held, HeldCPUs, HeldMemories
<1>2. /\ HeldCPUs \in [Calls -> Int64] /\ HeldMemories \in [Calls -> Int64]
      /\ usedCPU \in Int64 /\ usedCPU = Wrap(Total(HeldCPUs))
      /\ usedMemory \in Int64 /\ usedMemory = Wrap(Total(HeldMemories))
  BY <1>0, CallFacts DEF LimitsTypeOK, BooksBalance, HeldCPU, HeldMemory
<1>3. /\ call' = [call EXCEPT ![c] = None]
      /\ usedCPU' = Wrap(usedCPU - HeldCPUs[c]) /\ usedMemory' = Wrap(usedMemory - HeldMemories[c])
      /\ nan' = (nan /\ Open # {c}) /\ wild' = (wild /\ Open # {c})
  BY <1>1 DEF Release
<1>4. call'[c] = None /\ \A d \in Calls : d # c => call'[d] = call[d]
  BY <1>0, <1>3 DEF LimitsTypeOK
<1>5. Open' = Open \ {c} /\ Checked' = Checked /\ Held' = Held \ {c}
  <2>1. Open' = Open \ {c}
    BY <1>4 DEF Open
  <2>2. Checked' = Checked
    BY <1>1, <1>4, <2>1 DEF Checked, Open
  <2> QED BY <2>1, <2>2 DEF Held
<1>6. /\ HeldCPUs' = [HeldCPUs EXCEPT ![c] = 0] /\ HeldMemories' = [HeldMemories EXCEPT ![c] = 0]
      /\ OpenCPUs' = [OpenCPUs EXCEPT ![c] = 0] /\ OpenMemories' = [OpenMemories EXCEPT ![c] = 0]
  <2>1. HeldCPUs' = [HeldCPUs EXCEPT ![c] = 0]
    BY <1>4, <1>5 DEF HeldCPUs
  <2>2. HeldMemories' = [HeldMemories EXCEPT ![c] = 0]
    BY <1>4, <1>5 DEF HeldMemories
  <2>3. OpenCPUs' = [OpenCPUs EXCEPT ![c] = 0]
    BY <1>4, <1>5 DEF OpenCPUs
  <2>4. OpenMemories' = [OpenMemories EXCEPT ![c] = 0]
    BY <1>4, <1>5 DEF OpenMemories
  <2> QED BY <2>1, <2>2, <2>3, <2>4
<1>7. /\ usedCPU' \in Int64 /\ usedCPU' = Wrap(Total(HeldCPUs'))
      /\ usedMemory' \in Int64 /\ usedMemory' = Wrap(Total(HeldMemories'))
  BY <1>2, <1>3, <1>6, Discharging
<1>8. LimitsTypeOK'
  BY <1>0, <1>3, <1>7 DEF LimitsTypeOK
<1>9. BooksBalance'
  BY <1>7 DEF BooksBalance, HeldCPU, HeldMemory
<1>10. ASSUME Open = {c}
       PROVE  /\ OpenCPUs' = [d \in Calls |-> 0] /\ OpenMemories' = [d \in Calls |-> 0]
              /\ Total(OpenCPUs') = 0 /\ Total(OpenMemories') = 0
  <2>1. OpenCPUs' = [d \in Calls |-> 0] /\ OpenMemories' = [d \in Calls |-> 0]
    BY <1>5, <1>10 DEF OpenCPUs, OpenMemories
  <2> QED BY <2>1, TotalZero
<1>11. CPUsBounded'
  <2>1. CASE Open = {c}
    BY <1>10, <2>1, Budgets DEF CPUsBounded
  <2>2. CASE ~nan
    <3>1. OpenCPUs \in [Calls -> 0..maxCPU] /\ Total(OpenCPUs) \in 0..(Handlers * maxCPU)
      BY <1>0, <2>2 DEF CPUsBounded
    <3>2. /\ [OpenCPUs EXCEPT ![c] = 0] \in [Calls -> 0..maxCPU]
          /\ Total([OpenCPUs EXCEPT ![c] = 0]) \in 0..(Handlers * maxCPU)
      BY <3>1, Budgets, ReleaseFits
    <3> QED BY <1>6, <3>2 DEF CPUsBounded
  <2> QED BY <1>3, <2>1, <2>2 DEF CPUsBounded
<1>12. MemoriesBounded'
  <2>1. CASE Open = {c}
    BY <1>10, <2>1, Budgets DEF MemoriesBounded
  <2>2. CASE ~wild
    <3>1. OpenMemories \in [Calls -> 0..maxMemory] /\ Total(OpenMemories) \in 0..(Handlers * maxMemory)
      BY <1>0, <2>2 DEF MemoriesBounded
    <3>2. /\ [OpenMemories EXCEPT ![c] = 0] \in [Calls -> 0..maxMemory]
          /\ Total([OpenMemories EXCEPT ![c] = 0]) \in 0..(Handlers * maxMemory)
      BY <3>1, Budgets, ReleaseFits
    <3> QED BY <1>6, <3>2 DEF MemoriesBounded
  <2> QED BY <1>3, <2>1, <2>2 DEF MemoriesBounded
<1>13. GapBounded'
  BY <1>5, GapNarrows
<1> QED BY <1>8, <1>9, <1>11, <1>12, <1>13 DEF LInv

LEMMA LimitsStep == LInv /\ [LimitsNext]_vars => LInv'
<1> SUFFICES ASSUME LInv, [LimitsNext]_vars PROVE LInv'
  OBVIOUS
<1>1. CASE UNCHANGED vars
  <2>1. Open' = Open /\ Checked' = Checked /\ Held' = Held
    BY <1>1 DEF vars, Open, Checked, Held
  <2>2. /\ HeldCPUs' = HeldCPUs /\ HeldMemories' = HeldMemories
        /\ OpenCPUs' = OpenCPUs /\ OpenMemories' = OpenMemories
    BY <1>1, <2>1 DEF vars, HeldCPUs, HeldMemories, OpenCPUs, OpenMemories
  <2>3. LimitsTypeOK'
    BY <1>1 DEF vars, LInv, LimitsTypeOK
  <2>4. BooksBalance'
    BY <1>1, <2>2 DEF vars, LInv, BooksBalance, HeldCPU, HeldMemory
  <2>5. GapBounded' /\ CPUsBounded' /\ MemoriesBounded'
    BY <1>1, <2>1, <2>2 DEF vars, LInv, GapBounded, CPUsBounded, MemoriesBounded
  <2> QED BY <2>3, <2>4, <2>5 DEF LInv
<1> QED BY <1>1, CheckKeeps, ChargeKeeps, RunKeeps, ReleaseKeeps DEF LimitsNext

LEMMA LimitsInvariance == LimitsSpec => []LInv
  BY LimitsInitial, LimitsStep, PTL DEF LimitsSpec

\* What is held is part of what is open.
LEMMA HeldWithinOpen ==
    ASSUME NEW budget \in Nat, NEW f \in [Calls -> 0..budget], NEW h, NEW S \in SUBSET Calls,
           Handlers * budget <= MaxInt,
           h = [d \in Calls |-> IF d \in S THEN 0 ELSE f[d]],
           Total(f) \in 0..(Handlers * budget)
    PROVE  Total(h) \in 0..(Handlers * budget)
<1>0. Handlers \in Nat /\ Handlers >= 1 /\ MaxInt \in Nat /\ Handlers * budget \in Nat
  BY LimitsAssumption, Widths DEF LimitsAssumption
<1>1. budget <= MaxInt
  <2>1. (Handlers - 1) * budget >= 0
    BY <1>0
  <2>2. Handlers * budget = (Handlers - 1) * budget + budget
    BY <1>0
  <2> QED BY <1>0, <2>1, <2>2
<1> DEFINE g == [d \in Calls |-> IF d \in S THEN f[d] ELSE 0]
<1>3. Total(f) = Total(g) + Total(h) /\ Total(g) \in Nat /\ Total(h) \in Nat
  BY <1>1, TotalSplit
<1> QED BY <1>0, <1>3

-----------------------------------------------------------------------------
(* The theorems *)

\* The accounts stay integers of the width, and a CPU limit that has passed
\* CanSchedule is one parseCPU lets through.
THEOREM LimitsTypeCorrect == LimitsSpec => []LimitsTypeOK
<1>1. LInv => LimitsTypeOK
  BY DEF LInv
<1> QED BY <1>1, LimitsInvariance, PTL

\* An account that has overflowed or gone below zero comes back: usedCPU and
\* usedMemory are the sums of what is held modulo the width, in whatever order
\* deployments are charged, fail and are stopped.
THEOREM BooksAreBalanced == LimitsSpec => []BooksBalance
<1>1. LInv => BooksBalance
  BY DEF LInv
<1> QED BY <1>1, LimitsInvariance, PTL

\* Unless a NaN was given, CanSchedule keeps the promised CPU within as many
\* budgets as calls are between check and charge at a time.
THEOREM CPUWithinBudget == LimitsSpec => []CPUBudget
<1>1. LInv => CPUBudget
  <2> SUFFICES ASSUME LInv, ~nan PROVE Total(HeldCPUs) \in 0..(Handlers * maxCPU)
    BY DEF CPUBudget, HeldCPU
  <2>1. /\ LimitsTypeOK /\ OpenCPUs \in [Calls -> 0..maxCPU]
        /\ Total(OpenCPUs) \in 0..(Handlers * maxCPU)
    BY DEF LInv, CPUsBounded
  <2>2. /\ HeldCPUs = [d \in Calls |-> IF d \in Checked THEN 0 ELSE OpenCPUs[d]]
        /\ Checked \in SUBSET Calls
    BY <2>1, CallFacts
  <2> QED BY <2>1, <2>2, Budgets, HeldWithinOpen
<1> QED BY <1>1, LimitsInvariance, PTL

\* CanSchedule keeps the promised memory within as many budgets as calls are
\* between check and charge at a time, as long as no request with a negative
\* limit, or one that can overflow the account, is among the open ones.
THEOREM MemoryWithinBudget == LimitsSpec => []MemoryBudget
<1>1. LInv => MemoryBudget
  <2> SUFFICES ASSUME LInv, ~wild PROVE Total(HeldMemories) \in 0..(Handlers * maxMemory)
    BY DEF MemoryBudget, HeldMemory
  <2>1. /\ LimitsTypeOK /\ OpenMemories \in [Calls -> 0..maxMemory]
        /\ Total(OpenMemories) \in 0..(Handlers * maxMemory)
    BY DEF LInv, MemoriesBounded
  <2>2. /\ HeldMemories = [d \in Calls |-> IF d \in Checked THEN 0 ELSE OpenMemories[d]]
        /\ Checked \in SUBSET Calls
    BY <2>1, CallFacts
  <2> QED BY <2>1, <2>2, Budgets, HeldWithinOpen
<1> QED BY <1>1, LimitsInvariance, PTL
=============================================================================
