--------------------------- MODULE ServicesProofs ---------------------------
(***************************************************************************)
(* Proofs about the services of the kernel, each for every value of its    *)
(* constants.                                                              *)
(***************************************************************************)
EXTENDS MCKernelServices, Sequences, FiniteSetTheorems, WellFoundedInduction, TLAPS

LEMMA LeastElement ==
    ASSUME NEW T \in SUBSET Nat, T # {}
    PROVE  \E n \in T : \A m \in T : n <= m
<1> DEFINE R == {ss \in Nat \X Nat : ss[1] < ss[2]}
<1>1. R = OpToRel(<, Nat)
    BY DEF OpToRel
<1>2. IsWellFoundedOn(R, Nat)
    BY <1>1, NatLessThanWellFounded
<1>3. PICK n \in T : \A m \in T : ~ (<<m, n>> \in R)
    BY <1>2, WFMin
<1>4. ASSUME NEW m \in T PROVE n <= m
    <2>1. ~ (<<m, n>> \in R) /\ m \in Nat /\ n \in Nat
        BY <1>3
    <2> QED
        BY <2>1
<1> QED
    BY <1>4

LEMMA AppendFacts ==
    ASSUME NEW S, NEW s \in Seq(S), NEW x \in S
    PROVE  /\ Append(s, x) \in Seq(S) /\ Len(Append(s, x)) = Len(s) + 1
           /\ DOMAIN Append(s, x) = 1 .. Len(s) + 1
           /\ Append(s, x)[Len(s) + 1] = x /\ \A k \in 1 .. Len(s) : Append(s, x)[k] = s[k]
           /\ DOMAIN s = 1 .. Len(s) /\ Len(s) \in Nat
    OBVIOUS

LEMMA FrontFacts ==
    ASSUME NEW S, NEW s \in Seq(S), s # <<>>
    PROVE  /\ Len(s) \in Nat \ {0} /\ DOMAIN s = 1 .. Len(s) /\ s[Len(s)] \in S
           /\ SubSeq(s, 1, Len(s) - 1) \in Seq(S) /\ Len(SubSeq(s, 1, Len(s) - 1)) = Len(s) - 1
           /\ DOMAIN SubSeq(s, 1, Len(s) - 1) = 1 .. Len(s) - 1
           /\ \A k \in 1 .. Len(s) - 1 : SubSeq(s, 1, Len(s) - 1)[k] = s[k]
<1>1. Len(s) \in Nat \ {0} /\ DOMAIN s = 1 .. Len(s) /\ s[Len(s)] \in S
    OBVIOUS
<1>2. Len(s) - 1 \in 0 .. Len(s)
    BY <1>1
<1> QED
    BY <1>1, <1>2

-----------------------------------------------------------------------------
(* ProcessTable: ProcessInv is inductive as it stands.  What protects a process that   *)
(* was stopped between its runs is that only a run under way, which it has none of,    *)
(* and Run, which refuses it, write another state.                                     *)

\* The runs left when the innermost one ends.
LEMMA Unwinding ==
    ASSUME TableTypeOK, runs # <<>>
    PROVE  /\ Innermost \in DOMAIN state /\ IsRunning(Innermost)
           /\ Unwound \in Seq(DOMAIN state)
           /\ \A p : (\E k \in DOMAIN Unwound : Unwound[k] = p) => IsRunning(p)
           /\ \A p : IsRunning(p) => p = Innermost \/ \E k \in DOMAIN Unwound : Unwound[k] = p
<1>1. Len(runs) \in Nat \ {0} /\ DOMAIN runs = 1 .. Len(runs)
    BY DEF TableTypeOK
<1>2. \A k \in 1 .. Len(runs) : runs[k] \in DOMAIN state
    BY <1>1 DEF TableTypeOK
<1>3. Len(runs) - 1 \in 0 .. Len(runs)
    BY <1>1
<1>4. DOMAIN Unwound = 1 .. Len(runs) - 1 /\ \A k \in 1 .. Len(runs) - 1 : Unwound[k] = runs[k]
    BY <1>1, <1>3 DEF Unwound, TableTypeOK
<1>5. Unwound \in Seq(DOMAIN state)
    BY <1>1, <1>3 DEF Unwound, TableTypeOK
<1> QED
    BY <1>1, <1>2, <1>4, <1>5 DEF Innermost, IsRunning

LEMMA InitProcessInv == TableInit => ProcessInv
    BY DEF TableInit, ProcessInv, TableTypeOK, HaltedStaysHalted, RunningIsRunning, IsRunning

LEMMA SpawnKeeps == ProcessInv /\ Spawn => ProcessInv'
<1> SUFFICES ASSUME ProcessInv, Spawn PROVE ProcessInv'
    OBVIOUS
<1>1. state' \in Seq(ProcessState) /\ DOMAIN state' = 1 .. Len(state) + 1
      /\ DOMAIN state = 1 .. Len(state) /\ Len(state) \in Nat
    BY DEF ProcessInv, TableTypeOK, Spawn, ProcessState
<1>2. \A p \in DOMAIN state : state'[p] = state[p]
    BY DEF ProcessInv, TableTypeOK, Spawn
<1>3. state'[Len(state) + 1] = "ready"
    BY DEF ProcessInv, TableTypeOK, Spawn
<1>4. runs' = runs /\ halted' = halted /\ broken' = broken /\ DOMAIN state \subseteq DOMAIN state'
    BY <1>1 DEF Spawn
<1>5. TableTypeOK'
    BY <1>1, <1>4 DEF ProcessInv, TableTypeOK
<1>6. HaltedStaysHalted'
    BY <1>2, <1>4 DEF ProcessInv, TableTypeOK, HaltedStaysHalted, IsRunning
<1>7. RunningIsRunning'
    BY <1>1, <1>2, <1>3, <1>4 DEF ProcessInv, RunningIsRunning, IsRunning
<1> QED
    BY <1>5, <1>6, <1>7 DEF ProcessInv

LEMMA RunKeeps ==
    ASSUME ProcessInv, NEW p \in DOMAIN state, Run(p) PROVE ProcessInv'
<1>1. state' \in Seq(ProcessState) /\ DOMAIN state' = DOMAIN state /\ state'[p] = "running"
      /\ \A q \in DOMAIN state \ {p} : state'[q] = state[q]
    BY DEF ProcessInv, TableTypeOK, Run, ProcessState
<1>2. /\ runs' \in Seq(DOMAIN state) /\ IsRunning(p)'
      /\ \A q : IsRunning(q) => IsRunning(q)'
      /\ \A k \in DOMAIN runs' : runs'[k] = p \/ (k \in DOMAIN runs /\ runs'[k] = runs[k])
    <2>1. Len(runs) \in Nat /\ DOMAIN runs = 1 .. Len(runs)
        BY DEF ProcessInv, TableTypeOK
    <2>2. runs' \in Seq(DOMAIN state) /\ DOMAIN runs' = 1 .. Len(runs) + 1
          /\ runs'[Len(runs) + 1] = p /\ \A k \in 1 .. Len(runs) : runs'[k] = runs[k]
        BY DEF ProcessInv, TableTypeOK, Run
    <2> QED
        BY <2>1, <2>2 DEF IsRunning
<1>3. p \notin halted
    BY DEF ProcessInv, HaltedStaysHalted, Run, Runnable
<1>4. TableTypeOK'
    BY <1>1, <1>2 DEF ProcessInv, TableTypeOK, Run
<1>5. HaltedStaysHalted'
    <2> SUFFICES ASSUME NEW q \in halted PROVE state'[q] \in {"stopped", "dead"} /\ ~ IsRunning(q)'
        BY DEF HaltedStaysHalted, Run
    <2>1. q # p /\ q \in DOMAIN state /\ state[q] \in {"stopped", "dead"} /\ ~ IsRunning(q)
        BY <1>3 DEF ProcessInv, TableTypeOK, HaltedStaysHalted
    <2>2. state'[q] = state[q]
        BY <1>1, <2>1
    <2>3. ~ IsRunning(q)'
        <3>1. \A k \in DOMAIN runs : runs[k] # q
            BY <2>1 DEF IsRunning
        <3>2. \A k \in DOMAIN runs' : runs'[k] # q
            BY <1>2, <2>1, <3>1
        <3> QED
            BY <3>2 DEF IsRunning
    <2> QED
        BY <2>1, <2>2, <2>3
<1>6. RunningIsRunning'
    BY <1>1, <1>2 DEF ProcessInv, RunningIsRunning, Run
<1> QED
    BY <1>4, <1>5, <1>6 DEF ProcessInv

LEMMA EndKeeps == ProcessInv /\ (Returns \/ Raises) => ProcessInv'
<1> SUFFICES ASSUME ProcessInv, Returns \/ Raises PROVE ProcessInv'
    OBVIOUS
<1>1. runs # <<>> /\ runs' = Unwound /\ halted' = halted
    BY DEF Returns, Raises
<1>2. /\ Innermost \in DOMAIN state /\ IsRunning(Innermost)
      /\ Unwound \in Seq(DOMAIN state)
      /\ \A p : (\E k \in DOMAIN Unwound : Unwound[k] = p) => IsRunning(p)
      /\ \A p : IsRunning(p) => p = Innermost \/ \E k \in DOMAIN Unwound : Unwound[k] = p
    BY <1>1, Unwinding DEF ProcessInv
<1>3. /\ \A p : IsRunning(p)' => IsRunning(p)
      /\ \A p : IsRunning(p) => p = Innermost \/ IsRunning(p)'
    BY <1>1, <1>2 DEF IsRunning
<1>4. state' \in Seq(ProcessState) /\ DOMAIN state' = DOMAIN state
      /\ \A p \in DOMAIN state \ {Innermost} : state'[p] = state[p]
    <2>1. state \in Seq(ProcessState)
        BY DEF ProcessInv, TableTypeOK
    <2>2. CASE Returns
        BY <1>2, <2>1, <2>2 DEF Returns, ProcessState
    <2>3. CASE Raises
        BY <2>1, <2>3 DEF Raises
    <2> QED
        BY <2>2, <2>3
<1>5. /\ Returns => state'[Innermost] = "ready" /\ broken' = broken
      /\ Raises => state' = state /\ broken' = broken \cup {Innermost}
    BY <1>2 DEF ProcessInv, TableTypeOK, Returns, Raises
<1>6. TableTypeOK'
    BY <1>1, <1>2, <1>4, <1>5 DEF ProcessInv, TableTypeOK
<1>7. HaltedStaysHalted'
    BY <1>1, <1>2, <1>3, <1>4 DEF ProcessInv, TableTypeOK, HaltedStaysHalted
<1>8. RunningIsRunning'
    BY <1>3, <1>4, <1>5 DEF ProcessInv, RunningIsRunning
<1> QED
    BY <1>6, <1>7, <1>8 DEF ProcessInv

LEMMA HaltKeeps ==
    ASSUME ProcessInv, NEW p \in DOMAIN state, NEW to \in {"stopped", "dead"}, Halt(p, to)
    PROVE  ProcessInv'
<1>1. state' \in Seq(ProcessState) /\ DOMAIN state' = DOMAIN state /\ state'[p] = to
      /\ \A q \in DOMAIN state \ {p} : state'[q] = state[q]
    BY DEF ProcessInv, TableTypeOK, Halt, ProcessState
<1>2. runs' = runs /\ broken' = broken /\ \A q : IsRunning(q)' <=> IsRunning(q)
    BY DEF Halt, IsRunning
<1>3. halted \subseteq halted' /\ halted' \subseteq halted \cup {p}
      /\ (p \in halted' => p \in halted \/ ~ IsRunning(p))
    BY DEF Halt
<1>4. TableTypeOK'
    BY <1>1, <1>2, <1>3 DEF ProcessInv, TableTypeOK
<1>5. HaltedStaysHalted'
    BY <1>1, <1>2, <1>3 DEF ProcessInv, TableTypeOK, HaltedStaysHalted
<1>6. RunningIsRunning'
    BY <1>1, <1>2 DEF ProcessInv, RunningIsRunning
<1> QED
    BY <1>4, <1>5, <1>6 DEF ProcessInv

LEMMA TableNextKeeps == ProcessInv /\ [TableNext]_tableVars => ProcessInv'
<1> SUFFICES ASSUME ProcessInv, [TableNext]_tableVars PROVE ProcessInv'
    OBVIOUS
<1>1. CASE UNCHANGED tableVars
    BY <1>1 DEF tableVars, ProcessInv, TableTypeOK, HaltedStaysHalted, RunningIsRunning, IsRunning
<1>2. ASSUME NEW p \in DOMAIN state, Stop(p) \/ Kill(p) PROVE ProcessInv'
    BY <1>2, HaltKeeps DEF Stop, Kill
<1> QED
    BY <1>1, <1>2, SpawnKeeps, RunKeeps, EndKeeps DEF TableNext

LEMMA TableInvariance == TableSpec => []ProcessInv
    BY InitProcessInv, TableNextKeeps, PTL DEF TableSpec

-----------------------------------------------------------------------------

\* The table keeps its type: every run under way is that of a process of the table.
THEOREM TableTyped == TableSpec => []TableTypeOK
<1>1. ProcessInv => TableTypeOK
    BY DEF ProcessInv
<1> QED
    BY <1>1, TableInvariance, PTL

\* A process that was stopped or killed between its runs never runs again (process.py,
\* Process.run refuses it), however executors nest, raise and call the manager.
THEOREM StoppedStaysStopped == TableSpec => []HaltedStaysHalted
<1>1. ProcessInv => HaltedStaysHalted
    BY DEF ProcessInv
<1> QED
    BY <1>1, TableInvariance, PTL

\* A process is left in the state running only by an executor that raised.
THEOREM LeftRunningRaised == TableSpec => []RunningIsRunning
<1>1. ProcessInv => RunningIsRunning
    BY DEF ProcessInv
<1> QED
    BY <1>1, TableInvariance, PTL

-----------------------------------------------------------------------------
(* MemoryRegions *)

\* Induction over the subsets of a finite set: a set of subsets has a smallest one.
LEMMA SmallestSubset ==
    ASSUME NEW K, IsFiniteSet(K), NEW Bad \in SUBSET (SUBSET K), Bad # {}
    PROVE  \E s \in Bad : \A t \in SUBSET s : t # s => t \notin Bad
<1> DEFINE T == {Cardinality(s) : s \in Bad}
<1>1. \A s \in SUBSET K : IsFiniteSet(s) /\ Cardinality(s) \in Nat
    BY FS_Subset, FS_CardinalityType
<1>2. T \in SUBSET Nat /\ T # {}
    BY <1>1
<1>3. PICK n \in T : \A m \in T : n <= m
    BY <1>2, LeastElement
<1>4. PICK s \in Bad : n = Cardinality(s)
    BY <1>3
<1>5. ASSUME NEW t \in SUBSET s, t # s PROVE t \notin Bad
    <2>1. Cardinality(t) < Cardinality(s)
        BY <1>1, <1>5, FS_Subset
    <2>2. Cardinality(t) \in Nat /\ Cardinality(s) \in Nat
        BY <1>1
    <2> QED
        BY <1>3, <1>4, <2>1, <2>2
<1> QED
    BY <1>5

\* g gives the sum of w over every subset of K.
One(s) == CHOOSE x \in s : TRUE
IsSum(g, w, K) ==
    g = [s \in SUBSET K |-> IF s = {} THEN 0 ELSE w[One(s)] + g[s \ {One(s)}]]

LEMMA SumExists ==
    ASSUME NEW K, IsFiniteSet(K), NEW w \in [K -> Int]
    PROVE  \E g : IsSum(g, w, K)
<1> DEFINE Small(n) == {s \in SUBSET K : Cardinality(s) <= n}
           Sums(g, n) == \A s \in Small(n) : g[s] = IF s = {} THEN 0 ELSE w[One(s)] + g[s \ {One(s)}]
           Good(n) == \E g \in [Small(n) -> Int] : Sums(g, n)
           Bad == {n \in Nat : ~ Good(n)}
<1>1. \A s \in SUBSET K : IsFiniteSet(s) /\ Cardinality(s) \in Nat /\ (Cardinality(s) = 0 <=> s = {})
    BY FS_Subset, FS_CardinalityType, FS_EmptySet
<1>2. ASSUME NEW s \in SUBSET K, s # {}
      PROVE  /\ One(s) \in s /\ s \ {One(s)} \in SUBSET K
             /\ Cardinality(s \ {One(s)}) = Cardinality(s) - 1
    BY <1>1, <1>2, FS_RemoveElement DEF One
<1>3. Good(0)
    <2> DEFINE g == [s \in Small(0) |-> 0]
    <2>1. \A s \in Small(0) : s = {}
        BY <1>1
    <2>2. Sums(g, 0) /\ g \in [Small(0) -> Int]
        BY <2>1
    <2> QED
        BY <2>2
<1>4. ASSUME NEW n \in Nat \ {0}, Good(n - 1) PROVE Good(n)
    <2>1. PICK g \in [Small(n - 1) -> Int] : Sums(g, n - 1)
        BY <1>4
    <2> DEFINE value(s) == IF s = {} THEN 0 ELSE w[One(s)] + g[s \ {One(s)}]
               h == [s \in Small(n) |-> value(s)]
    <2>2. \A s \in Small(n) : s # {} => s \ {One(s)} \in Small(n - 1)
        BY <1>1, <1>2
    <2>3. h \in [Small(n) -> Int]
        <3> SUFFICES ASSUME NEW s \in Small(n), s # {} PROVE w[One(s)] + g[s \ {One(s)}] \in Int
            OBVIOUS
        <3>1. g[s \ {One(s)}] \in Int
            BY <2>2
        <3>2. w[One(s)] \in Int
            BY <1>2
        <3> QED
            BY <3>1, <3>2
    <2>4. \A s \in Small(n - 1) : s \in Small(n) /\ g[s] = h[s]
        BY <1>1, <2>1
    <2>5. \A s \in Small(n) : h[s] = IF s = {} THEN 0 ELSE w[One(s)] + h[s \ {One(s)}]
        BY <2>2, <2>4
    <2> HIDE DEF h
    <2> QED
        BY <2>3, <2>5
<1> HIDE DEF Good
<1>5. Bad = {}
    <2> SUFFICES ASSUME Bad # {} PROVE FALSE
        OBVIOUS
    <2>1. PICK n \in Bad : \A m \in Bad : n <= m
        BY LeastElement
    <2>2. n \in Nat \ {0}
        BY <1>3
    <2>3. Good(n - 1)
        BY <2>1, <2>2
    <2> QED
        BY <1>4, <2>2, <2>3
<1> DEFINE N == Cardinality(K)
<1>6. N \in Nat /\ Good(N)
    BY <1>1, <1>5
<1>7. Small(N) = SUBSET K
    BY <1>1, FS_Subset
<1> HIDE DEF N
<1>8. PICK g \in [SUBSET K -> Int] : Sums(g, N)
    BY <1>6, <1>7 DEF Good
<1>9. IsSum(g, w, K)
    <2> HIDE DEF Small
    <2> QED
        BY <1>7, <1>8 DEF IsSum
<1> QED
    BY <1>9

\* A sum is an integer, and grows with each of its terms.
LEMMA SumChanges ==
    ASSUME NEW K, IsFiniteSet(K), NEW w \in [K -> Int], NEW k \in K,
           NEW u \in [K -> Int], \A x \in K \ {k} : u[x] = w[x],
           NEW g, IsSum(g, w, K), NEW h, IsSum(h, u, K)
    PROVE  g[K] \in Int /\ h[K] = g[K] + u[k] - w[k]
<1> DEFINE Good(s) == g[s] \in Int /\ h[s] = g[s] + (IF k \in s THEN u[k] - w[k] ELSE 0)
           Bad == {s \in SUBSET K : ~ Good(s)}
<1>1. \A s \in SUBSET K : s # {} => One(s) \in s /\ s \ {One(s)} \in SUBSET s /\ s \ {One(s)} # s
    BY DEF One
<1>3. Bad = {}
    <2> SUFFICES ASSUME Bad # {} PROVE FALSE
        OBVIOUS
    <2>1. PICK s \in Bad : \A t \in SUBSET s : t # s => t \notin Bad
        <3>1. Bad \in SUBSET (SUBSET K) /\ Bad # {}
            OBVIOUS
        <3> HIDE DEF Bad
        <3> QED
            BY <3>1, SmallestSubset
    <2>2. CASE s = {}
        BY <2>2 DEF IsSum
    <2>3. CASE s # {}
        <3> DEFINE x == One(s)
        <3>1. x \in s /\ s \ {x} \in SUBSET K /\ Good(s \ {x})
            BY <1>1, <2>1, <2>3
        <3>2. g[s] = w[x] + g[s \ {x}] /\ h[s] = u[x] + h[s \ {x}]
            BY <2>3 DEF IsSum
        <3>3. w[x] \in Int /\ w[k] \in Int /\ u[k] \in Int /\ (x # k => u[x] = w[x])
            BY <3>1
        <3>4. x \in K /\ s \in SUBSET K
            BY <3>1
        <3> HIDE DEF x
        <3>5. Good(s)
            <4>1. CASE x = k
                BY <3>1, <3>2, <3>3, <4>1
            <4>2. CASE x # k
                BY <3>1, <3>2, <3>3, <4>2
            <4> QED
                BY <4>1, <4>2
        <3> QED
            BY <3>5
    <2> QED
        BY <2>2, <2>3
<1> QED
    <2>1. Good(K)
        BY <1>3
    <2>2. w[k] \in Int /\ u[k] \in Int
        OBVIOUS
    <2> QED
        BY <2>1, <2>2

\* Total is such a sum.
TotalOf(w) == MapThenFoldSet(+, 0, LAMBDA k : w[k], LAMBDA S : CHOOSE k \in S : TRUE, Keys)

LEMMA TotalIsSum ==
    ASSUME ConstantsOK, NEW w \in [Keys -> Int]
    PROVE  \E g : IsSum(g, w, Keys) /\ TotalOf(w) = g[Keys]
<1> DEFINE Turn(g) == [s \in SUBSET Keys |->
                          IF s = {} THEN 0
                          ELSE w[CHOOSE k \in s : TRUE] + g[s \ {CHOOSE k \in s : TRUE}]]
           f == CHOOSE g : g = Turn(g)
<1>1. \E g : g = Turn(g)
    <2>1. PICK g : IsSum(g, w, Keys)
        BY SumExists DEF ConstantsOK
    <2>2. g = Turn(g)
        BY <2>1 DEF IsSum, One
    <2> QED
        BY <2>2
<1>2. f = Turn(f)
    BY <1>1
<1>3. TotalOf(w) = f[Keys]
    BY DEF TotalOf, MapThenFoldSet
<1>4. IsSum(f, w, Keys)
    <2> HIDE DEF f
    <2> QED
        BY <1>2 DEF IsSum, One
<1> QED
    BY <1>3, <1>4

LEMMA TotalChanges ==
    ASSUME ConstantsOK, NEW w \in [Keys -> Int], NEW k \in Keys,
           NEW u \in [Keys -> Int], \A x \in Keys \ {k} : u[x] = w[x]
    PROVE  TotalOf(w) \in Int /\ TotalOf(u) = TotalOf(w) + u[k] - w[k]
<1>1. PICK g : IsSum(g, w, Keys) /\ TotalOf(w) = g[Keys]
    BY TotalIsSum
<1>2. PICK h : IsSum(h, u, Keys) /\ TotalOf(u) = h[Keys]
    BY TotalIsSum
<1>3. IsFiniteSet(Keys)
    BY DEF ConstantsOK
<1>4. g[Keys] \in Int /\ h[Keys] = g[Keys] + u[k] - w[k]
    BY <1>1, <1>2, <1>3, SumChanges
<1> QED
    BY <1>1, <1>2, <1>4, Zenon

\* No value has a length yet.
LEMMA TotalOfNone ==
    ASSUME ConstantsOK PROVE TotalOf([k \in Keys |-> 0]) = 0
<1> DEFINE w == [k \in Keys |-> 0]
<1>1. PICK g : IsSum(g, w, Keys) /\ TotalOf(w) = g[Keys]
    BY TotalIsSum
<1> DEFINE Bad == {s \in SUBSET Keys : g[s] # 0}
<1>2. Bad = {}
    <2> SUFFICES ASSUME Bad # {} PROVE FALSE
        OBVIOUS
    <2>1. PICK s \in Bad : \A t \in SUBSET s : t # s => t \notin Bad
        <3>1. Bad \in SUBSET (SUBSET Keys) /\ Bad # {}
            OBVIOUS
        <3> HIDE DEF Bad
        <3> QED
            BY <3>1, SmallestSubset DEF ConstantsOK
    <2>2. s # {}
        BY <1>1, <2>1 DEF IsSum
    <2>3. One(s) \in s
        BY <2>2 DEF One
    <2>4. g[s \ {One(s)}] = 0
        BY <2>1, <2>3
    <2>5. g[s] = w[One(s)] + g[s \ {One(s)}]
        BY <1>1, <2>2 DEF IsSum
    <2> QED
        BY <2>1, <2>3, <2>4, <2>5
<1> QED
    BY <1>1, <1>2

LEMMA TotalsRead == \A r \in Regions : Total(r) = TotalOf(size[r]) /\ Total(r)' = TotalOf(size'[r])
    BY DEF Total, TotalOf, MapThenFoldSet

\* A pool and its region change together except in the calls that go past the pool,
\* and those are remembered in direct; that a region counts at most its capacity needs
\* the check made before every allocation and lengths that are not negative.
MemoryInv == TypeOK /\ HandlesMatch /\ WithinCapacity /\ UsedExplained

LEMMA InitMemoryInv == ConstantsOK /\ Init => MemoryInv
<1> SUFFICES ASSUME ConstantsOK, Init PROVE MemoryInv
    OBVIOUS
<1>1. UsedExplained
    BY TotalOfNone, TotalsRead DEF Init, UsedExplained
<1> QED
    BY <1>1 DEF ConstantsOK, Init, MemoryInv, TypeOK, HandlesMatch, WithinCapacity, NoHandle

\* What a region counts changes by what its values change, for the two that a call may touch.
LEMMA ExplainedKept ==
    ASSUME ConstantsOK, MemoryInv, NEW r \in Regions, NEW k \in Keys, NEW v \in Int, NEW d \in Int,
           size'[r] = [size[r] EXCEPT ![k] = v], used'[r] = used[r] + d,
           \A q \in Regions \ {r} : size'[q] = size[q] /\ used'[q] = used[q]
                                    /\ overwritten'[q] = overwritten[q] /\ grown'[q] = grown[q],
           overwritten'[r] - grown'[r] = overwritten[r] - grown[r] + d - (v - size[r][k]),
           overwritten'[r] \in Int, grown'[r] \in Int
    PROVE  UsedExplained'
<1>1. /\ size \in [Regions -> [Keys -> Nat]] /\ used \in [Regions -> Int]
      /\ overwritten \in [Regions -> Nat] /\ grown \in [Regions -> Int]
    BY DEF MemoryInv, TypeOK
<1> SUFFICES ASSUME NEW q \in Regions PROVE used'[q] = Total(q)' + overwritten'[q] - grown'[q]
    BY DEF UsedExplained
<1>2. used[q] = TotalOf(size[q]) + overwritten[q] - grown[q] /\ Total(q)' = TotalOf(size'[q])
    BY TotalsRead DEF MemoryInv, UsedExplained
<1>3. CASE q # r
    BY <1>2, <1>3
<1>4. CASE q = r
    <2>1. size[r] \in [Keys -> Int] /\ size[r][k] \in Int
        BY <1>1
    <2>2. /\ size'[r] \in [Keys -> Int] /\ size'[r][k] = v
          /\ \A x \in Keys \ {k} : size'[r][x] = size[r][x]
        BY <2>1
    <2>3. TotalOf(size[r]) \in Int /\ TotalOf(size'[r]) = TotalOf(size[r]) + v - size[r][k]
        BY <2>1, <2>2, TotalChanges
    <2>4. used[r] \in Int /\ overwritten[r] \in Int /\ grown[r] \in Int
        BY <1>1
    <2> QED
        BY <1>2, <1>4, <2>1, <2>3, <2>4
<1> QED
    BY <1>3, <1>4

LEMMA ExplainedRests == UsedExplained /\ UNCHANGED <<size, used, overwritten, grown>> => UsedExplained'
    BY TotalsRead DEF UsedExplained

LEMMA CreateKeeps ==
    ASSUME MemoryInv, NEW n \in Names, NEW r \in Regions, CreateRegion(n, r) PROVE MemoryInv'
    BY ExplainedRests DEF CreateRegion, MemoryInv, TypeOK, HandlesMatch, WithinCapacity

\* Storing a value that fits.
LEMMA AllocateTyped ==
    ASSUME ConstantsOK, MemoryInv, NEW r \in Regions, NEW k \in Keys, NEW s \in Sizes,
           Fits(r, k, s), RegionAllocate(r, k, s)
    PROVE  /\ stored' \in [Regions -> SUBSET Keys] /\ size' \in [Regions -> [Keys -> Nat]]
           /\ used' \in [Regions -> Int]
           /\ overwritten' \in [Regions -> Nat] /\ grown' \in [Regions -> Int]
           /\ WithinCapacity' /\ UsedExplained'
<1>1. s \in Nat /\ Capacity \in Nat
    BY DEF ConstantsOK
<1>2. size[r][k] \in Nat /\ used[r] \in Int /\ overwritten[r] \in Nat
    BY DEF MemoryInv, TypeOK
<1>3. /\ stored' \in [Regions -> SUBSET Keys]
      /\ grown' \in [Regions -> Int]
    BY DEF RegionAllocate, MemoryInv, TypeOK
<1>4. size' \in [Regions -> [Keys -> Nat]]
    BY <1>1 DEF RegionAllocate, MemoryInv, TypeOK
<1>5. overwritten' \in [Regions -> Nat]
    BY <1>2 DEF RegionAllocate, MemoryInv, TypeOK
<1>6. used' \in [Regions -> Int] /\ WithinCapacity'
    BY <1>1, <1>2 DEF RegionAllocate, Fits, MemoryInv, TypeOK, WithinCapacity
<1>7. UsedExplained'
    <2>1. /\ size'[r] = [size[r] EXCEPT ![k] = s] /\ used'[r] = used[r] + s
          /\ overwritten'[r] = overwritten[r] + size[r][k] /\ grown' = grown
          /\ \A q \in Regions \ {r} : size'[q] = size[q] /\ used'[q] = used[q]
                                    /\ overwritten'[q] = overwritten[q] /\ grown'[q] = grown[q]
        BY DEF RegionAllocate, MemoryInv, TypeOK
    <2>2. grown[r] \in Int
        BY DEF MemoryInv, TypeOK
    <2> QED
        BY <1>1, <1>2, <2>1, <2>2, ExplainedKept
<1> QED
    BY <1>3, <1>4, <1>5, <1>6, <1>7

LEMMA FreeTyped ==
    ASSUME ConstantsOK, MemoryInv, NEW r \in Regions, NEW k \in Keys, RegionFree(r, k)
    PROVE  /\ stored' \in [Regions -> SUBSET Keys] /\ size' \in [Regions -> [Keys -> Nat]]
           /\ used' \in [Regions -> Int]
           /\ overwritten' \in [Regions -> Nat] /\ grown' \in [Regions -> Int]
           /\ WithinCapacity' /\ UsedExplained'
<1>1. size[r][k] \in Nat /\ used[r] \in Int /\ Capacity \in Nat
    BY DEF ConstantsOK, MemoryInv, TypeOK
<1>2. /\ stored' \in [Regions -> SUBSET Keys]
      /\ overwritten' \in [Regions -> Nat] /\ grown' \in [Regions -> Int]
    BY DEF RegionFree, MemoryInv, TypeOK
<1>3. size' \in [Regions -> [Keys -> Nat]]
    BY DEF RegionFree, MemoryInv, TypeOK
<1>4. used' \in [Regions -> Int] /\ WithinCapacity'
    BY <1>1 DEF RegionFree, Freed, MemoryInv, TypeOK, WithinCapacity
<1>5. UsedExplained'
    <2>1. overwritten[r] \in Int /\ grown[r] \in Int
        BY DEF MemoryInv, TypeOK
    <2> DEFINE d == 0 - size[r][k]
    <2>2. d \in Int /\ used[r] - size[r][k] = used[r] + d
        BY <1>1
    <2>3. /\ size'[r] = [size[r] EXCEPT ![k] = 0] /\ used'[r] = used[r] + d
          /\ overwritten' = overwritten /\ grown' = grown
          /\ \A q \in Regions \ {r} : size'[q] = size[q] /\ used'[q] = used[q]
                                    /\ overwritten'[q] = overwritten[q] /\ grown'[q] = grown[q]
        BY <2>2 DEF RegionFree, Freed, MemoryInv, TypeOK
    <2>4. overwritten[r] - grown[r] = overwritten[r] - grown[r] + d - (0 - size[r][k])
        BY <1>1, <2>1
    <2> HIDE DEF d
    <2>5. /\ overwritten'[r] - grown'[r] = overwritten[r] - grown[r] + d - (0 - size[r][k])
          /\ overwritten'[r] \in Int /\ grown'[r] \in Int
        BY <2>1, <2>3, <2>4
    <2> QED
        BY <2>2, <2>3, <2>5, ExplainedKept
<1> QED
    BY <1>2, <1>3, <1>4, <1>5

LEMMA AllocateKeeps ==
    ASSUME ConstantsOK, MemoryInv, NEW n \in Names, NEW k \in Keys, NEW s \in Sizes, Allocate(n, k, s)
    PROVE  MemoryInv'
<1> DEFINE r == region[n]
<1>1. r \in Regions /\ s \in Nat
    BY DEF ConstantsOK, MemoryInv, TypeOK, Allocate
<1>2. /\ Fits(r, k, s) /\ RegionAllocate(r, k, s)
      /\ handles' = [handles EXCEPT ![r][k] = s]
      /\ UNCHANGED <<created, region, direct>>
    BY DEF Allocate, PoolAllocate
<1> HIDE DEF r
<1>3. handles' \in [Regions -> [Keys -> Nat \cup {NoHandle}]]
    BY <1>1, <1>2 DEF MemoryInv, TypeOK
<1>4. TypeOK' /\ WithinCapacity' /\ UsedExplained'
    BY <1>1, <1>2, <1>3, AllocateTyped DEF MemoryInv, TypeOK
<1>5. HandlesMatch'
    BY <1>1, <1>2 DEF MemoryInv, TypeOK, HandlesMatch, RegionAllocate, NoHandle
<1> QED
    BY <1>4, <1>5 DEF MemoryInv

LEMMA FreeKeeps ==
    ASSUME ConstantsOK, MemoryInv, NEW n \in Names, NEW k \in Keys, Free(n, k) PROVE MemoryInv'
<1> DEFINE r == region[n]
<1>1. r \in Regions
    BY DEF ConstantsOK, MemoryInv, TypeOK, Free
<1>2. /\ RegionFree(r, k) /\ handles' = [handles EXCEPT ![r][k] = NoHandle]
      /\ UNCHANGED <<created, region, direct>>
    BY DEF Free, PoolFree, Released
<1> HIDE DEF r
<1>3. handles' \in [Regions -> [Keys -> Nat \cup {NoHandle}]]
    BY <1>1, <1>2 DEF MemoryInv, TypeOK
<1>4. TypeOK' /\ WithinCapacity' /\ UsedExplained'
    BY <1>1, <1>2, <1>3, FreeTyped DEF MemoryInv, TypeOK
<1>5. HandlesMatch'
    BY <1>1, <1>2 DEF MemoryInv, TypeOK, HandlesMatch, RegionFree
<1> QED
    BY <1>4, <1>5 DEF MemoryInv

\* Calls past the pool: their region is excepted from then on.
LEMMA DirectKeeps ==
    ASSUME ConstantsOK, MemoryInv, NEW r \in Regions, NEW k \in Keys,
           FreeDirect(r, k) \/ \E s \in Sizes : AllocateDirect(r, k, s)
    PROVE  MemoryInv'
<1>1. direct' = direct \cup {r} /\ UNCHANGED <<created, region, handles>>
    BY DEF FreeDirect, AllocateDirect
<1>2. /\ stored' \in [Regions -> SUBSET Keys] /\ size' \in [Regions -> [Keys -> Nat]]
      /\ used' \in [Regions -> Int]
      /\ overwritten' \in [Regions -> Nat] /\ grown' \in [Regions -> Int]
      /\ WithinCapacity' /\ UsedExplained'
    BY AllocateTyped, FreeTyped DEF FreeDirect, AllocateDirect
<1>3. \A q \in Regions \ {r} : stored'[q] = stored[q]
    BY DEF FreeDirect, AllocateDirect, RegionFree, RegionAllocate, MemoryInv, TypeOK
<1>4. TypeOK'
    BY <1>1, <1>2 DEF MemoryInv, TypeOK
<1>5. HandlesMatch'
    BY <1>1, <1>3 DEF MemoryInv, HandlesMatch
<1> QED
    BY <1>2, <1>4, <1>5 DEF MemoryInv

LEMMA MutateKeeps ==
    ASSUME ConstantsOK, MemoryInv, NEW r \in Regions, NEW k \in Keys, NEW s \in Sizes, Mutate(r, k, s)
    PROVE  MemoryInv'
<1>1. s \in Nat /\ size[r][k] \in Nat /\ grown[r] \in Int
    BY DEF ConstantsOK, MemoryInv, TypeOK
<1>2. size' \in [Regions -> [Keys -> Nat]]
    BY <1>1 DEF Mutate, MemoryInv, TypeOK
<1>3. grown' \in [Regions -> Int]
    BY <1>1 DEF Mutate, MemoryInv, TypeOK
<1>4. UsedExplained'
    <2>1. /\ size'[r] = [size[r] EXCEPT ![k] = s] /\ used'[r] = used[r] + 0
          /\ grown'[r] = grown[r] + s - size[r][k] /\ overwritten' = overwritten
          /\ \A q \in Regions \ {r} : size'[q] = size[q] /\ used'[q] = used[q]
                                    /\ overwritten'[q] = overwritten[q] /\ grown'[q] = grown[q]
        BY DEF Mutate, MemoryInv, TypeOK
    <2>2. overwritten[r] \in Int
        BY DEF MemoryInv, TypeOK
    <2>3. /\ overwritten'[r] - grown'[r] = overwritten[r] - grown[r] + 0 - (s - size[r][k])
          /\ overwritten'[r] \in Int /\ grown'[r] \in Int /\ s \in Int
        BY <1>1, <2>1, <2>2
    <2> QED
        BY <2>1, <2>3, ExplainedKept
<1> QED
    BY <1>2, <1>3, <1>4 DEF Mutate, MemoryInv, TypeOK, HandlesMatch, WithinCapacity

LEMMA NextMemoryInv == ConstantsOK /\ MemoryInv /\ [Next]_vars => MemoryInv'
<1> SUFFICES ASSUME ConstantsOK, MemoryInv, [Next]_vars PROVE MemoryInv'
    OBVIOUS
<1>1. CASE UNCHANGED vars
    BY <1>1, ExplainedRests DEF vars, MemoryInv, TypeOK, HandlesMatch, WithinCapacity
<1> QED
    BY <1>1, CreateKeeps, DirectKeeps, FreeKeeps, AllocateKeeps, MutateKeeps DEF Next

LEMMA MemoryInvariance == ASSUME ConstantsOK PROVE Spec => []MemoryInv
    BY InitMemoryInv, NextMemoryInv, PTL DEF Spec

-----------------------------------------------------------------------------

\* pool.py: as long as nobody goes past the pool of a region, the pool has handles
\* for exactly what the region stores.
THEOREM HandlesAreExact == ASSUME ConstantsOK PROVE Spec => []HandlesMatch
<1>1. MemoryInv => HandlesMatch
    BY DEF MemoryInv
<1> QED
    BY <1>1, MemoryInvariance, PTL

\* region.py: a region never counts more than its capacity as used, and what it counts
\* is explained to the last by what is stored, replaced and grown.
THEOREM CapacityHolds ==
    ASSUME ConstantsOK PROVE Spec => [](TypeOK /\ WithinCapacity /\ UsedExplained)
<1>1. MemoryInv => TypeOK /\ WithinCapacity /\ UsedExplained
    BY DEF MemoryInv
<1> QED
    BY <1>1, MemoryInvariance, PTL

-----------------------------------------------------------------------------
(* Hypervisor *)

\* How often z occurs in s.
Times(s, z) == Cardinality({k \in DOMAIN s : s[k] = z})

LEMMA TimesFinite ==
    ASSUME NEW S, NEW s \in Seq(S), NEW z
    PROVE  /\ IsFiniteSet({k \in DOMAIN s : s[k] = z})
           /\ Times(s, z) \in Nat
<1>1. DOMAIN s = 1 .. Len(s) /\ Len(s) \in Nat
    OBVIOUS
<1>2. IsFiniteSet(1 .. Len(s))
    BY <1>1, FS_Interval
<1>3. {k \in DOMAIN s : s[k] = z} \subseteq 1 .. Len(s)
    BY <1>1
<1> QED
    BY <1>2, <1>3, FS_Subset, FS_CardinalityType DEF Times

LEMMA TimesAppended ==
    ASSUME NEW S, NEW s \in Seq(S), NEW x \in S, NEW z
    PROVE  Times(Append(s, x), z) = Times(s, z) + (IF x = z THEN 1 ELSE 0)
<1> DEFINE P == {k \in DOMAIN s : s[k] = z}
           t == Append(s, x)
           Q == {k \in DOMAIN t : t[k] = z}
           n == Len(s) + 1
<1>1. /\ DOMAIN s = 1 .. Len(s) /\ Len(s) \in Nat
      /\ DOMAIN t = 1 .. n /\ t[n] = x /\ \A k \in 1 .. Len(s) : t[k] = s[k]
    OBVIOUS
<1>2. IsFiniteSet(P) /\ Cardinality(P) \in Nat /\ n \notin P
    <2>1. IsFiniteSet(P)
        BY TimesFinite
    <2>2. Times(s, z) \in Nat
        BY TimesFinite
    <2>3. n \notin P
        BY <1>1
    <2> QED
        BY <2>1, <2>2, <2>3 DEF Times
<1>5. Times(t, z) = Cardinality(Q) /\ Times(s, z) = Cardinality(P)
    BY DEF Times
<1> HIDE DEF t
<1>3. CASE x = z
    <2>1. Q = P \cup {n}
        BY <1>1, <1>3
    <2>2. Cardinality(P \cup {n}) = Cardinality(P) + 1
        BY <1>2, FS_AddElement
    <2> QED
        BY <1>3, <1>5, <2>1, <2>2 DEF t
<1>4. CASE x # z
    <2>1. Q = P
        BY <1>1, <1>4
    <2> QED
        <3>1. Times(t, z) = Times(s, z)
            BY <1>5, <2>1
        <3>2. Times(s, z) \in Nat
            BY TimesFinite
        <3> QED
            BY <1>4, <3>1, <3>2 DEF t
<1> QED
    BY <1>3, <1>4 DEF t

LEMMA TimesUnwound ==
    ASSUME NEW S, NEW s \in Seq(S), s # <<>>, NEW z
    PROVE  Times(SubSeq(s, 1, Len(s) - 1), z) = Times(s, z) - (IF s[Len(s)] = z THEN 1 ELSE 0)
<1> DEFINE t == SubSeq(s, 1, Len(s) - 1)
           x == s[Len(s)]
<1>1. t \in Seq(S) /\ x \in S /\ s = Append(t, x)
    <2>1. Len(s) \in Nat \ {0} /\ t \in Seq(S) /\ Len(t) = Len(s) - 1 /\ x \in S
          /\ \A k \in 1 .. Len(s) - 1 : t[k] = s[k]
        BY FrontFacts
    <2> HIDE DEF t
    <2>2. Append(t, x) \in Seq(S) /\ Len(Append(t, x)) = Len(s)
          /\ Append(t, x)[Len(s)] = x /\ \A k \in 1 .. Len(s) - 1 : Append(t, x)[k] = t[k]
        BY <2>1, AppendFacts
    <2>3. \A k \in 1 .. Len(s) : k = Len(s) \/ k \in 1 .. Len(s) - 1
        BY <2>1
    <2>4. \A k \in 1 .. Len(s) : Append(t, x)[k] = s[k]
        BY <2>1, <2>2, <2>3
    <2> HIDE DEF x
    <2> QED
        BY <2>1, <2>2, <2>4
<1>2. Times(s, z) = Times(t, z) + (IF x = z THEN 1 ELSE 0)
    <2> HIDE DEF t, x
    <2> QED
        BY <1>1, TimesAppended
<1>3. Times(t, z) \in Nat
    BY <1>1, TimesFinite
<1> QED
    BY <1>2, <1>3

LEMMA ZonesUnderWay ==
    \A z : Zones!UnderWay(z) = Times(executing, z) /\ Zones!UnderWay(z)' = Times(executing', z)
    BY DEF Zones!UnderWay, Times, Zones!Cardinality, Cardinality

\* What a zone was told to do is remembered at its object, whatever its name stands for.
ZonesInv ==
    /\ Zones!TypeOK
    /\ Len(logs) = Len(zones) /\ Len(started) = Len(zones) /\ Len(failed) = Len(zones)
    /\ \A z \in DOMAIN zones :
          /\ zones[z].running \/ z \in booted \/ started[z] > 0 => zones[z].initialized
          /\ started[z] = Times(executing, z) + logs[z] + failed[z]

LEMMA ZonesInit == Zones!Init => ZonesInv
    BY DEF Zones!Init, ZonesInv, Zones!TypeOK

LEMMA ZoneCreated ==
    ASSUME ZonesInv, NEW n \in Names, Zones!CreateZone(n) PROVE ZonesInv'
<1> DEFINE z0 == [initialized |-> FALSE, running |-> FALSE, terminated |-> FALSE]
           N == Len(zones)
<1>1. /\ zones' = Append(zones, z0) /\ z0 \in Zones!ZoneState
      /\ logs' = Append(logs, 0) /\ started' = Append(started, 0) /\ failed' = Append(failed, 0)
      /\ UNCHANGED <<kernel, booted, sandbox, executing>>
    BY DEF Zones!CreateZone, Zones!ZoneState
<1>2. /\ zones \in Seq(Zones!ZoneState) /\ logs \in Seq(Nat) /\ started \in Seq(Nat) /\ failed \in Seq(Nat)
      /\ Len(logs) = N /\ Len(started) = N /\ Len(failed) = N
      /\ N \in Nat /\ DOMAIN zones = 1 .. N /\ booted \subseteq 1 .. N /\ executing \in Seq(1 .. N)
    BY DEF ZonesInv, Zones!TypeOK
<1> HIDE DEF z0
<1>3. /\ zones' \in Seq(Zones!ZoneState) /\ DOMAIN zones' = 1 .. N + 1 /\ Len(zones') = N + 1
      /\ zones'[N + 1] = z0 /\ \A z \in 1 .. N : zones'[z] = zones[z]
    BY <1>1, <1>2
<1>4. /\ logs' \in Seq(Nat) /\ Len(logs') = N + 1 /\ logs'[N + 1] = 0 /\ \A z \in 1 .. N : logs'[z] = logs[z]
      /\ started' \in Seq(Nat) /\ Len(started') = N + 1 /\ started'[N + 1] = 0
      /\ \A z \in 1 .. N : started'[z] = started[z]
      /\ failed' \in Seq(Nat) /\ Len(failed') = N + 1 /\ failed'[N + 1] = 0
      /\ \A z \in 1 .. N : failed'[z] = failed[z]
    BY <1>1, <1>2, AppendFacts
<1>5. Zones!TypeOK'
    <2>1. zone' \in [Names -> 0 .. N + 1]
        BY <1>2, <1>3 DEF ZonesInv, Zones!TypeOK, Zones!CreateZone
    <2>2. kernel' \in [Names -> 0 .. N + 1] /\ sandbox' \in [Names -> 0 .. N + 1]
        BY <1>1, <1>2 DEF ZonesInv, Zones!TypeOK
    <2>3. executing' \in Seq(1 .. N + 1) /\ booted' \subseteq 1 .. N + 1
        BY <1>1, <1>2
    <2> QED
        BY <1>3, <1>4, <2>1, <2>2, <2>3 DEF Zones!TypeOK
<1>6. Times(executing, N + 1) = 0
    <2>1. {k \in DOMAIN executing : executing[k] = N + 1} = {}
        BY <1>2
    <2> QED
        BY <2>1, FS_EmptySet DEF Times
<1>7. \A z \in DOMAIN zones' :
          /\ zones'[z].running \/ z \in booted' \/ started'[z] > 0 => zones'[z].initialized
          /\ started'[z] = Times(executing', z) + logs'[z] + failed'[z]
    <2> SUFFICES ASSUME NEW z \in 1 .. N + 1
                 PROVE  /\ zones'[z].running \/ z \in booted' \/ started'[z] > 0 => zones'[z].initialized
                        /\ started'[z] = Times(executing', z) + logs'[z] + failed'[z]
        BY <1>3
    <2>1. CASE z = N + 1
        <3>1. ~ zones'[z].running /\ z \notin booted' /\ started'[z] = 0
            BY <1>1, <1>2, <1>3, <1>4, <2>1 DEF z0
        <3> QED
            BY <1>1, <1>4, <1>6, <2>1, <3>1
    <2>2. CASE z \in 1 .. N
        BY <1>1, <1>2, <1>3, <1>4, <2>2 DEF ZonesInv
    <2>3. z = N + 1 \/ z \in 1 .. N
        BY <1>2
    <2> HIDE DEF N
    <2> QED
        BY <2>1, <2>2, <2>3, Zenon
<1> QED
    BY <1>3, <1>4, <1>5, <1>7 DEF ZonesInv

\* A zone object is initialized, started or terminated.
LEMMA ZoneTold ==
    ASSUME ZonesInv, NEW z \in DOMAIN zones, NEW state1 \in Zones!ZoneState,
           zones' = [zones EXCEPT ![z] = state1],
           zones[z].initialized => state1.initialized, state1.running => state1.initialized,
           UNCHANGED <<executing, logs, started, failed>>,
           zone' = zone, sandbox' = sandbox, kernel' \in [Names -> 0 .. Len(zones)],
           booted' \subseteq booted \cup {z}, z \in booted' \ booted => state1.initialized
    PROVE  ZonesInv'
<1>1. /\ zones' \in Seq(Zones!ZoneState) /\ DOMAIN zones' = DOMAIN zones /\ Len(zones') = Len(zones)
      /\ zones'[z] = state1 /\ \A y \in DOMAIN zones \ {z} : zones'[y] = zones[y]
    BY DEF ZonesInv, Zones!TypeOK
<1>2. Zones!TypeOK'
    BY <1>1 DEF ZonesInv, Zones!TypeOK
<1>3. \A y \in DOMAIN zones' :
          /\ zones'[y].running \/ y \in booted' \/ started'[y] > 0 => zones'[y].initialized
          /\ started'[y] = Times(executing', y) + logs'[y] + failed'[y]
    BY <1>1 DEF ZonesInv
<1> QED
    BY <1>1, <1>2, <1>3 DEF ZonesInv

LEMMA ZoneCalls ==
    ASSUME ZonesInv, NEW z \in DOMAIN zones,
           Zones!Initialize(z) \/ Zones!Start(z) \/ Zones!Terminate(z)
    PROVE  ZonesInv'
<1>1. /\ zones[z] \in Zones!ZoneState /\ kernel \in [Names -> 0 .. Len(zones)]
      /\ zones[z].running => zones[z].initialized
    BY DEF ZonesInv, Zones!TypeOK
<1>2. CASE Zones!Initialize(z)
    <2>1. [zones[z] EXCEPT !.initialized = TRUE] \in Zones!ZoneState
        BY <1>1 DEF Zones!ZoneState
    <2>2. zones' = [zones EXCEPT ![z] = [zones[z] EXCEPT !.initialized = TRUE]]
        BY <1>2 DEF Zones!Initialize, Zones!Initialized
    <2> DEFINE s == [zones[z] EXCEPT !.initialized = TRUE]
    <2>3. s.initialized
        BY <1>1 DEF Zones!ZoneState
    <2> HIDE DEF s
    <2> QED
        BY <1>1, <1>2, <2>1, <2>2, <2>3, ZoneTold DEF Zones!Initialize, s
<1>3. CASE Zones!Start(z)
    <2> DEFINE s == [zones[z] EXCEPT !.running = TRUE]
    <2>1. s \in Zones!ZoneState /\ zones' = [zones EXCEPT ![z] = s]
        BY <1>1, <1>3 DEF Zones!ZoneState, Zones!Start
    <2>2. s.initialized = zones[z].initialized /\ zones[z].initialized
        BY <1>1, <1>3 DEF Zones!ZoneState, Zones!Start
    <2> HIDE DEF s
    <2> QED
        BY <1>1, <1>3, <2>1, <2>2, ZoneTold DEF Zones!Start
<1>4. CASE Zones!Terminate(z)
    <2> DEFINE s == [zones[z] EXCEPT !.terminated = TRUE, !.running = FALSE]
    <2>1. s \in Zones!ZoneState /\ s.initialized = zones[z].initialized /\ ~ s.running
        BY <1>1 DEF Zones!ZoneState
    <2>2. zones' = [zones EXCEPT ![z] = s]
        BY <1>4 DEF Zones!Terminate, ZonesInv, Zones!TypeOK
    <2> HIDE DEF s
    <2> QED
        BY <1>1, <1>4, <2>1, <2>2, ZoneTold DEF Zones!Terminate
<1> QED
    BY <1>2, <1>3, <1>4

LEMMA KernelBooted ==
    ASSUME ZonesInv, NEW n \in Names, Zones!BootKernel(n) PROVE ZonesInv'
<1> DEFINE z == zone[n]
           s == [zones[z] EXCEPT !.initialized = TRUE]
<1>1. z \in DOMAIN zones /\ z \in 0 .. Len(zones) /\ zones[z] \in Zones!ZoneState
    BY DEF ZonesInv, Zones!TypeOK, Zones!BootKernel
<1>2. s \in Zones!ZoneState /\ s.initialized
    BY <1>1 DEF Zones!ZoneState
<1>3. zones' = [zones EXCEPT ![z] = s] /\ kernel' = [kernel EXCEPT ![n] = z] /\ booted' = booted \cup {z}
      /\ UNCHANGED <<zone, sandbox, executing, logs, started, failed>>
    BY DEF Zones!BootKernel, Zones!Initialized
<1>4. kernel' \in [Names -> 0 .. Len(zones)]
    BY <1>1, <1>3 DEF ZonesInv, Zones!TypeOK
<1> HIDE DEF z, s
<1> QED
    BY <1>1, <1>2, <1>3, <1>4, ZoneTold

LEMMA SandboxCreated ==
    ASSUME ZonesInv, NEW n \in Names, Zones!CreateSandbox(n) PROVE ZonesInv'
    BY DEF ZonesInv, Zones!TypeOK, Zones!CreateSandbox

LEMMA ExecuteKeeps ==
    ASSUME ZonesInv, NEW n \in Names, Zones!Execute(n) PROVE ZonesInv'
<1> DEFINE z == sandbox[n]
<1>1. z \in DOMAIN zones /\ zones[z].running /\ started \in Seq(Nat) /\ started[z] \in Nat
      /\ executing \in Seq(DOMAIN zones) /\ DOMAIN started = DOMAIN zones
      /\ DOMAIN zones = 1 .. Len(zones) /\ Len(started) = Len(zones) /\ Len(zones) \in Nat
    BY DEF ZonesInv, Zones!TypeOK, Zones!Execute
<1>2. /\ executing' = Append(executing, z) /\ started' = [started EXCEPT ![z] = @ + 1]
      /\ UNCHANGED <<zones, zone, kernel, booted, sandbox, logs, failed>>
    BY DEF Zones!Execute
<1> HIDE DEF z
<1>3. /\ started' \in Seq(Nat) /\ Len(started') = Len(started) /\ executing' \in Seq(DOMAIN zones)
      /\ started'[z] = started[z] + 1 /\ \A y \in DOMAIN zones \ {z} : started'[y] = started[y]
    BY <1>1, <1>2
<1>4. Zones!TypeOK'
    BY <1>2, <1>3 DEF ZonesInv, Zones!TypeOK
<1>5. ASSUME NEW y \in DOMAIN zones
      PROVE  /\ zones[y].running \/ y \in booted \/ started'[y] > 0 => zones[y].initialized
             /\ started'[y] = Times(executing', y) + logs[y] + failed[y]
    <2>1. Times(executing', y) = Times(executing, y) + (IF z = y THEN 1 ELSE 0) /\ Times(executing, y) \in Nat
        <3>1. PICK all, q, r, x : all = DOMAIN zones /\ q = executing /\ r = executing' /\ x = z
            OBVIOUS
        <3>2. q \in Seq(all) /\ x \in all /\ r = Append(q, x)
            BY <1>1, <1>2, <3>1
        <3>3. Times(Append(q, x), y) = Times(q, y) + (IF x = y THEN 1 ELSE 0)
            BY ONLY <3>2, TimesAppended
        <3>4. Times(q, y) \in Nat
            BY ONLY <3>2, TimesFinite
        <3> QED
            BY ONLY <3>1, <3>2, <3>3, <3>4
    <2>2. logs[y] \in Nat /\ failed[y] \in Nat /\ started[y] = Times(executing, y) + logs[y] + failed[y]
        BY SMTT(30) DEF ZonesInv, Zones!TypeOK
    <2>3. zones[y].running \/ y \in booted \/ started[y] > 0 => zones[y].initialized
        BY DEF ZonesInv
    <2>4. started'[y] = started[y] + (IF z = y THEN 1 ELSE 0)
        <3>1. started[y] \in Nat
            BY <1>1
        <3>2. CASE y = z
            BY <1>3, <3>1, <3>2
        <3>3. CASE y # z
            BY <1>3, <3>1, <3>3
        <3> QED
            BY <3>2, <3>3
    <2>5. started'[y] = Times(executing', y) + logs[y] + failed[y]
        BY <2>1, <2>2, <2>4
    <2>6. zones[y].running \/ y \in booted \/ started'[y] > 0 => zones[y].initialized
        <3>1. z = y => zones[y].initialized
            BY <1>1, <2>3
        <3>2. z # y => started'[y] = started[y]
            BY <1>3
        <3>3. PICK a, b : a = started[y] /\ b = started'[y]
            OBVIOUS
        <3>4. z # y => a = b
            BY ONLY <3>2, <3>3
        <3>5. zones[y].running \/ y \in booted \/ a > 0 => zones[y].initialized
            BY ONLY <2>3, <3>3
        <3>6. zones[y].running \/ y \in booted \/ b > 0 => zones[y].initialized
            BY ONLY <3>1, <3>4, <3>5
        <3> QED
            BY ONLY <3>3, <3>6
    <2> QED
        BY <2>5, <2>6
<1> QED
    BY <1>2, <1>3, <1>4, <1>5 DEF ZonesInv

LEMMA TaskEnds ==
    ASSUME ZonesInv, Zones!TaskReturns \/ Zones!TaskRaises PROVE ZonesInv'
<1> DEFINE z == executing[Len(executing)]
<1>1. executing # <<>> /\ executing' = SubSeq(executing, 1, Len(executing) - 1)
      /\ UNCHANGED <<zones, zone, kernel, booted, sandbox, started>>
    BY DEF Zones!TaskReturns, Zones!TaskRaises, Zones!Unwound
<1>2. /\ executing \in Seq(DOMAIN zones) /\ logs \in Seq(Nat) /\ failed \in Seq(Nat)
      /\ DOMAIN zones = 1 .. Len(zones) /\ Len(logs) = Len(zones) /\ Len(failed) = Len(zones)
      /\ \A y \in DOMAIN zones : logs[y] \in Nat /\ failed[y] \in Nat
    BY DEF ZonesInv, Zones!TypeOK
<1>3. z \in DOMAIN zones /\ executing' \in Seq(DOMAIN zones)
    <2>1. PICK all, q, r : all = DOMAIN zones /\ q = executing /\ r = executing'
        OBVIOUS
    <2>2. q \in Seq(all) /\ q # <<>> /\ r = SubSeq(q, 1, Len(q) - 1)
        BY <1>1, <1>2, <2>1
    <2>3. Len(q) \in Nat \ {0} /\ DOMAIN q = 1 .. Len(q) /\ q[Len(q)] \in all
        BY ONLY <2>2
    <2>4. r \in Seq(all)
        BY ONLY <2>2, <2>3
    <2> QED
        BY ONLY <2>1, <2>3, <2>4
<1>4. \/ logs' = [logs EXCEPT ![z] = @ + 1] /\ failed' = failed
      \/ failed' = [failed EXCEPT ![z] = @ + 1] /\ logs' = logs
    BY DEF Zones!TaskReturns, Zones!TaskRaises, Zones!Innermost
<1>5. \A y : /\ Times(executing', y) = Times(executing, y) - (IF z = y THEN 1 ELSE 0)
             /\ Times(executing, y) \in Nat
    BY <1>1, <1>2, TimesUnwound, TimesFinite
<1> HIDE DEF z
<1>6. /\ logs' \in Seq(Nat) /\ failed' \in Seq(Nat) /\ Len(logs') = Len(logs) /\ Len(failed') = Len(failed)
      /\ logs'[z] + failed'[z] = logs[z] + failed[z] + 1
      /\ \A y \in DOMAIN zones \ {z} : logs'[y] = logs[y] /\ failed'[y] = failed[y]
    <2>1. logs[z] \in Nat /\ failed[z] \in Nat
        BY <1>2, <1>3
    <2>2. \A s \in {logs, failed} : s \in Seq(Nat) /\ z \in DOMAIN s /\ DOMAIN s = DOMAIN zones
        BY <1>2, <1>3
    <2>3. \A s \in {logs, failed} :
             LET t == [s EXCEPT ![z] = @ + 1]
             IN  t \in Seq(Nat) /\ Len(t) = Len(s) /\ t[z] = s[z] + 1 /\ \A y \in DOMAIN zones \ {z} : t[y] = s[y]
        <3> SUFFICES ASSUME NEW s \in {logs, failed}
                     PROVE  LET t == [s EXCEPT ![z] = @ + 1]
                            IN  t \in Seq(Nat) /\ Len(t) = Len(s) /\ t[z] = s[z] + 1
                                /\ \A y \in DOMAIN zones \ {z} : t[y] = s[y]
            OBVIOUS
        <3>1. s \in Seq(Nat) /\ z \in DOMAIN s /\ DOMAIN s = DOMAIN zones /\ s[z] \in Nat
            BY <2>1, <2>2
        <3> QED
            BY <3>1
    <2>4. CASE logs' = [logs EXCEPT ![z] = @ + 1] /\ failed' = failed
        <3>1. logs' \in Seq(Nat) /\ Len(logs') = Len(logs) /\ logs'[z] = logs[z] + 1
              /\ \A y \in DOMAIN zones \ {z} : logs'[y] = logs[y]
            BY <2>3, <2>4
        <3> QED
            BY <1>2, <2>1, <2>4, <3>1
    <2>5. CASE failed' = [failed EXCEPT ![z] = @ + 1] /\ logs' = logs
        <3>1. failed' \in Seq(Nat) /\ Len(failed') = Len(failed) /\ failed'[z] = failed[z] + 1
              /\ \A y \in DOMAIN zones \ {z} : failed'[y] = failed[y]
            BY <2>3, <2>5
        <3> QED
            BY <1>2, <2>1, <2>5, <3>1
    <2> QED
        BY <1>4, <2>4, <2>5
<1>7. Zones!TypeOK'
    BY <1>1, <1>3, <1>6 DEF ZonesInv, Zones!TypeOK
<1>8. ASSUME NEW y \in DOMAIN zones
      PROVE  started[y] = Times(executing', y) + logs'[y] + failed'[y]
    <2>1. logs[y] \in Nat /\ failed[y] \in Nat
        BY <1>2
    <2>2. started[y] = Times(executing, y) + logs[y] + failed[y]
        BY DEF ZonesInv
    <2>3. logs'[y] \in Nat /\ failed'[y] \in Nat
        <3>1. y \in 1 .. Len(logs') /\ y \in 1 .. Len(failed')
            BY <1>2, <1>6
        <3> QED
            BY SMTT(30), <1>6, <3>1
    <2>4. logs'[y] + failed'[y] = logs[y] + failed[y] + (IF z = y THEN 1 ELSE 0)
        BY SMTT(30), <1>6, <2>1
    <2>5. Times(executing', y) = Times(executing, y) - (IF z = y THEN 1 ELSE 0) /\ Times(executing, y) \in Nat
        BY <1>5
    <2> QED
        BY <2>1, <2>2, <2>3, <2>4, <2>5
<1> QED
    BY <1>1, <1>6, <1>7, <1>8 DEF ZonesInv

LEMMA ZonesNext == ZonesInv /\ [Zones!Next]_Zones!vars => ZonesInv'
<1> SUFFICES ASSUME ZonesInv, [Zones!Next]_Zones!vars PROVE ZonesInv'
    OBVIOUS
<1>1. CASE UNCHANGED Zones!vars
    BY <1>1 DEF Zones!vars, ZonesInv, Zones!TypeOK
<1> QED
    BY <1>1, ZoneCreated, KernelBooted, SandboxCreated, ExecuteKeeps, ZoneCalls, TaskEnds DEF Zones!Next

LEMMA ZonesInvariance == Zones!Spec => []ZonesInv
    BY ZonesInit, ZonesNext, PTL DEF Zones!Spec

LEMMA ZonesFacts == ZonesInv => Zones!TypeOK /\ Zones!ZonesConsistent
    BY ZonesUnderWay DEF ZonesInv, Zones!ZonesConsistent

\* hypervisor/zone.py, sandbox.py: whatever the order of the calls, and although a name
\* is given to another zone while tasks of the first are under way, only a zone that
\* was initialized runs or has a kernel, and every task is accounted for in its zone.
THEOREM ZonesKept == Zones!Spec => [](Zones!TypeOK /\ Zones!ZonesConsistent)
    BY ZonesInvariance, ZonesFacts, PTL

-----------------------------------------------------------------------------
(* RoutingTopology *)

AddedChannels == [source : Nodes, name : ChannelNames, target : Nodes]

\* m leads from the channels of n to where they were added, and misses none.
IsHistory(m, n) ==
    /\ m \in [DOMAIN routes[n] -> DOMAIN added]
    /\ \A i, j \in DOMAIN m : i < j => m[i] < m[j]
    /\ \A i \in DOMAIN m :
          /\ m[i] > since[n]
          /\ added[m[i]] = [source |-> n, name |-> routes[n][i].name, target |-> routes[n][i].target]
    /\ \A k \in DOMAIN added : k > since[n] /\ added[k].source = n => \E i \in DOMAIN m : m[i] = k

\* A node's channels are those added since it was, in their order, and nodes stay.
RoutingInv ==
    /\ Routing!TypeOK /\ added \in Seq(AddedChannels)
    /\ \A n \in DOMAIN routes : \A i \in DOMAIN routes[n] : routes[n][i].target \in DOMAIN routes
    /\ \A k \in DOMAIN added : added[k].source \in DOMAIN routes
    /\ \A n \in DOMAIN routes : \E m : IsHistory(m, n)

LEMMA RoutingInit == Routing!Init => RoutingInv
    BY DEF Routing!Init, RoutingInv, Routing!TypeOK

LEMMA RoutingNodeAdded ==
    ASSUME RoutingInv, NEW n \in Nodes, Routing!AddNode(n) PROVE RoutingInv'
<1>1. /\ DOMAIN routes' = DOMAIN routes \cup {n} /\ routes'[n] = <<>>
      /\ \A x \in DOMAIN routes \ {n} : routes'[x] = routes[x]
      /\ since' = [since EXCEPT ![n] = Len(added)] /\ added' = added
    BY DEF Routing!AddNode
<1>2. /\ DOMAIN routes \subseteq Nodes /\ \A x \in DOMAIN routes : routes[x] \in Seq(Routing!RoutingChannel)
      /\ since \in [Nodes -> 0 .. Len(added)] /\ added \in Seq(AddedChannels) /\ Len(added) \in Nat
      /\ DOMAIN added = 1 .. Len(added)
    BY DEF RoutingInv, Routing!TypeOK
<1>3. Routing!TypeOK'
    <2>3. <<>> \in Seq(Routing!RoutingChannel)
        OBVIOUS
    <2>1. \A x \in DOMAIN routes' : routes'[x] \in Seq(Routing!RoutingChannel)
        BY <1>1, <1>2, <2>3, Zenon
    <2>2. since' \in [Nodes -> 0 .. Len(added)]
        BY <1>1, <1>2
    <2> QED
        BY <1>1, <1>2, <2>1, <2>2 DEF Routing!TypeOK
<1>4. \A x \in DOMAIN routes' : \A i \in DOMAIN routes'[x] : routes'[x][i].target \in DOMAIN routes'
    BY <1>1 DEF RoutingInv
<1>5. \A k \in DOMAIN added' : added'[k].source \in DOMAIN routes'
    BY <1>1 DEF RoutingInv
<1>6. ASSUME NEW x \in DOMAIN routes' PROVE \E m : IsHistory(m, x)'
    <2>1. CASE x = n
        <3> DEFINE m == [i \in {} |-> 0]
        <3>1. routes'[x] = <<>> /\ since'[x] = Len(added)
            BY <1>1, <1>2, <2>1
        <3>2. IsHistory(m, x)'
            BY <1>1, <1>2, <3>1 DEF IsHistory
        <3> QED
            BY <3>2
    <2>2. CASE x # n
        <3>1. x \in DOMAIN routes /\ routes'[x] = routes[x] /\ since'[x] = since[x]
            BY <1>1, <1>2, <2>2
        <3>2. PICK m : IsHistory(m, x)
            BY <3>1 DEF RoutingInv
        <3>3. IsHistory(m, x)'
            BY <1>1, <3>1, <3>2 DEF IsHistory
        <3> QED
            BY <3>3
    <2> QED
        BY <2>1, <2>2
<1> QED
    BY <1>1, <1>2, <1>3, <1>4, <1>5, <1>6 DEF RoutingInv

LEMMA RoutingChannelAdded ==
    ASSUME RoutingInv, NEW n \in Nodes, NEW name \in ChannelNames, NEW target \in Nodes,
           Routing!AddChannel(n, name, target)
    PROVE  RoutingInv'
<1> DEFINE c == [name |-> name, target |-> target]
           a == [source |-> n, name |-> name, target |-> target]
           N == Len(added)
           L == Len(routes[n])
<1>1. /\ n \in DOMAIN routes /\ target \in DOMAIN routes /\ since' = since
      /\ routes' = [routes EXCEPT ![n] = Append(@, c)] /\ added' = Append(added, a)
    BY DEF Routing!AddChannel
<1>2. /\ DOMAIN routes \subseteq Nodes /\ \A x \in DOMAIN routes : routes[x] \in Seq(Routing!RoutingChannel)
      /\ since \in [Nodes -> 0 .. N] /\ added \in Seq(AddedChannels)
    BY DEF RoutingInv, Routing!TypeOK
<1>3. c \in Routing!RoutingChannel /\ a \in AddedChannels
    BY DEF Routing!RoutingChannel, AddedChannels
<1>4. /\ N \in Nat /\ DOMAIN added = 1 .. N /\ added' \in Seq(AddedChannels) /\ Len(added') = N + 1
      /\ DOMAIN added' = 1 .. N + 1 /\ added'[N + 1] = a /\ \A k \in 1 .. N : added'[k] = added[k]
    <2> HIDE DEF a
    <2> QED
        BY <1>1, <1>2, <1>3, AppendFacts
<1>5. /\ DOMAIN routes' = DOMAIN routes /\ \A x \in DOMAIN routes \ {n} : routes'[x] = routes[x]
      /\ routes'[n] = Append(routes[n], c)
    BY <1>1
<1>6. /\ L \in Nat /\ DOMAIN routes[n] = 1 .. L /\ routes'[n] \in Seq(Routing!RoutingChannel)
      /\ DOMAIN routes'[n] = 1 .. L + 1 /\ routes'[n][L + 1] = c
      /\ \A i \in 1 .. L : routes'[n][i] = routes[n][i]
    <2>1. routes[n] \in Seq(Routing!RoutingChannel)
        BY <1>1, <1>2
    <2> HIDE DEF c
    <2> QED
        BY <1>3, <1>5, <2>1, AppendFacts
<1>7. Routing!TypeOK'
    BY <1>1, <1>2, <1>4, <1>5, <1>6 DEF Routing!TypeOK
<1>8. \A x \in DOMAIN routes' : \A i \in DOMAIN routes'[x] : routes'[x][i].target \in DOMAIN routes'
    <2> SUFFICES ASSUME NEW x \in DOMAIN routes, NEW i \in DOMAIN routes'[x]
                 PROVE  routes'[x][i].target \in DOMAIN routes
        BY <1>5
    <2>1. CASE x # n
        BY <1>5, <2>1 DEF RoutingInv
    <2>2. CASE x = n
        <3>1. CASE i = L + 1
            BY <1>1, <1>6, <2>2, <3>1
        <3>2. CASE i \in 1 .. L
            BY <1>6, <2>2, <3>2 DEF RoutingInv
        <3>3. i = L + 1 \/ i \in 1 .. L
            BY <1>6, <2>2
        <3> HIDE DEF L
        <3> QED
            BY <3>1, <3>2, <3>3
    <2> QED
        BY <2>1, <2>2
<1>9. \A k \in DOMAIN added' : added'[k].source \in DOMAIN routes'
    <2> SUFFICES ASSUME NEW k \in 1 .. N + 1 PROVE added'[k].source \in DOMAIN routes
        BY <1>4, <1>5
    <2>1. CASE k = N + 1
        BY <1>1, <1>4, <2>1
    <2>2. CASE k \in 1 .. N
        BY <1>4, <2>2 DEF RoutingInv
    <2>3. k = N + 1 \/ k \in 1 .. N
        BY <1>4
    <2> HIDE DEF N
    <2> QED
        BY <2>1, <2>2, <2>3
<1>10. ASSUME NEW x \in DOMAIN routes' PROVE \E m : IsHistory(m, x)'
    <2>1. PICK m : IsHistory(m, x)
        BY <1>5 DEF RoutingInv
    <2>2. since[x] \in 0 .. N /\ x \in DOMAIN routes
        BY <1>2, <1>5
    <2>3. CASE x # n
        <3>1. IsHistory(m, x)'
            <4>1. m \in [DOMAIN routes[x] -> DOMAIN added']
                BY <1>4, <2>1 DEF IsHistory
            <4>2. \A i \in DOMAIN m : added'[m[i]] = added[m[i]]
                BY <1>4, <2>1 DEF IsHistory
            <4>3. \A k \in DOMAIN added' : k > since[x] /\ added'[k].source = x => \E i \in DOMAIN m : m[i] = k
                <5> SUFFICES ASSUME NEW k \in 1 .. N + 1, k > since[x], added'[k].source = x
                             PROVE  \E i \in DOMAIN m : m[i] = k
                    BY <1>4
                <5>1. k # N + 1
                    BY <1>4, <2>3
                <5>2. k \in 1 .. N
                    BY <1>4, <5>1
                <5> QED
                    BY <1>4, <2>1, <5>2 DEF IsHistory
            <4>4. routes'[x] = routes[x] /\ since' = since
                BY <1>1, <1>5, <2>2, <2>3
            <4> QED
                BY <2>1, <4>1, <4>2, <4>3, <4>4 DEF IsHistory
        <3> QED
            BY <3>1
    <2>4. CASE x = n
        <3>0. PICK w : w = [i \in 1 .. L + 1 |-> IF i = L + 1 THEN N + 1 ELSE m[i]]
            OBVIOUS
        <3>1. m \in [1 .. L -> 1 .. N] /\ DOMAIN m = 1 .. L
            BY <1>4, <1>6, <2>1, <2>4 DEF IsHistory
        <3>2. \A i \in 1 .. L + 1 : i = L + 1 \/ i \in 1 .. L
            BY <1>6
        <3>3. /\ w \in [1 .. L + 1 -> 1 .. N + 1] /\ DOMAIN w = 1 .. L + 1
              /\ w[L + 1] = N + 1 /\ \A i \in 1 .. L : w[i] = m[i] /\ w[i] \in 1 .. N
            <4>1. \A i \in 1 .. L : m[i] \in 1 .. N /\ i # L + 1 /\ i \in 1 .. L + 1
                BY SMTT(30), <1>6, <3>1
            <4>2. N + 1 \in 1 .. N + 1 /\ L + 1 \in 1 .. L + 1 /\ 1 .. N \subseteq 1 .. N + 1
                BY <1>4, <1>6
            <4> HIDE DEF N, L
            <4> QED
                BY <3>0, <3>2, <4>1, <4>2
        <3>4. \A i, j \in 1 .. L + 1 : i < j => w[i] < w[j]
            <4> SUFFICES ASSUME NEW i \in 1 .. L + 1, NEW j \in 1 .. L + 1, i < j PROVE w[i] < w[j]
                OBVIOUS
            <4>1. i \in 1 .. L
                BY <1>6
            <4>2. CASE j = L + 1
                <5>1. w[i] \in 1 .. N /\ w[j] = N + 1
                    BY <3>3, <4>1, <4>2
                <5> QED
                    BY <1>4, <5>1
            <4>3. CASE j \in 1 .. L
                BY <2>1, <2>4, <3>1, <3>3, <4>1, <4>3 DEF IsHistory
            <4> QED
                BY <3>2, <4>2, <4>3
        <3>5. \A i \in 1 .. L + 1 :
                 /\ w[i] > since[n]
                 /\ added'[w[i]] = [source |-> n, name |-> routes'[n][i].name, target |-> routes'[n][i].target]
            <4> SUFFICES ASSUME NEW i \in 1 .. L + 1
                         PROVE  /\ w[i] > since[n]
                                /\ added'[w[i]] = [source |-> n, name |-> routes'[n][i].name,
                                                   target |-> routes'[n][i].target]
                OBVIOUS
            <4>1. CASE i = L + 1
                <5>1. w[i] = N + 1 /\ routes'[n][i] = c /\ added'[N + 1] = a
                    BY <1>4, <1>6, <3>3, <4>1
                <5>2. N + 1 > since[n]
                    BY <1>4, <2>2, <2>4
                <5> QED
                    BY <5>1, <5>2
            <4>2. CASE i \in 1 .. L
                <5>1. w[i] = m[i] /\ m[i] \in 1 .. N /\ routes'[n][i] = routes[n][i] /\ added'[m[i]] = added[m[i]]
                    BY <1>4, <1>6, <3>1, <3>3, <4>2
                <5>2. m[i] > since[n] /\ added[m[i]] = [source |-> n, name |-> routes[n][i].name,
                                                        target |-> routes[n][i].target]
                    BY <2>1, <2>4, <3>1, <4>2 DEF IsHistory
                <5> QED
                    BY <5>1, <5>2
            <4> QED
                BY <3>2, <4>1, <4>2
        <3>6. \A k \in 1 .. N + 1 : k > since[n] /\ added'[k].source = n => \E i \in 1 .. L + 1 : w[i] = k
            <4> SUFFICES ASSUME NEW k \in 1 .. N + 1, k > since[n], added'[k].source = n
                         PROVE  \E i \in 1 .. L + 1 : w[i] = k
                OBVIOUS
            <4>1. CASE k = N + 1
                BY <1>6, <3>3, <4>1
            <4>2. CASE k \in 1 .. N
                <5>1. PICK i \in 1 .. L : m[i] = k
                    BY <1>4, <2>1, <2>4, <3>1, <4>2 DEF IsHistory
                <5> QED
                    BY <1>6, <3>3, <5>1
            <4>3. k = N + 1 \/ k \in 1 .. N
                BY <1>4
            <4> QED
                BY <4>1, <4>2, <4>3
        <3>7. IsHistory(w, n)'
            <4>1. w \in [DOMAIN routes'[n] -> DOMAIN added'] /\ since'[n] = since[n]
                BY <1>1, <1>4, <1>6, <3>3
            <4> HIDE DEF L, N, c, a
            <4>2. \A i, j \in DOMAIN w : i < j => w[i] < w[j]
                BY <3>3, <3>4
            <4>3. \A i \in DOMAIN w :
                     /\ w[i] > since'[n]
                     /\ added'[w[i]] = [source |-> n, name |-> routes'[n][i].name, target |-> routes'[n][i].target]
                BY <3>3, <3>5, <4>1
            <4>4. \A k \in DOMAIN added' : k > since'[n] /\ added'[k].source = n => \E i \in DOMAIN w : w[i] = k
                BY <1>4, <3>3, <3>6, <4>1
            <4> QED
                BY <4>1, <4>2, <4>3, <4>4 DEF IsHistory
        <3> QED
            BY <2>4, <3>7
    <2> QED
        BY <2>3, <2>4
<1>11. \A x \in DOMAIN routes' : \E m : IsHistory(m, x)'
    BY <1>10
<1> HIDE DEF L, N, c, a
<1> QED
    BY <1>4, <1>7, <1>8, <1>9, <1>11 DEF RoutingInv

LEMMA RoutingNext == RoutingInv /\ [Routing!Next]_Routing!vars => RoutingInv'
<1> SUFFICES ASSUME RoutingInv, [Routing!Next]_Routing!vars PROVE RoutingInv'
    OBVIOUS
<1>1. CASE UNCHANGED Routing!vars
    <2>1. UNCHANGED <<routes, added, since>>
        BY <1>1 DEF Routing!vars
    <2>2. \A m, n : IsHistory(m, n) => IsHistory(m, n)'
        BY <2>1 DEF IsHistory
    <2>3. Routing!TypeOK'
        BY <2>1 DEF RoutingInv, Routing!TypeOK
    <2>4. \A n \in DOMAIN routes' : \E m : IsHistory(m, n)'
        BY <2>1, <2>2 DEF RoutingInv
    <2> QED
        BY <2>1, <2>3, <2>4 DEF RoutingInv
<1> QED
    BY <1>1, RoutingNodeAdded, RoutingChannelAdded DEF Routing!Next

LEMMA RoutingInvariance == Routing!Spec => []RoutingInv
    BY RoutingInit, RoutingNext, PTL DEF Routing!Spec

\* The first channel of a name among those of a node is the first that was added.
LEMMA RoutingFacts == RoutingInv => Routing!DispatchFollows
<1> SUFFICES ASSUME RoutingInv, NEW n \in Nodes, NEW name \in ChannelNames
             PROVE  LET fit == {k \in DOMAIN added : k > since[n] /\ added[k].source = n /\ added[k].name = name}
                    IN  Routing!Dispatch(n, name) = {added[k].target : k \in {j \in fit : \A i \in fit : j <= i}}
    BY DEF Routing!DispatchFollows
<1> DEFINE fit == {k \in DOMAIN added : k > since[n] /\ added[k].source = n /\ added[k].name = name}
           first == {j \in fit : \A i \in fit : j <= i}
           I == {i \in 1 .. Len(routes[n]) : routes[n][i].name = name}
           at == CHOOSE x \in I : \A y \in I : x <= y
<1>1. CASE n \notin DOMAIN routes
    <2>1. fit = {}
        BY <1>1 DEF RoutingInv
    <2>2. Routing!Dispatch(n, name) = {}
        BY <1>1 DEF Routing!Dispatch
    <2> QED
        BY <2>1, <2>2
<1>2. CASE n \in DOMAIN routes
    <2>1. PICK m : IsHistory(m, n)
        BY <1>2 DEF RoutingInv
    <2>2. DOMAIN routes[n] = 1 .. Len(routes[n]) /\ Len(routes[n]) \in Nat
          /\ DOMAIN added = 1 .. Len(added) /\ Len(added) \in Nat
        BY <1>2 DEF RoutingInv, Routing!TypeOK
    <2>6. DOMAIN m = 1 .. Len(routes[n])
        BY <2>1, <2>2 DEF IsHistory
    <2>7. ASSUME NEW i \in 1 .. Len(routes[n])
          PROVE  /\ m[i] \in DOMAIN added /\ m[i] > since[n] /\ added[m[i]].source = n
                 /\ added[m[i]].name = routes[n][i].name /\ added[m[i]].target = routes[n][i].target
        <3>1. /\ m[i] \in DOMAIN added /\ m[i] > since[n]
              /\ added[m[i]] = [source |-> n, name |-> routes[n][i].name, target |-> routes[n][i].target]
            BY <2>1, <2>6 DEF IsHistory
        <3> HIDE DEF I, at, fit, first
        <3> QED
            BY <3>1
    <2>3. /\ \A i \in I : m[i] \in fit
          /\ \A k \in fit : \E i \in I : m[i] = k
        <3>1. \A i \in I : m[i] \in fit
            BY <2>7
        <3>2. ASSUME NEW k \in fit PROVE \E i \in I : m[i] = k
            <4>1. PICK i \in DOMAIN m : m[i] = k
                BY <2>1 DEF IsHistory
            <4> QED
                BY <2>6, <2>7, <4>1
        <3> QED
            BY <3>1, <3>2
    <2>4. CASE I = {}
        <3>1. fit = {}
            BY <2>3, <2>4
        <3>2. Routing!Dispatch(n, name) = {}
            BY <1>2, <2>4 DEF Routing!Dispatch, Routing!SelectInSeq
        <3> QED
            BY <3>1, <3>2
    <2>5. CASE I # {}
        <3>1. I \in SUBSET Nat
            OBVIOUS
        <3>2. \E x \in I : \A y \in I : x <= y
            <4> HIDE DEF I
            <4> QED
                BY <2>5, <3>1, LeastElement
        <3>3. at \in I /\ \A y \in I : at <= y
            <4> HIDE DEF I
            <4> QED
                BY <3>2
        <3>4. Routing!Dispatch(n, name) = {routes[n][at].target}
            <4>1. at # 0
                <5>1. \A i \in I : i # 0
                    OBVIOUS
                <5> HIDE DEF at, I
                <5> QED
                    BY <3>3, <5>1
            <4>2. routes[n][at].target \in DOMAIN routes
                BY <1>2, <2>2, <3>3 DEF RoutingInv
            <4>3. Routing!SelectInSeq(routes[n], LAMBDA c : c.name = name) = at
                BY <2>5 DEF Routing!SelectInSeq, Routing!Min
            <4> HIDE DEF at
            <4> QED
                BY <1>2, <4>1, <4>2, <4>3 DEF Routing!Dispatch
        <3> HIDE DEF at
        <3>5. m[at] \in fit /\ added[m[at]].target = routes[n][at].target
            <4>1. at \in 1 .. Len(routes[n])
                BY <3>3
            <4>2. m[at] \in fit
                BY <2>3, <3>3
            <4> HIDE DEF I, fit
            <4> QED
                BY <2>7, <4>1, <4>2
        <3>6. \A k \in fit : m[at] <= k
            <4> SUFFICES ASSUME NEW k \in fit PROVE m[at] <= k
                OBVIOUS
            <4>1. PICK i \in I : m[i] = k
                BY <2>3
            <4>2. at <= i /\ at \in Nat /\ i \in Nat
                BY <3>1, <3>3
            <4>3. m[at] \in Nat /\ m[i] \in Nat /\ at \in DOMAIN m /\ i \in DOMAIN m
                BY <2>1, <2>2, <3>3, <4>1 DEF IsHistory
            <4>4. CASE at = i
                BY <4>1, <4>3, <4>4
            <4>5. CASE at < i
                BY <2>1, <4>1, <4>3, <4>5 DEF IsHistory
            <4> QED
                BY <4>2, <4>4, <4>5
        <3>7. first = {m[at]}
            <4>1. \A j \in fit : j \in Nat
                BY <2>2
            <4> HIDE DEF fit
            <4> QED
                BY <3>5, <3>6, <4>1
        <3> HIDE DEF fit
        <3> QED
            BY <3>4, <3>5, <3>7 DEF fit
    <2> QED
        BY <2>4, <2>5
<1> QED
    BY <1>1, <1>2

\* routing/topology: a message arrives over the oldest channel of its name that was
\* added since its node was, however nodes are replaced and channels repeated.
THEOREM RoutingKept == Routing!Spec => [](Routing!TypeOK /\ Routing!DispatchFollows)
<1>1. RoutingInv => Routing!TypeOK
    BY DEF RoutingInv
<1> QED
    BY <1>1, RoutingInvariance, RoutingFacts, PTL

-----------------------------------------------------------------------------
(* EngineRuns *)

EngineTypes ==
    /\ Engines!TypeOK /\ Len(executed) = Len(begun)
    /\ done \subseteq [run : DOMAIN begun, length : Nat, kept : BOOLEAN]

\* Of each run, what was there when it began.
RunsOK ==
    \A r \in DOMAIN begun :
        /\ begun[r].within \subseteq 1 .. r - 1 /\ begun[r].saw \in 0 .. r - 1
        /\ begun[r].known \subseteq nodes
        /\ begun[r].kind \in Engines!Recorded => begun[r].session \in DOMAIN records

\* The runs under way began inside those below them, and none of them has returned.
StackOK ==
    \A k \in DOMAIN frames :
        /\ frames[k].run \in DOMAIN begun /\ frames[k].kind = begun[frames[k].run].kind
        /\ begun[frames[k].run].within = {frames[j].run : j \in 1 .. k - 1}
        /\ \A d \in done : d.run # frames[k].run

\* The first n items of its list were executed by a run, once and in order, but for nodes
\* that it could not have known.
WalkedTo(run, kind, n) ==
    /\ \A j, k \in DOMAIN executed[run] : j < k => executed[run][j] < executed[run][k]
    /\ \A j \in DOMAIN executed[run] : executed[run][j] <= n
    /\ n \in 0 .. Len(list[kind])
    /\ \A i \in 1 .. n :
          \/ \E j \in DOMAIN executed[run] : executed[run][j] = i
          \/ kind = "flow" /\ list["flow"][i] \notin begun[run].known

\* Where a run under way is in its list.
FrameOK(f) ==
    /\ f.kind \notin Engines!Walks => f.inside
    /\ f.kind \in Engines!Walks =>
          /\ f.link > 0 => f.kind = "flow"
          /\ f.at \in 1 .. Len(list[f.kind]) + 1
          /\ f.inside => f.at <= Len(list[f.kind])
          /\ WalkedTo(f.run, f.kind, IF f.link > 0 THEN f.at ELSE f.at - 1)
FramesOK == \A k \in DOMAIN frames : FrameOK(frames[k])

DoneOK == \A d \in done : begun[d.run].kind \in Engines!Walks => WalkedTo(d.run, begun[d.run].kind, d.length)

RecordOK(h, s) ==
    /\ \A k \in DOMAIN h :
          /\ \E d \in done : d.run = h[k]
          /\ begun[h[k]].kind \in Engines!Recorded /\ begun[h[k]].session = s
    /\ \A d \in done : begun[d.run].kind \in Engines!Recorded /\ begun[d.run].session = s
          => \E k \in DOMAIN h : h[k] = d.run
    /\ \A j, k \in DOMAIN h : j < k => h[j] # h[k] /\ h[j] \notin begun[h[k]].within
RecordsOK == \A s \in DOMAIN records : RecordOK(records[s], s)

\* The runs whose results led to that of the run m.
LedTo(m) ==
    {r \in DOMAIN begun : \A S \in SUBSET (0 .. Len(begun)) :
        m \in S /\ (\A q \in S \ {0} : begun[q].saw \in S) => r \in S}
InsideStep(r) == \E q \in begun[r].within : begun[q].kind = "model"

\* What a step under way will replace was seen by it, or came from inside a step.
KeptOK ==
    /\ \A d \in done : d.kept => d.run \in LedTo(modelState) \/ InsideStep(d.run)
    /\ \A k \in DOMAIN frames : frames[k].kind = "model" =>
          \A d \in done : d.kept => d.run \in LedTo(begun[frames[k].run].saw) \/ InsideStep(d.run)

EnginesInv ==
    EngineTypes /\ RunsOK /\ StackOK /\ FramesOK /\ DoneOK /\ RecordsOK /\ KeptOK

-----------------------------------------------------------------------------

LEMMA SeqWider ==
    ASSUME NEW A, NEW B, A \subseteq B, NEW s \in Seq(A) PROVE s \in Seq(B)
    OBVIOUS

LEMMA EngineTypesFacts ==
    ASSUME EngineTypes
    PROVE  /\ begun \in Seq(Engines!Run) /\ frames \in Seq(Engines!Frame) /\ executed \in Seq(Seq(Nat))
           /\ DOMAIN begun = 1 .. Len(begun) /\ DOMAIN frames = 1 .. Len(frames)
           /\ DOMAIN executed = DOMAIN begun /\ Len(begun) \in Nat /\ Len(frames) \in Nat
           /\ \A r \in DOMAIN begun : begun[r] \in Engines!Run /\ executed[r] \in Seq(Nat)
           /\ \A k \in DOMAIN frames : frames[k] \in Engines!Frame
           /\ \A w \in Engines!Walks : list[w] \in Seq(Nodes) /\ DOMAIN list[w] = 1 .. Len(list[w])
                                       /\ Len(list[w]) \in Nat
           /\ \A d \in done : d.run \in DOMAIN begun /\ d.length \in Nat /\ d.kept \in BOOLEAN
<1>1. begun \in Seq(Engines!Run) /\ frames \in Seq(Engines!Frame) /\ executed \in Seq(Seq(Nat))
      /\ Len(executed) = Len(begun)
    BY DEF EngineTypes, Engines!TypeOK
<1>2. \A w \in Engines!Walks : list[w] \in Seq(Nodes)
    BY DEF EngineTypes, Engines!TypeOK, Engines!Walks
<1>3. \A d \in done : d.run \in DOMAIN begun /\ d.length \in Nat /\ d.kept \in BOOLEAN
    BY DEF EngineTypes
<1> QED
    BY <1>1, <1>2, <1>3

LEMMA EnginesInit == Engines!Init => EnginesInv
<1> SUFFICES ASSUME Engines!Init PROVE EnginesInv
    OBVIOUS
<1>1. /\ nodes = {} /\ links = <<>> /\ processes = {}
      /\ list = [k \in {"flow", "pipeline", "attached", "phase", "rules"} |-> <<>>]
      /\ session = 0 /\ records = <<>> /\ modelState = 0
      /\ frames = <<>> /\ begun = <<>> /\ executed = <<>> /\ done = {}
    BY DEF Engines!Init
<1>2. EngineTypes
    BY <1>1 DEF EngineTypes, Engines!TypeOK
<1> QED
    BY <1>1, <1>2 DEF EnginesInv, RunsOK, StackOK, FramesOK, DoneOK, RecordsOK, KeptOK

\* Lists and the set of nodes only grow.
LEMMA WalkedStays ==
    ASSUME NEW run, NEW kind, NEW n, WalkedTo(run, kind, n),
           executed'[run] = executed[run], begun'[run].known = begun[run].known,
           Len(list[kind]) \in Nat, Len(list'[kind]) \in Nat, Len(list'[kind]) >= Len(list[kind]),
           kind = "flow" => \A i \in 1 .. Len(list["flow"]) : list'["flow"][i] = list["flow"][i]
    PROVE  WalkedTo(run, kind, n)'
<1>1. n \in 0 .. Len(list[kind])
    BY DEF WalkedTo
<1>2. n \in 0 .. Len(list'[kind])
    BY <1>1
<1>3. \A i \in 1 .. n : kind = "flow" => i \in 1 .. Len(list["flow"])
    BY <1>1
<1> QED
    BY <1>2, <1>3 DEF WalkedTo

\* What composes lists, nodes and links leaves the runs alone.
LEMMA EnginesComposed ==
    ASSUME EnginesInv, Engines!TypeOK',
           UNCHANGED <<records, modelState, frames, begun, executed, done>>, nodes \subseteq nodes',
           \A w \in Engines!Walks : /\ Len(list'[w]) >= Len(list[w])
                                    /\ \A i \in 1 .. Len(list[w]) : list'[w][i] = list[w][i]
    PROVE  EnginesInv'
<1>1. EngineTypes /\ EngineTypes'
    BY DEF EnginesInv, EngineTypes
<1>2. \A w \in Engines!Walks : Len(list[w]) \in Nat /\ Len(list'[w]) \in Nat
    <2>1. list \in [{"flow", "pipeline", "attached", "phase", "rules"} -> Seq(Nodes)]
          /\ list' \in [{"flow", "pipeline", "attached", "phase", "rules"} -> Seq(Nodes)]
        BY DEF EnginesInv, EngineTypes, Engines!TypeOK
    <2> QED
        BY <2>1 DEF Engines!Walks
<1>3. \A run, n : \A w \in Engines!Walks : WalkedTo(run, w, n) => WalkedTo(run, w, n)'
    <2> SUFFICES ASSUME NEW run, NEW n, NEW w \in Engines!Walks, WalkedTo(run, w, n)
                 PROVE  WalkedTo(run, w, n)'
        OBVIOUS
    <2> QED
        BY <1>2, WalkedStays
<1>4. RunsOK' /\ StackOK' /\ RecordsOK'
    <2>1. RunsOK'
        BY DEF EnginesInv, RunsOK
    <2>2. StackOK'
        BY DEF EnginesInv, StackOK
    <2>3. RecordsOK'
        BY DEF EnginesInv, RecordsOK, RecordOK
    <2> QED
        BY <2>1, <2>2, <2>3
<1>5. KeptOK'
    BY DEF EnginesInv, KeptOK, LedTo, InsideStep
<1>6. DoneOK'
    BY <1>3 DEF EnginesInv, DoneOK
<1>7. FramesOK'
    <2> SUFFICES ASSUME NEW k \in DOMAIN frames PROVE FrameOK(frames[k])'
        BY DEF FramesOK
    <2> DEFINE f == frames[k]
    <2>1. FrameOK(f) /\ f \in Engines!Frame /\ f' = f
        BY <1>1, EngineTypesFacts DEF EnginesInv, FramesOK
    <2>2. f.kind \in Engines!Walks => f.at \in 1 .. Len(list'[f.kind]) + 1 /\ (f.inside => f.at <= Len(list'[f.kind]))
        BY <1>2, <2>1 DEF FrameOK, Engines!Frame
    <2>3. PICK g : g = f
        OBVIOUS
    <2>4. FrameOK(g)'
        <3> HIDE DEF f
        <3> QED
            BY <1>3, <2>1, <2>2, <2>3 DEF FrameOK
    <2> QED
        BY <2>1, <2>3, <2>4
<1> QED
    BY <1>1, <1>4, <1>5, <1>6, <1>7 DEF EnginesInv

LEMMA EngineNodeAdded == ASSUME EnginesInv, NEW n \in Nodes, Engines!AddNode(n) PROVE EnginesInv'
<1>1. nodes' = nodes \cup {n}
      /\ UNCHANGED <<links, processes, list, session, records, modelState, frames, begun, executed, done>>
    BY DEF Engines!AddNode
<1>2. Engines!TypeOK'
    BY <1>1 DEF EnginesInv, EngineTypes, Engines!TypeOK
<1>3. \A w \in Engines!Walks : Len(list'[w]) >= Len(list[w]) /\ \A i \in 1 .. Len(list[w]) : list'[w][i] = list[w][i]
    BY <1>1, EngineTypesFacts DEF EnginesInv
<1> QED
    BY <1>1, <1>2, <1>3, EnginesComposed

LEMMA EngineLinkAdded ==
    ASSUME EnginesInv, NEW n \in Nodes, NEW m \in Nodes, Engines!AddLink(n, m) PROVE EnginesInv'
<1>1. links' = Append(links, [source |-> n, target |-> m])
      /\ UNCHANGED <<nodes, processes, list, session, records, modelState, frames, begun, executed, done>>
    BY DEF Engines!AddLink
<1>2. [source |-> n, target |-> m] \in Engines!OrchLink
    BY DEF Engines!OrchLink
<1>3. links' \in Seq(Engines!OrchLink)
    BY <1>1, <1>2 DEF EnginesInv, EngineTypes, Engines!TypeOK
<1>4. Engines!TypeOK'
    BY <1>1, <1>3 DEF EnginesInv, EngineTypes, Engines!TypeOK
<1>5. \A w \in Engines!Walks : Len(list'[w]) >= Len(list[w]) /\ \A i \in 1 .. Len(list[w]) : list'[w][i] = list[w][i]
    BY <1>1, EngineTypesFacts DEF EnginesInv
<1> QED
    BY <1>1, <1>4, <1>5, EnginesComposed

LEMMA EngineProcessAdded == ASSUME EnginesInv, NEW n \in Nodes, Engines!AddProcess(n) PROVE EnginesInv'
<1>1. processes' = processes \cup {n}
      /\ UNCHANGED <<nodes, links, list, session, records, modelState, frames, begun, executed, done>>
    BY DEF Engines!AddProcess
<1>2. Engines!TypeOK'
    BY <1>1 DEF EnginesInv, EngineTypes, Engines!TypeOK
<1>3. \A w \in Engines!Walks : Len(list'[w]) >= Len(list[w]) /\ \A i \in 1 .. Len(list[w]) : list'[w][i] = list[w][i]
    BY <1>1, EngineTypesFacts DEF EnginesInv
<1> QED
    BY <1>1, <1>2, <1>3, EnginesComposed

LEMMA EngineItemAdded ==
    ASSUME EnginesInv, NEW n \in Nodes, NEW k \in Engines!Walks, Engines!AddItem(k, n) PROVE EnginesInv'
<1>1. list' = [list EXCEPT ![k] = Append(@, n)]
      /\ UNCHANGED <<nodes, links, processes, session, records, modelState, frames, begun, executed, done>>
    BY DEF Engines!AddItem
<1>2. list \in [{"flow", "pipeline", "attached", "phase", "rules"} -> Seq(Nodes)]
    BY DEF EnginesInv, EngineTypes, Engines!TypeOK
<1>3. list' \in [{"flow", "pipeline", "attached", "phase", "rules"} -> Seq(Nodes)]
    BY <1>1, <1>2 DEF Engines!Walks
<1>4. Engines!TypeOK'
    BY <1>1, <1>3 DEF EnginesInv, EngineTypes, Engines!TypeOK
<1>5. ASSUME NEW w \in Engines!Walks
      PROVE  Len(list'[w]) >= Len(list[w]) /\ \A i \in 1 .. Len(list[w]) : list'[w][i] = list[w][i]
    <2>1. list[w] \in Seq(Nodes) /\ Len(list[w]) \in Nat
        BY <1>2 DEF Engines!Walks
    <2>2. CASE w = k
        <3>1. list'[w] = Append(list[w], n)
            BY <1>1, <1>2, <2>2 DEF Engines!Walks
        <3> QED
            BY <2>1, <3>1, AppendFacts
    <2>3. CASE w # k
        <3>1. list'[w] = list[w]
            BY <1>1, <1>2, <2>3 DEF Engines!Walks
        <3> QED
            BY <2>1, <3>1
    <2> QED
        BY <2>2, <2>3
<1> QED
    BY <1>1, <1>4, <1>5, EnginesComposed

LEMMA EngineSessionCreated == ASSUME EnginesInv, Engines!CreateSession PROVE EnginesInv'
<1>1. records' = Append(records, <<>>) /\ session' = Len(records')
      /\ UNCHANGED <<nodes, links, processes, list, modelState, frames, begun, executed, done>>
    BY DEF Engines!CreateSession
<1>2. records \in Seq(Seq(DOMAIN begun)) /\ <<>> \in Seq(DOMAIN begun)
    BY DEF EnginesInv, EngineTypes, Engines!TypeOK
<1>3. /\ records' \in Seq(Seq(DOMAIN begun)) /\ Len(records') = Len(records) + 1 /\ Len(records) \in Nat
      /\ DOMAIN records = 1 .. Len(records) /\ DOMAIN records' = 1 .. Len(records) + 1
      /\ records'[Len(records) + 1] = <<>> /\ \A s \in DOMAIN records : records'[s] = records[s]
    BY <1>1, <1>2, AppendFacts
<1>4. EngineTypes'
    <2>1. session' \in 0 .. Len(records')
        BY <1>1, <1>3
    <2> QED
        BY <1>1, <1>3, <2>1 DEF EnginesInv, EngineTypes, Engines!TypeOK
<1>5. RunsOK'
    BY <1>1, <1>3 DEF EnginesInv, RunsOK
<1>6. StackOK' /\ DoneOK' /\ FramesOK' /\ KeptOK'
    <2>1. StackOK'
        BY <1>1 DEF EnginesInv, StackOK
    <2>2. \A run, kind, n : WalkedTo(run, kind, n) => WalkedTo(run, kind, n)'
        BY <1>1 DEF WalkedTo
    <2>3. DoneOK'
        BY <1>1, <2>2 DEF EnginesInv, DoneOK
    <2>4. \A f : FrameOK(f) => FrameOK(f)'
        BY <1>1, <2>2 DEF FrameOK
    <2>5. FramesOK'
        BY <1>1, <2>4 DEF EnginesInv, FramesOK
    <2>6. KeptOK'
        BY <1>1 DEF EnginesInv, KeptOK, LedTo, InsideStep
    <2> QED
        BY <2>1, <2>3, <2>5, <2>6
<1>7. RecordsOK'
    <2> DEFINE N == Len(records)
    <2>1. \A d \in done : d.run \in DOMAIN begun
        BY EngineTypesFacts DEF EnginesInv
    <2>0. \A h, s : RecordOK(h, s) => RecordOK(h, s)'
        BY <1>1 DEF RecordOK
    <2> SUFFICES ASSUME NEW s \in 1 .. N + 1, NEW h, h = records'[s] PROVE RecordOK(h, s)'
        BY <1>3 DEF RecordsOK
    <2>2. CASE s = N + 1
        <3>1. DOMAIN records'[s] = {}
            BY <1>3, <2>2
        <3>2. \A d \in done : begun[d.run].kind \in Engines!Recorded => begun[d.run].session # s
            <4>1. \A d \in done : begun[d.run].kind \in Engines!Recorded => begun[d.run].session \in 1 .. N
                BY <1>3, <2>1 DEF EnginesInv, RunsOK
            <4>2. s \notin 1 .. N
                BY <1>3, <2>2
            <4> QED
                BY <4>1, <4>2
        <3>3. RecordOK(h, s)
            BY <3>1, <3>2 DEF RecordOK
        <3> QED
            BY <2>0, <3>3
    <2>3. CASE s \in 1 .. N
        <3>1. records'[s] = records[s] /\ s \in DOMAIN records
            BY <1>3, <2>3
        <3> QED
            BY <2>0, <3>1 DEF EnginesInv, RecordsOK
    <2>4. s = N + 1 \/ s \in 1 .. N
        BY <1>3
    <2> HIDE DEF N
    <2> QED
        BY <2>2, <2>3, <2>4
<1> QED
    BY <1>4, <1>5, <1>6, <1>7 DEF EnginesInv

-----------------------------------------------------------------------------

\* What led to a run is not changed by a run that begins.
LEMMA LedToStays ==
    ASSUME EnginesInv, Len(begun') = Len(begun) + 1, DOMAIN begun' = 1 .. Len(begun) + 1,
           \A r \in DOMAIN begun : begun'[r] = begun[r], NEW m \in 0 .. Len(begun)
    PROVE  LedTo(m) \subseteq LedTo(m)'
<1> DEFINE N == Len(begun)
<1>1. N \in Nat /\ DOMAIN begun = 1 .. N
    BY EngineTypesFacts DEF EnginesInv
<1>2. \A r \in 1 .. N : begun'[r].saw = begun[r].saw /\ begun[r].saw \in 0 .. N
    <2>1. \A r \in 1 .. N : begun[r].saw \in 0 .. r - 1
        BY <1>1 DEF EnginesInv, RunsOK
    <2> QED
        BY <1>1, <2>1
<1> SUFFICES ASSUME NEW r \in LedTo(m), NEW S \in SUBSET (0 .. N + 1), m \in S,
                    \A q \in S \ {0} : begun'[q].saw \in S
             PROVE  r \in 1 .. N + 1 /\ r \in S
    BY DEF LedTo
<1>3. r \in 1 .. N
    BY <1>1 DEF LedTo
<1> DEFINE T == S \cap (0 .. N)
<1>4. T \in SUBSET (0 .. N) /\ m \in T
    OBVIOUS
<1>5. \A q \in T \ {0} : begun[q].saw \in T
    BY <1>1, <1>2
<1>6. r \in T
    <2> HIDE DEF T
    <2> QED
        BY <1>4, <1>5 DEF LedTo
<1> QED
    BY <1>1, <1>3, <1>6

\* A run begins: R is what is remembered of it. A run that is under way has the frame F.
LEMMA EngineRunBegun ==
    ASSUME EnginesInv, NEW R \in Engines!Run,
           R.known \subseteq nodes, R.saw = modelState, R.within = {frames[k].run : k \in DOMAIN frames},
           R.kind \in Engines!Recorded => R.session \in DOMAIN records,
           begun' = Append(begun, R), executed' = Append(executed, <<>>),
           UNCHANGED <<nodes, links, processes, list, session, records>>
    PROVE  /\ begun' \in Seq(Engines!Run) /\ DOMAIN begun' = 1 .. Len(begun) + 1
           /\ Len(begun') = Len(begun) + 1 /\ begun'[Len(begun) + 1] = R
           /\ \A r \in DOMAIN begun : r \in DOMAIN begun' /\ r # Len(begun) + 1 /\ begun'[r] = begun[r]
           /\ executed' \in Seq(Seq(Nat)) /\ Len(executed') = Len(begun) + 1
           /\ executed'[Len(begun) + 1] = <<>> /\ \A r \in DOMAIN begun : executed'[r] = executed[r]
           /\ records' \in Seq(Seq(DOMAIN begun')) /\ Len(begun) \in Nat /\ DOMAIN begun = 1 .. Len(begun)
           /\ RunsOK'
           /\ \A n : \A run \in DOMAIN begun : \A w \in Engines!Walks : WalkedTo(run, w, n) => WalkedTo(run, w, n)'
           /\ \A m \in 0 .. Len(begun) : LedTo(m) \subseteq LedTo(m)'
           /\ \A r \in DOMAIN begun : InsideStep(r) => InsideStep(r)'
<1> DEFINE N == Len(begun)
<1>1. /\ begun \in Seq(Engines!Run) /\ executed \in Seq(Seq(Nat)) /\ Len(executed) = N /\ <<>> \in Seq(Nat)
      /\ DOMAIN begun = 1 .. N /\ N \in Nat
    <2>1. Len(executed) = N
        BY DEF EnginesInv, EngineTypes
    <2> QED
        BY <2>1, EngineTypesFacts DEF EnginesInv
<1>2. /\ begun' \in Seq(Engines!Run) /\ DOMAIN begun' = 1 .. N + 1 /\ Len(begun') = N + 1 /\ begun'[N + 1] = R
      /\ \A r \in 1 .. N : begun'[r] = begun[r]
    BY <1>1, AppendFacts
<1>3. /\ executed' \in Seq(Seq(Nat)) /\ Len(executed') = N + 1 /\ executed'[N + 1] = <<>>
      /\ \A r \in 1 .. N : executed'[r] = executed[r]
    BY <1>1, AppendFacts
<1>4. \A r \in 1 .. N : r \in 1 .. N + 1 /\ r # N + 1
    BY <1>1
<1>5. records' \in Seq(Seq(DOMAIN begun'))
    <2>1. records \in Seq(Seq(DOMAIN begun)) /\ DOMAIN begun \subseteq DOMAIN begun'
        BY <1>1, <1>2, <1>4 DEF EnginesInv, EngineTypes, Engines!TypeOK
    <2>2. Seq(DOMAIN begun) \subseteq Seq(DOMAIN begun')
        BY <2>1, SeqWider
    <2> QED
        BY <2>1, <2>2, SeqWider
<1>6. RunsOK'
    <2> SUFFICES ASSUME NEW r \in 1 .. N + 1
                 PROVE  /\ begun'[r].within \subseteq 1 .. r - 1 /\ begun'[r].saw \in 0 .. r - 1
                        /\ begun'[r].known \subseteq nodes
                        /\ begun'[r].kind \in Engines!Recorded => begun'[r].session \in DOMAIN records
        BY <1>2 DEF RunsOK
    <2>1. CASE r = N + 1
        <3>1. \A k \in DOMAIN frames : frames[k].run \in 1 .. N
            BY <1>1 DEF EnginesInv, StackOK
        <3>2. modelState \in 0 .. N
            BY DEF EnginesInv, EngineTypes, Engines!TypeOK
        <3>3. r - 1 = N
            BY <1>1, <2>1
        <3> QED
            BY <1>2, <2>1, <3>1, <3>2, <3>3
    <2>2. CASE r \in 1 .. N
        BY <1>1, <1>2, <2>2 DEF EnginesInv, RunsOK
    <2>3. r = N + 1 \/ r \in 1 .. N
        BY <1>1
    <2> HIDE DEF N
    <2> QED
        BY <2>1, <2>2, <2>3
<1>7. ASSUME NEW run \in DOMAIN begun, NEW n, NEW w \in Engines!Walks, WalkedTo(run, w, n)
      PROVE  WalkedTo(run, w, n)'
    <2>1. Len(list[w]) \in Nat
        BY EngineTypesFacts DEF EnginesInv
    <2>2. executed'[run] = executed[run] /\ begun'[run].known = begun[run].known
        BY <1>1, <1>2, <1>3
    <2>3. Len(list'[w]) \in Nat /\ Len(list'[w]) >= Len(list[w])
          /\ (w = "flow" => \A i \in 1 .. Len(list["flow"]) : list'["flow"][i] = list["flow"][i])
        BY <2>1
    <2>4. WalkedTo(run, w, n)
        BY <1>7
    <2> HIDE DEF N
    <2> QED
        BY <2>1, <2>2, <2>3, <2>4, WalkedStays
<1>8. \A m \in 0 .. N : LedTo(m) \subseteq LedTo(m)'
    BY <1>1, <1>2, LedToStays
<1>9. \A r \in DOMAIN begun : InsideStep(r) => InsideStep(r)'
    <2>1. \A r \in DOMAIN begun : begun[r].within \subseteq 1 .. N
        <3> SUFFICES ASSUME NEW r \in 1 .. N, NEW q \in begun[r].within PROVE q \in 1 .. N
            BY <1>1
        <3>1. q \in 1 .. r - 1
            BY <1>1 DEF EnginesInv, RunsOK
        <3> QED
            BY <1>1, <3>1
    <2> QED
        BY <1>1, <1>2, <2>1 DEF InsideStep
<1> QED
    BY <1>1, <1>2, <1>3, <1>4, <1>5, <1>6, <1>7, <1>8, <1>9

\* A frame keeps its place when lists, nodes and what its run executed stay.
LEMMA FrameStays ==
    ASSUME NEW f \in Engines!Frame, FrameOK(f), list' = list,
           \A n : \A w \in Engines!Walks : WalkedTo(f.run, w, n) => WalkedTo(f.run, w, n)'
    PROVE  FrameOK(f)'
    BY DEF FrameOK

LEMMA EngineBegins ==
    ASSUME EnginesInv, NEW kind \in Engines!Walks \cup Engines!Recorded, NEW inside \in BOOLEAN,
           kind \in Engines!Walks <=> ~ inside,
           Engines!Begin(kind, inside)
    PROVE  EnginesInv'
<1> DEFINE N == Len(begun)
           K == Len(frames)
           under1 == {frames[k].run : k \in DOMAIN frames}
           R == [kind |-> kind, session |-> session, known |-> nodes, saw |-> modelState, within |-> under1]
           F == [kind |-> kind, run |-> N + 1, at |-> 1, link |-> 0, inside |-> inside]
<1>1. /\ begun' = Append(begun, R) /\ executed' = Append(executed, <<>>)
      /\ frames' = Append(frames, [kind |-> kind, run |-> Len(begun'), at |-> 1, link |-> 0, inside |-> inside])
      /\ kind \in Engines!Recorded => session # 0
      /\ UNCHANGED <<nodes, links, processes, list, session, records, modelState, done>>
    BY DEF Engines!Begin
<1>2. /\ begun \in Seq(Engines!Run) /\ frames \in Seq(Engines!Frame) /\ N \in Nat /\ DOMAIN begun = 1 .. N
      /\ K \in Nat /\ DOMAIN frames = 1 .. K
      /\ \A k \in 1 .. K : frames[k] \in Engines!Frame
      /\ \A d \in done : d.run \in 1 .. N
    BY EngineTypesFacts DEF EnginesInv
<1>3. /\ nodes \subseteq Nodes /\ session \in 0 .. Len(records) /\ modelState \in 0 .. N
      /\ DOMAIN records = 1 .. Len(records) /\ Len(records) \in Nat
    BY DEF EnginesInv, EngineTypes, Engines!TypeOK
<1>4. \A k \in 1 .. K : frames[k].run \in 1 .. N
    BY <1>2 DEF EnginesInv, StackOK
<1>5. R \in Engines!Run /\ (kind \in Engines!Recorded => session \in DOMAIN records)
    <2>1. under1 \in SUBSET Nat
        BY <1>2, <1>4
    <2>2. session \in Nat /\ modelState \in Nat
        BY <1>3
    <2>3. kind \in Engines!Recorded => session \in DOMAIN records
        BY <1>1, <1>3
    <2> HIDE DEF under1
    <2> QED
        BY <1>3, <2>1, <2>2, <2>3 DEF Engines!Run
<1>6. R.kind = kind /\ R.session = session /\ R.known = nodes /\ R.saw = modelState /\ R.within = under1
    OBVIOUS
<1> HIDE DEF R
<1>7. /\ begun' \in Seq(Engines!Run) /\ DOMAIN begun' = 1 .. N + 1
      /\ Len(begun') = N + 1 /\ begun'[N + 1] = R
      /\ \A r \in DOMAIN begun : r \in DOMAIN begun' /\ r # N + 1 /\ begun'[r] = begun[r]
      /\ executed' \in Seq(Seq(Nat)) /\ Len(executed') = N + 1
      /\ executed'[N + 1] = <<>> /\ \A r \in DOMAIN begun : executed'[r] = executed[r]
      /\ records' \in Seq(Seq(DOMAIN begun'))
      /\ RunsOK'
      /\ \A n : \A run \in DOMAIN begun : \A w \in Engines!Walks : WalkedTo(run, w, n) => WalkedTo(run, w, n)'
      /\ \A m \in 0 .. N : LedTo(m) \subseteq LedTo(m)'
      /\ \A r \in DOMAIN begun : InsideStep(r) => InsideStep(r)'
    BY <1>1, <1>5, <1>6, EngineRunBegun
<1>8. /\ F \in Engines!Frame /\ frames' = Append(frames, F)
      /\ frames' \in Seq(Engines!Frame) /\ DOMAIN frames' = 1 .. K + 1 /\ frames'[K + 1] = F
      /\ \A k \in 1 .. K : frames'[k] = frames[k]
    <2>1. F \in Engines!Frame
        BY <1>2 DEF Engines!Frame
    <2>2. frames' = Append(frames, F)
        BY <1>1, <1>7
    <2> HIDE DEF F
    <2> QED
        BY <1>2, <2>1, <2>2, AppendFacts
<1>9. EngineTypes'
    <2>1. modelState' \in 0 .. Len(begun')
        BY <1>1, <1>2, <1>3, <1>7
    <2>2. done' \subseteq [run : DOMAIN begun', length : Nat, kept : BOOLEAN]
        BY <1>1, <1>2, <1>7 DEF EnginesInv, EngineTypes
    <2> QED
        BY <1>1, <1>7, <1>8, <2>1, <2>2 DEF EnginesInv, EngineTypes, Engines!TypeOK
<1>10. \A k \in 1 .. K + 1 : k = K + 1 \/ k \in 1 .. K
    BY <1>2
<1>11. N + 1 \notin 1 .. N
    BY <1>2
<1>12. StackOK'
    <2> SUFFICES ASSUME NEW k \in 1 .. K + 1
                 PROVE  /\ frames'[k].run \in DOMAIN begun' /\ frames'[k].kind = begun'[frames'[k].run].kind
                        /\ begun'[frames'[k].run].within = {frames'[j].run : j \in 1 .. k - 1}
                        /\ \A d \in done : d.run # frames'[k].run
        BY <1>1, <1>8 DEF StackOK
    <2>1. CASE k = K + 1
        <3>1. frames'[k].run = N + 1 /\ frames'[k].kind = kind
            BY <1>8, <2>1
        <3>2. \A d \in done : d.run # N + 1
            BY <1>2, <1>11
        <3>3. 1 .. k - 1 = 1 .. K
            BY <1>2, <2>1
        <3>4. {frames'[j].run : j \in 1 .. k - 1} = under1
            <4>1. {frames'[j].run : j \in 1 .. K} = {frames[j].run : j \in 1 .. K}
                <5> HIDE DEF K, F
                <5> QED
                    BY <1>8
            <4> QED
                BY <1>2, <3>3, <4>1
        <3>5. N + 1 \in DOMAIN begun'
            BY <1>2, <1>7
        <3> HIDE DEF under1, N, K
        <3> QED
            BY <1>6, <1>7, <3>1, <3>2, <3>4, <3>5
    <2>2. CASE k \in 1 .. K
        <3>1. frames'[k] = frames[k] /\ frames[k].run \in DOMAIN begun
            BY <1>2, <1>4, <1>8, <2>2
        <3>2. {frames'[j].run : j \in 1 .. k - 1} = {frames[j].run : j \in 1 .. k - 1}
            <4>1. \A j \in 1 .. k - 1 : frames'[j] = frames[j]
                BY <1>2, <1>8, <2>2
            <4> QED
                BY <4>1
        <3>3. StackOK
            BY DEF EnginesInv
        <3>4. /\ frames[k].kind = begun[frames[k].run].kind
              /\ begun[frames[k].run].within = {frames[j].run : j \in 1 .. k - 1}
              /\ \A d \in done : d.run # frames[k].run
            BY <1>2, <2>2, <3>3 DEF StackOK
        <3> HIDE DEF N, K
        <3> QED
            BY <1>7, <3>1, <3>2, <3>4
    <2> QED
        BY <1>10, <2>1, <2>2
<1>13. FramesOK'
    <2> SUFFICES ASSUME NEW k \in 1 .. K + 1, NEW g, g = frames'[k] PROVE FrameOK(g)'
        BY <1>8 DEF FramesOK
    <2>1. CASE k = K + 1
        <3>1. g.kind = kind /\ g.run = N + 1 /\ g.at = 1 /\ g.link = 0 /\ g.inside = inside
            BY <1>8, <2>1
        <3>2. kind \in Engines!Walks => Len(list'[kind]) \in Nat
            BY <1>1, EngineTypesFacts DEF EnginesInv
        <3>3. kind \in Engines!Walks => WalkedTo(g.run, kind, 0)'
            <4> SUFFICES ASSUME kind \in Engines!Walks PROVE WalkedTo(g.run, kind, 0)'
                OBVIOUS
            <4>1. DOMAIN executed'[g.run] = {} /\ 0 \in 0 .. Len(list'[kind])
                BY <1>7, <3>1, <3>2
            <4> QED
                BY <4>1 DEF WalkedTo
        <3>4. kind \in Engines!Walks => WalkedTo(g.run, g.kind, IF g.link > 0 THEN g.at ELSE g.at - 1)'
            <4>1. (IF g.link > 0 THEN g.at ELSE g.at - 1) = 0
                BY <3>1
            <4>2. g.kind = kind
                BY <3>1
            <4> QED
                BY <3>3, <4>1, <4>2
        <3>5. g.kind \notin Engines!Walks => g.inside
            BY <3>1
        <3>6. kind \in Engines!Walks => g.at \in 1 .. Len(list'[g.kind]) + 1 /\ ~ g.inside /\ ~ (g.link > 0)
            BY <3>1, <3>2
        <3> QED
            BY <3>1, <3>4, <3>5, <3>6 DEF FrameOK
    <2>2. CASE k \in 1 .. K
        <3>1. g = frames[k] /\ g \in Engines!Frame /\ g.run \in DOMAIN begun /\ FrameOK(g)
            BY <1>2, <1>4, <1>8, <2>2 DEF EnginesInv, FramesOK
        <3> QED
            BY <1>1, <1>7, <3>1, FrameStays
    <2> QED
        BY <1>10, <2>1, <2>2
<1>14. DoneOK'
    <2> SUFFICES ASSUME NEW d \in done, begun[d.run].kind \in Engines!Walks
                 PROVE  WalkedTo(d.run, begun[d.run].kind, d.length)'
        BY <1>1, <1>2, <1>7 DEF DoneOK
    <2>1. d.run \in DOMAIN begun /\ begun'[d.run] = begun[d.run]
          /\ WalkedTo(d.run, begun[d.run].kind, d.length)
        BY <1>2, <1>7 DEF EnginesInv, DoneOK
    <2>2. PICK w \in Engines!Walks : w = begun[d.run].kind
        OBVIOUS
    <2>3. WalkedTo(d.run, w, d.length)'
        BY <1>7, <2>1, <2>2
    <2> QED
        BY <2>1, <2>2, <2>3
<1>15. RecordsOK'
    <2> SUFFICES ASSUME NEW s \in DOMAIN records PROVE RecordOK(records[s], s)'
        BY <1>1 DEF RecordsOK
    <2>1. PICK h : h = records[s]
        OBVIOUS
    <2>2. RecordOK(h, s)
        BY <2>1 DEF EnginesInv, RecordsOK
    <2>3. \A k \in DOMAIN h : h[k] \in DOMAIN begun
        BY <1>2, <2>2 DEF RecordOK
    <2>4. RecordOK(h, s)'
        BY <1>1, <1>2, <1>7, <2>2, <2>3 DEF RecordOK
    <2> QED
        BY <1>1, <2>1, <2>4
<1>16. KeptOK'
    <2>1. \A d \in done : d.kept => d.run \in LedTo(modelState) \/ InsideStep(d.run)
        BY DEF EnginesInv, KeptOK
    <2>2. \A d \in done : d.run \in DOMAIN begun
        BY <1>2
    <2>3. LedTo(modelState) \subseteq LedTo(modelState)'
        BY <1>1, <1>3, <1>7
    <2>4. \A d \in done : d.kept => d.run \in LedTo(modelState)' \/ InsideStep(d.run)'
        BY <1>7, <2>1, <2>2, <2>3
    <2>5. ASSUME NEW k \in 1 .. K + 1, frames'[k].kind = "model", NEW d \in done, d.kept
          PROVE  d.run \in LedTo(begun[frames[k].run].saw)' \/ InsideStep(d.run)'
        <3>1. CASE k = K + 1
            <4>1. begun'[frames'[k].run].saw = modelState
                BY <1>6, <1>7, <1>8, <3>1
            <4>2. PICK m : m = modelState
                OBVIOUS
            <4>3. d.run \in LedTo(m)' \/ InsideStep(d.run)'
                BY <1>1, <2>4, <2>5, <4>2
            <4> QED
                BY <4>1, <4>2, <4>3
        <3>2. CASE k \in 1 .. K
            <4>1. frames'[k] = frames[k] /\ frames[k].run \in 1 .. N
                BY <1>4, <1>8, <3>2
            <4>2. d.run \in LedTo(begun[frames[k].run].saw) \/ InsideStep(d.run)
                BY <1>2, <2>5, <3>2, <4>1 DEF EnginesInv, KeptOK
            <4>3. PICK m : m = begun[frames[k].run].saw
                OBVIOUS
            <4>4. m \in 0 .. N
                <5>1. m \in 0 .. frames[k].run - 1
                    BY <1>2, <4>1, <4>3 DEF EnginesInv, RunsOK
                <5> QED
                    BY <1>2, <4>1, <5>1
            <4>5. begun'[frames'[k].run].saw = m
                BY <1>2, <1>7, <4>1, <4>3
            <4>6. d.run \in LedTo(m)' \/ InsideStep(d.run)'
                BY <1>7, <2>2, <4>2, <4>3, <4>4
            <4> QED
                BY <4>5, <4>6
        <3> QED
            BY <1>10, <3>1, <3>2
    <2> QED
        BY <1>1, <1>8, <2>4, <2>5 DEF KeptOK
<1> QED
    BY <1>7, <1>9, <1>12, <1>13, <1>14, <1>15, <1>16 DEF EnginesInv

LEMMA LedToSelf ==
    ASSUME NEW m \in DOMAIN begun, DOMAIN begun = 1 .. Len(begun), Len(begun) \in Nat
    PROVE  m \in LedTo(m) /\ LedTo(begun[m].saw) \subseteq LedTo(m)
    BY DEF LedTo

LEMMA EngineModelInitialized == ASSUME EnginesInv, Engines!InitializeModel PROVE EnginesInv'
<1> DEFINE N == Len(begun)
           under1 == {frames[k].run : k \in DOMAIN frames}
           R == [kind |-> "initialize", session |-> 0, known |-> {}, saw |-> modelState, within |-> under1]
           D == [run |-> N + 1, length |-> 0, kept |-> TRUE]
<1>1. /\ begun' = Append(begun, R) /\ executed' = Append(executed, <<>>)
      /\ done' = done \cup {[run |-> Len(begun'), length |-> 0, kept |-> TRUE]} /\ modelState' = Len(begun')
      /\ UNCHANGED <<nodes, links, processes, list, session, records, frames>>
    BY DEF Engines!InitializeModel
<1>2. /\ begun \in Seq(Engines!Run) /\ frames \in Seq(Engines!Frame) /\ N \in Nat /\ DOMAIN begun = 1 .. N
      /\ \A k \in DOMAIN frames : frames[k] \in Engines!Frame
      /\ \A d \in done : d.run \in 1 .. N
    BY EngineTypesFacts DEF EnginesInv
<1>3. modelState \in 0 .. N
    BY DEF EnginesInv, EngineTypes, Engines!TypeOK
<1>4. \A k \in DOMAIN frames : frames[k].run \in 1 .. N
    BY <1>2 DEF EnginesInv, StackOK
<1>5. R \in Engines!Run
    <2>1. under1 \in SUBSET Nat
        BY <1>2, <1>4
    <2> HIDE DEF under1
    <2> QED
        BY <1>3, <2>1 DEF Engines!Run
<1>6. R.kind = "initialize" /\ R.session = 0 /\ R.known = {} /\ R.saw = modelState /\ R.within = under1
      /\ R.kind \notin Engines!Recorded /\ R.kind \notin Engines!Walks
    BY DEF Engines!Recorded, Engines!Walks
<1> HIDE DEF R
<1>7. /\ begun' \in Seq(Engines!Run) /\ DOMAIN begun' = 1 .. N + 1
      /\ Len(begun') = N + 1 /\ begun'[N + 1] = R
      /\ \A r \in DOMAIN begun : r \in DOMAIN begun' /\ r # N + 1 /\ begun'[r] = begun[r]
      /\ executed' \in Seq(Seq(Nat)) /\ Len(executed') = N + 1
      /\ executed'[N + 1] = <<>> /\ \A r \in DOMAIN begun : executed'[r] = executed[r]
      /\ records' \in Seq(Seq(DOMAIN begun'))
      /\ RunsOK'
      /\ \A n : \A run \in DOMAIN begun : \A w \in Engines!Walks : WalkedTo(run, w, n) => WalkedTo(run, w, n)'
      /\ \A m \in 0 .. N : LedTo(m) \subseteq LedTo(m)'
      /\ \A r \in DOMAIN begun : InsideStep(r) => InsideStep(r)'
    BY <1>1, <1>5, <1>6, EngineRunBegun
<1>8. done' = done \cup {D} /\ modelState' = N + 1 /\ D.run = N + 1 /\ D.kept /\ N + 1 \notin 1 .. N
      /\ N + 1 \in DOMAIN begun'
    BY <1>1, <1>2, <1>7
<1>9. EngineTypes'
    <2>1. D \in [run : DOMAIN begun', length : Nat, kept : BOOLEAN] /\ modelState' \in 0 .. Len(begun')
        BY <1>2, <1>7, <1>8
    <2>2. done' \subseteq [run : DOMAIN begun', length : Nat, kept : BOOLEAN]
        BY <1>2, <1>7, <1>8, <2>1 DEF EnginesInv, EngineTypes
    <2> QED
        BY <1>1, <1>7, <2>1, <2>2 DEF EnginesInv, EngineTypes, Engines!TypeOK
<1> HIDE DEF D
<1>12. StackOK'
    <2> SUFFICES ASSUME NEW k \in DOMAIN frames
                 PROVE  /\ frames[k].run \in DOMAIN begun' /\ frames[k].kind = begun'[frames[k].run].kind
                        /\ begun'[frames[k].run].within = {frames[j].run : j \in 1 .. k - 1}
                        /\ \A d \in done' : d.run # frames[k].run
        BY <1>1 DEF StackOK
    <2>1. /\ frames[k].run \in DOMAIN begun /\ frames[k].kind = begun[frames[k].run].kind
          /\ begun[frames[k].run].within = {frames[j].run : j \in 1 .. k - 1}
          /\ \A d \in done : d.run # frames[k].run
        BY DEF EnginesInv, StackOK
    <2>2. frames[k].run # N + 1
        BY <1>4, <1>8
    <2> QED
        BY <1>7, <1>8, <2>1, <2>2
<1>13. FramesOK'
    <2> SUFFICES ASSUME NEW k \in DOMAIN frames, NEW g, g = frames[k] PROVE FrameOK(g)'
        BY <1>1 DEF FramesOK
    <2>1. g \in Engines!Frame /\ g.run \in DOMAIN begun /\ FrameOK(g)
        BY <1>2, <1>4 DEF EnginesInv, FramesOK
    <2> QED
        BY <1>1, <1>7, <2>1, FrameStays
<1>14. DoneOK'
    <2> SUFFICES ASSUME NEW d \in done', begun'[d.run].kind \in Engines!Walks,
                        NEW w, w = begun'[d.run].kind
                 PROVE  WalkedTo(d.run, w, d.length)'
        BY DEF DoneOK
    <2>1. d \in done
        BY <1>6, <1>7, <1>8
    <2>2. d.run \in DOMAIN begun /\ w = begun[d.run].kind /\ w \in Engines!Walks
        BY <1>2, <1>7, <2>1
    <2>3. WalkedTo(d.run, w, d.length)
        BY <2>1, <2>2 DEF EnginesInv, DoneOK
    <2> QED
        BY <1>7, <2>2, <2>3
<1>15. RecordsOK'
    <2> SUFFICES ASSUME NEW s \in DOMAIN records, NEW h, h = records[s] PROVE RecordOK(h, s)'
        BY <1>1 DEF RecordsOK
    <2>2. RecordOK(h, s)
        BY DEF EnginesInv, RecordsOK
    <2>3. \A k \in DOMAIN h : h[k] \in DOMAIN begun
        BY <1>2, <2>2 DEF RecordOK
    <2>4. \A d \in done' : begun'[d.run].kind \in Engines!Recorded => d \in done /\ begun'[d.run] = begun[d.run]
        BY <1>2, <1>6, <1>7, <1>8
    <2>5. ASSUME NEW k \in DOMAIN h
          PROVE  /\ \E d \in done' : d.run = h[k]
                 /\ begun'[h[k]] = begun[h[k]] /\ begun[h[k]].kind \in Engines!Recorded /\ begun[h[k]].session = s
        BY <1>7, <1>8, <2>2, <2>3 DEF RecordOK
    <2>6. ASSUME NEW d \in done', begun'[d.run].kind \in Engines!Recorded, begun'[d.run].session = s
          PROVE  \E k \in DOMAIN h : h[k] = d.run
        <3>1. d \in done /\ begun'[d.run] = begun[d.run]
            BY <2>4, <2>6
        <3> QED
            BY <2>2, <2>6, <3>1 DEF RecordOK
    <2>7. \A j, k \in DOMAIN h : j < k => h[j] # h[k] /\ h[j] \notin begun'[h[k]].within
        BY <2>2, <2>5 DEF RecordOK
    <2> QED
        BY <2>5, <2>6, <2>7 DEF RecordOK
<1>16. KeptOK'
    <2>1. \A d \in done : d.kept => d.run \in LedTo(modelState) \/ InsideStep(d.run)
        BY DEF EnginesInv, KeptOK
    <2>2. \A d \in done : d.run \in DOMAIN begun
        BY <1>2
    <2>3. PICK m : m = modelState
        OBVIOUS
    <2>4. PICK top : top = N + 1
        OBVIOUS
    <2>5. top \in LedTo(top)' /\ LedTo(m)' \subseteq LedTo(top)'
        <3>1. top \in DOMAIN begun' /\ DOMAIN begun' = 1 .. Len(begun') /\ Len(begun') \in Nat
              /\ begun'[top].saw = m
            BY <1>2, <1>6, <1>7, <1>8, <2>3, <2>4
        <3> QED
            BY <3>1 DEF LedTo
    <2>6. LedTo(m) \subseteq LedTo(m)'
        BY <1>3, <1>7, <2>3
    <2>7. ASSUME NEW d \in done', d.kept PROVE d.run \in LedTo(top)' \/ InsideStep(d.run)'
        <3>1. CASE d = D
            BY <1>8, <2>4, <2>5, <3>1
        <3>2. CASE d \in done
            <4>1. d.run \in LedTo(m) \/ InsideStep(d.run)
                BY <2>1, <2>3, <2>7, <3>2
            <4> QED
                BY <1>7, <2>2, <2>5, <2>6, <3>2, <4>1
        <3> QED
            BY <1>8, <3>1, <3>2
    <2>8. ASSUME NEW k \in DOMAIN frames, frames[k].kind = "model", NEW d \in done', d.kept,
                 NEW saw, saw = begun'[frames[k].run].saw
          PROVE  d.run \in LedTo(saw)' \/ InsideStep(d.run)'
        <3>1. frames[k].run \in DOMAIN begun /\ frames[k].kind = begun[frames[k].run].kind
            BY DEF EnginesInv, StackOK
        <3>2. CASE d = D
            <4>1. frames[k].run \in begun'[d.run].within
                BY <1>6, <1>7, <1>8, <3>2
            <4>2. begun'[frames[k].run].kind = "model"
                BY <1>7, <2>8, <3>1
            <4> QED
                BY <4>1, <4>2 DEF InsideStep
        <3>3. CASE d \in done
            <4>1. saw = begun[frames[k].run].saw
                BY <1>7, <2>8, <3>1
            <4>2. d.run \in LedTo(saw) \/ InsideStep(d.run)
                BY <2>8, <3>3, <4>1 DEF EnginesInv, KeptOK
            <4>3. saw \in 0 .. N
                <5>1. saw \in 0 .. frames[k].run - 1 /\ frames[k].run \in 1 .. N
                    BY <1>2, <3>1, <4>1 DEF EnginesInv, RunsOK
                <5> QED
                    BY <1>2, <5>1
            <4> QED
                BY <1>7, <2>2, <3>3, <4>2, <4>3
        <3> QED
            BY <1>8, <2>8, <3>2, <3>3
    <2>9. modelState' = top
        BY <1>8, <2>4
    <2> QED
        BY <1>1, <2>7, <2>8, <2>9 DEF KeptOK
<1> QED
    BY <1>7, <1>9, <1>12, <1>13, <1>14, <1>15, <1>16 DEF EnginesInv

-----------------------------------------------------------------------------

\* The runs under way are distinct, and began before the one at the top.
LEMMA EngineTopFacts ==
    ASSUME EnginesInv, frames # <<>>, NEW f, f = Engines!Top, NEW K, K = Len(frames)
    PROVE  /\ K \in Nat \ {0} /\ DOMAIN frames = 1 .. K /\ f = frames[K] /\ f \in Engines!Frame
           /\ f.run \in DOMAIN begun /\ f.kind = begun[f.run].kind /\ FrameOK(f)
           /\ begun[f.run].within = {frames[j].run : j \in 1 .. K - 1}
           /\ \A d \in done : d.run # f.run
           /\ \A k \in 1 .. K - 1 : frames[k].run # f.run
<1>1. K \in Nat \ {0} /\ DOMAIN frames = 1 .. K /\ K \in 1 .. K
    <2>1. frames \in Seq(Engines!Frame)
        BY EngineTypesFacts DEF EnginesInv
    <2> QED
        BY <2>1, FrontFacts
<1>2. f = frames[K]
    BY DEF Engines!Top
<1>3. f \in Engines!Frame /\ FrameOK(f)
    BY <1>1, <1>2, EngineTypesFacts DEF EnginesInv, FramesOK
<1>4. /\ f.run \in DOMAIN begun /\ f.kind = begun[f.run].kind
      /\ begun[f.run].within = {frames[j].run : j \in 1 .. K - 1}
      /\ \A d \in done : d.run # f.run
    BY <1>1, <1>2 DEF EnginesInv, StackOK
<1>5. \A k \in 1 .. K - 1 : frames[k].run # f.run
    <2>1. begun[f.run].within \subseteq 1 .. f.run - 1 /\ f.run \in Nat
        BY <1>3, <1>4 DEF EnginesInv, RunsOK, Engines!Frame
    <2> QED
        BY <1>4, <2>1
<1> QED
    BY <1>1, <1>2, <1>3, <1>4, <1>5

LEMMA EngineTopMoved ==
    ASSUME EnginesInv, frames # <<>>, NEW f \in Engines!Frame, NEW g, g = Engines!Top,
           f.run = g.run, f.kind = g.kind, Engines!Moved(f),
           executed' \in Seq(Seq(Nat)), Len(executed') = Len(executed),
           \A r \in DOMAIN begun : r # f.run => executed'[r] = executed[r],
           UNCHANGED <<nodes, links, processes, list, session, records, modelState, begun, done>>,
           FrameOK(f)'
    PROVE  EnginesInv'
<1>1. PICK K : K = Len(frames)
    OBVIOUS
<1>2. /\ K \in Nat \ {0} /\ DOMAIN frames = 1 .. K /\ g = frames[K]
      /\ f.run \in DOMAIN begun /\ \A d \in done : d.run # f.run
      /\ \A k \in 1 .. K - 1 : frames[k].run # f.run
    BY <1>1, EngineTopFacts
<1>3. /\ frames \in Seq(Engines!Frame) /\ \A k \in 1 .. K : frames[k] \in Engines!Frame
      /\ frames' = [frames EXCEPT ![K] = f]
    BY <1>1, <1>2, EngineTypesFacts DEF EnginesInv, Engines!Moved
<1>4. /\ frames' \in Seq(Engines!Frame) /\ DOMAIN frames' = 1 .. K
      /\ frames'[K] = f /\ \A k \in 1 .. K - 1 : frames'[k] = frames[k]
    BY <1>2, <1>3
<1>5. \A k \in 1 .. K : frames'[k].run = frames[k].run /\ frames'[k].kind = frames[k].kind
    BY <1>2, <1>4
<1>6. EngineTypes'
    BY <1>4 DEF EnginesInv, EngineTypes, Engines!TypeOK
<1>7. RunsOK' /\ RecordsOK'
    BY DEF EnginesInv, RunsOK, RecordsOK, RecordOK
<1>8. StackOK'
    <2> SUFFICES ASSUME NEW k \in 1 .. K
                 PROVE  /\ frames'[k].run \in DOMAIN begun /\ frames'[k].kind = begun[frames'[k].run].kind
                        /\ begun[frames'[k].run].within = {frames'[j].run : j \in 1 .. k - 1}
                        /\ \A d \in done : d.run # frames'[k].run
        BY <1>4 DEF StackOK
    <2>1. /\ frames[k].run \in DOMAIN begun /\ frames[k].kind = begun[frames[k].run].kind
          /\ begun[frames[k].run].within = {frames[j].run : j \in 1 .. k - 1}
          /\ \A d \in done : d.run # frames[k].run
        BY <1>2 DEF EnginesInv, StackOK
    <2>2. \A j \in 1 .. k - 1 : frames'[j].run = frames[j].run
        BY <1>2, <1>5
    <2> QED
        BY <1>5, <2>1, <2>2
<1>9. ASSUME NEW n, NEW run \in DOMAIN begun, NEW w \in Engines!Walks, run # f.run, WalkedTo(run, w, n)
      PROVE  WalkedTo(run, w, n)'
    <2>1. executed'[run] = executed[run] /\ list' = list /\ begun' = begun
        BY <1>9
    <2> QED
        BY ONLY <1>9, <2>1 DEF WalkedTo
<1>10. FramesOK'
    <2> SUFFICES ASSUME NEW k \in 1 .. K, NEW h, h = frames'[k] PROVE FrameOK(h)'
        BY <1>4 DEF FramesOK
    <2>1. CASE k = K
        BY <1>4, <2>1
    <2>2. CASE k \in 1 .. K - 1
        <3>1. h = frames[k] /\ h \in Engines!Frame /\ FrameOK(h) /\ h.run \in DOMAIN begun /\ h.run # f.run
            BY <1>2, <1>3, <1>4, <2>2 DEF EnginesInv, FramesOK, StackOK
        <3> QED
            BY <1>9, <3>1, FrameStays
    <2>3. k = K \/ k \in 1 .. K - 1
        BY <1>2
    <2> QED
        BY <2>1, <2>2, <2>3
<1>11. DoneOK'
    <2> SUFFICES ASSUME NEW d \in done, NEW w, w = begun[d.run].kind, w \in Engines!Walks
                 PROVE  WalkedTo(d.run, w, d.length)'
        BY DEF DoneOK
    <2>1. d.run \in DOMAIN begun /\ WalkedTo(d.run, w, d.length)
        BY EngineTypesFacts DEF EnginesInv, DoneOK
    <2> QED
        BY <1>2, <1>9, <2>1
<1>12. KeptOK'
    <2>1. \A m : LedTo(m)' = LedTo(m) /\ InsideStep(m)' = InsideStep(m)
        BY DEF LedTo, InsideStep
    <2>2. \A d \in done : d.kept => d.run \in LedTo(modelState) \/ InsideStep(d.run)
        BY DEF EnginesInv, KeptOK
    <2>3. ASSUME NEW k \in 1 .. K, frames'[k].kind = "model", NEW saw, saw = begun[frames'[k].run].saw,
                 NEW d \in done, d.kept
          PROVE  d.run \in LedTo(saw)' \/ InsideStep(d.run)'
        <3>1. frames[k].kind = "model" /\ saw = begun[frames[k].run].saw
            BY <1>5, <2>3
        <3>2. d.run \in LedTo(saw) \/ InsideStep(d.run)
            BY <1>2, <2>3, <3>1 DEF EnginesInv, KeptOK
        <3> QED
            BY <2>1, <3>2
    <2>4. PICK m : m = modelState
        OBVIOUS
    <2>5. \A d \in done' : d.kept => d.run \in LedTo(m)' \/ InsideStep(d.run)'
        BY <2>1, <2>2, <2>4
    <2> QED
        BY <1>4, <2>3, <2>4, <2>5 DEF KeptOK
<1> QED
    BY <1>6, <1>7, <1>8, <1>10, <1>11, <1>12 DEF EnginesInv

\* The run at the top is gone, and with it only its frame.
LEMMA EngineTopGone ==
    ASSUME EnginesInv, frames # <<>>, frames' = SubSeq(frames, 1, Len(frames) - 1),
           UNCHANGED <<nodes, list, begun, executed>>
    PROVE  /\ frames' \in Seq(Engines!Frame) /\ DOMAIN frames' = 1 .. Len(frames) - 1
           /\ \A k \in 1 .. Len(frames) - 1 : frames'[k] = frames[k] /\ k \in DOMAIN frames
           /\ \A d \in done : d.run \in DOMAIN begun
           /\ (UNCHANGED records => RunsOK')
           /\ FramesOK'
           /\ \A m : LedTo(m)' = LedTo(m) /\ InsideStep(m)' = InsideStep(m)
           /\ \A run, w, n : WalkedTo(run, w, n)' = WalkedTo(run, w, n)
           /\ (UNCHANGED done => StackOK')
<1> DEFINE K == Len(frames)
<1>1. frames \in Seq(Engines!Frame) /\ \A d \in done : d.run \in DOMAIN begun
    BY EngineTypesFacts DEF EnginesInv
<1>2. /\ frames' \in Seq(Engines!Frame) /\ DOMAIN frames' = 1 .. K - 1 /\ K \in Nat \ {0} /\ DOMAIN frames = 1 .. K
      /\ \A k \in 1 .. K - 1 : frames'[k] = frames[k]
    BY <1>1, FrontFacts
<1>3. \A k \in 1 .. K - 1 : k \in 1 .. K /\ \A j \in 1 .. k - 1 : j \in 1 .. K - 1
    BY <1>2
<1>4. \A run, w, n : WalkedTo(run, w, n)' = WalkedTo(run, w, n)
    BY DEF WalkedTo
<1>5. \A m : LedTo(m)' = LedTo(m) /\ InsideStep(m)' = InsideStep(m)
    BY DEF LedTo, InsideStep
<1>6. FramesOK'
    <2> SUFFICES ASSUME NEW k \in 1 .. K - 1, NEW h, h = frames[k] PROVE FrameOK(h)'
        BY <1>2 DEF FramesOK
    <2>1. FrameOK(h) /\ h \in Engines!Frame
        BY <1>1, <1>2, <1>3 DEF EnginesInv, FramesOK
    <2> QED
        BY <1>4, <2>1, FrameStays
<1>7. UNCHANGED done => StackOK'
    <2> SUFFICES ASSUME UNCHANGED done, NEW k \in 1 .. K - 1
                 PROVE  /\ frames'[k].run \in DOMAIN begun /\ frames'[k].kind = begun[frames'[k].run].kind
                        /\ begun[frames'[k].run].within = {frames'[j].run : j \in 1 .. k - 1}
                        /\ \A d \in done : d.run # frames'[k].run
        BY <1>2 DEF StackOK
    <2>1. /\ frames[k].run \in DOMAIN begun /\ frames[k].kind = begun[frames[k].run].kind
          /\ begun[frames[k].run].within = {frames[j].run : j \in 1 .. k - 1}
          /\ \A d \in done : d.run # frames[k].run
        BY <1>2, <1>3 DEF EnginesInv, StackOK
    <2> HIDE DEF K
    <2> QED
        BY <1>2, <1>3, <2>1
<1>8. UNCHANGED records => RunsOK'
    BY DEF EnginesInv, RunsOK
<1> QED
    BY <1>1, <1>2, <1>3, <1>4, <1>5, <1>6, <1>7, <1>8

LEMMA EngineRaises == ASSUME EnginesInv, Engines!Raises PROVE EnginesInv'
<1>1. /\ frames # <<>> /\ frames' = SubSeq(frames, 1, Len(frames) - 1)
      /\ UNCHANGED <<nodes, links, processes, list, session, records, modelState, begun, executed, done>>
    BY DEF Engines!Raises
<1>2. /\ frames' \in Seq(Engines!Frame) /\ DOMAIN frames' = 1 .. Len(frames) - 1
      /\ \A k \in 1 .. Len(frames) - 1 : frames'[k] = frames[k] /\ k \in DOMAIN frames
      /\ RunsOK' /\ FramesOK' /\ StackOK'
      /\ \A m : LedTo(m)' = LedTo(m) /\ InsideStep(m)' = InsideStep(m)
      /\ \A run, w, n : WalkedTo(run, w, n)' = WalkedTo(run, w, n)
    BY <1>1, EngineTopGone
<1>3. EngineTypes'
    BY <1>1, <1>2 DEF EnginesInv, EngineTypes, Engines!TypeOK
<1>4. RecordsOK'
    BY <1>1 DEF EnginesInv, RecordsOK, RecordOK
<1>5. DoneOK'
    BY <1>1, <1>2 DEF EnginesInv, DoneOK
<1>6. KeptOK'
    <2>1. \A d \in done : d.kept => d.run \in LedTo(modelState)' \/ InsideStep(d.run)'
        BY <1>1, <1>2 DEF EnginesInv, KeptOK, LedTo
    <2>2. ASSUME NEW k \in DOMAIN frames', frames'[k].kind = "model", NEW saw, saw = begun[frames'[k].run].saw,
                 NEW d \in done, d.kept
          PROVE  d.run \in LedTo(saw)' \/ InsideStep(d.run)'
        <3>1. d.run \in LedTo(saw) \/ InsideStep(d.run)
            BY <1>2, <2>2 DEF EnginesInv, KeptOK
        <3> QED
            BY <1>2, <3>1
    <2> QED
        BY <1>1, <2>1, <2>2 DEF KeptOK
<1> QED
    BY <1>2, <1>3, <1>4, <1>5, <1>6 DEF EnginesInv

\* The run at the top returns.
LEMMA EngineEnds ==
    ASSUME EnginesInv, frames # <<>>, NEW f, f = Engines!Top, NEW length \in Nat, NEW kept \in BOOLEAN,
           kept => f.kind = "model", f.kind \in Engines!Walks => WalkedTo(f.run, f.kind, length),
           Engines!End(length, kept), UNCHANGED <<nodes, links, processes, list, session, begun, executed>>
    PROVE  EnginesInv'
<1>1. PICK K : K = Len(frames)
    OBVIOUS
<1>2. /\ K \in Nat \ {0} /\ DOMAIN frames = 1 .. K /\ f = frames[K]
      /\ f.run \in DOMAIN begun /\ f.kind = begun[f.run].kind
      /\ begun[f.run].within = {frames[j].run : j \in 1 .. K - 1}
      /\ \A d \in done : d.run # f.run
      /\ \A k \in 1 .. K - 1 : frames[k].run # f.run
    BY <1>1, EngineTopFacts
<1>3. PICK D : D = [run |-> f.run, length |-> length, kept |-> kept]
    OBVIOUS
<1>4. D \in [run : DOMAIN begun, length : Nat, kept : BOOLEAN] /\ D.run = f.run /\ D.length = length /\ D.kept = kept
    BY <1>2, <1>3
<1>5. /\ frames' = SubSeq(frames, 1, Len(frames) - 1) /\ done' = done \cup {D}
      /\ modelState' = IF kept THEN f.run ELSE modelState
      /\ f.kind \notin Engines!Recorded => records' = records
      /\ f.kind \in Engines!Recorded =>
            records' = [records EXCEPT ![begun[f.run].session] = Append(@, f.run)]
    BY <1>3 DEF Engines!End, Engines!RecordedIn, Engines!Kept
<1>6. /\ frames' \in Seq(Engines!Frame) /\ DOMAIN frames' = 1 .. K - 1
      /\ \A k \in 1 .. K - 1 : frames'[k] = frames[k] /\ k \in DOMAIN frames
      /\ \A d \in done : d.run \in DOMAIN begun
      /\ FramesOK'
      /\ \A m : LedTo(m)' = LedTo(m) /\ InsideStep(m)' = InsideStep(m)
      /\ \A run, w, n : WalkedTo(run, w, n)' = WalkedTo(run, w, n)
    BY <1>1, <1>5, EngineTopGone
<1>7. records \in Seq(Seq(DOMAIN begun)) /\ modelState \in 0 .. Len(begun)
      /\ DOMAIN begun = 1 .. Len(begun) /\ Len(begun) \in Nat
    BY EngineTypesFacts DEF EnginesInv, EngineTypes, Engines!TypeOK
<1>8. PICK at : at = begun[f.run].session
    OBVIOUS
<1>9. f.kind \in Engines!Recorded =>
          /\ at \in DOMAIN records /\ records' \in Seq(Seq(DOMAIN begun)) /\ DOMAIN records' = DOMAIN records
          /\ records'[at] = Append(records[at], f.run) /\ records[at] \in Seq(DOMAIN begun)
          /\ \A s \in DOMAIN records : s # at => records'[s] = records[s]
    <2> SUFFICES ASSUME f.kind \in Engines!Recorded
                 PROVE  /\ at \in DOMAIN records /\ records' \in Seq(Seq(DOMAIN begun)) /\ DOMAIN records' = DOMAIN records
                        /\ records'[at] = Append(records[at], f.run) /\ records[at] \in Seq(DOMAIN begun)
                        /\ \A s \in DOMAIN records : s # at => records'[s] = records[s]
        OBVIOUS
    <2>1. at \in DOMAIN records
        BY <1>2, <1>8 DEF EnginesInv, RunsOK
    <2>2. records[at] \in Seq(DOMAIN begun)
        BY <1>7, <2>1
    <2>3. PICK h : h = Append(records[at], f.run)
        OBVIOUS
    <2>4. h \in Seq(DOMAIN begun)
        BY <1>2, <2>2, <2>3, AppendFacts
    <2>5. records' = [records EXCEPT ![at] = h]
        BY <1>5, <1>8, <2>3
    <2> QED
        BY <1>7, <2>1, <2>2, <2>3, <2>4, <2>5
<1>10. records' \in Seq(Seq(DOMAIN begun)) /\ Len(records') = Len(records) /\ DOMAIN records' = DOMAIN records
    <2>1. f.kind \in Engines!Recorded \/ records' = records
        BY <1>5
    <2> QED
        BY <1>7, <1>9, <2>1
<1>11. EngineTypes'
    <2>1. modelState' \in 0 .. Len(begun)
        BY SMTT(30), <1>2, <1>5, <1>7
    <2>2. done' \subseteq [run : DOMAIN begun, length : Nat, kept : BOOLEAN]
        BY <1>4, <1>5 DEF EnginesInv, EngineTypes
    <2> QED
        BY <1>6, <1>10, <2>1, <2>2 DEF EnginesInv, EngineTypes, Engines!TypeOK
<1>12. RunsOK'
    BY <1>10 DEF EnginesInv, RunsOK
<1>13. StackOK'
    <2> SUFFICES ASSUME NEW k \in 1 .. K - 1
                 PROVE  /\ frames'[k].run \in DOMAIN begun /\ frames'[k].kind = begun[frames'[k].run].kind
                        /\ begun[frames'[k].run].within = {frames'[j].run : j \in 1 .. k - 1}
                        /\ \A d \in done' : d.run # frames'[k].run
        BY <1>6 DEF StackOK
    <2>1. /\ frames[k].run \in DOMAIN begun /\ frames[k].kind = begun[frames[k].run].kind
          /\ begun[frames[k].run].within = {frames[j].run : j \in 1 .. k - 1}
          /\ \A d \in done : d.run # frames[k].run
        BY <1>6 DEF EnginesInv, StackOK
    <2>2. frames'[k] = frames[k] /\ \A j \in 1 .. k - 1 : frames'[j] = frames[j]
        BY <1>2, <1>6
    <2>3. {frames'[j].run : j \in 1 .. k - 1} = {frames[j].run : j \in 1 .. k - 1}
        BY ONLY <2>2
    <2>4. \A d \in done' : d.run # frames[k].run
        BY <1>2, <1>4, <1>5, <1>6, <2>1
    <2> QED
        BY ONLY <2>1, <2>2, <2>3, <2>4
<1>14. DoneOK'
    <2> SUFFICES ASSUME NEW d \in done', begun[d.run].kind \in Engines!Walks,
                        NEW w, w = begun[d.run].kind
                 PROVE  WalkedTo(d.run, w, d.length)'
        BY DEF DoneOK
    <2>1. CASE d = D
        BY <1>2, <1>4, <1>6, <2>1
    <2>2. CASE d \in done
        BY <1>6, <2>2 DEF EnginesInv, DoneOK
    <2> QED
        BY <1>5, <2>1, <2>2
<1>15. RecordsOK'
    <2> SUFFICES ASSUME NEW s \in DOMAIN records, NEW h, h = records'[s] PROVE RecordOK(h, s)'
        BY <1>10 DEF RecordsOK
    <2>1. PICK old : old = records[s]
        OBVIOUS
    <2>2. RecordOK(old, s) /\ old \in Seq(DOMAIN begun)
        BY <1>7, <2>1 DEF EnginesInv, RecordsOK
    <2>3. CASE f.kind \in Engines!Recorded /\ s = at
        <3>1. /\ DOMAIN h = 1 .. Len(old) + 1 /\ DOMAIN old = 1 .. Len(old) /\ Len(old) \in Nat
              /\ h[Len(old) + 1] = f.run /\ \A k \in DOMAIN old : h[k] = old[k]
            <4>1. h = Append(old, f.run)
                BY <1>9, <2>1, <2>3
            <4>2. f.run \in DOMAIN begun /\ old \in Seq(DOMAIN begun)
                BY <1>2, <2>2
            <4> QED
                BY <4>1, <4>2, AppendFacts
        <3>2. PICK L : L = Len(old)
            OBVIOUS
        <3>3. \A k \in 1 .. L + 1 : k = L + 1 \/ k \in DOMAIN old
            BY <3>1, <3>2
        <3>4. \A k \in DOMAIN old : \E d \in done : d.run = h[k]
            BY <2>2, <3>1 DEF RecordOK
        <3>5. ASSUME NEW k \in 1 .. L + 1
              PROVE  (\E d \in done' : d.run = h[k]) /\ begun[h[k]].kind \in Engines!Recorded /\ begun[h[k]].session = s
            <4>1. CASE k = L + 1
                BY <1>2, <1>4, <1>5, <1>8, <2>3, <3>1, <3>2, <4>1
            <4>2. CASE k \in DOMAIN old
                BY <1>5, <2>2, <3>1, <4>2 DEF RecordOK
            <4> QED
                BY <3>3, <4>1, <4>2
        <3>6. ASSUME NEW d \in done', begun[d.run].kind \in Engines!Recorded, begun[d.run].session = s
              PROVE  \E k \in 1 .. L + 1 : h[k] = d.run
            <4>1. CASE d = D
                <5>1. L + 1 \in 1 .. L + 1
                    BY <3>1, <3>2
                <5> QED
                    BY <1>4, <3>1, <3>2, <4>1, <5>1
            <4>2. CASE d \in done
                <5>1. PICK k \in DOMAIN old : old[k] = d.run
                    BY <2>2, <3>6, <4>2 DEF RecordOK
                <5>2. k \in 1 .. L + 1
                    BY <3>1, <3>2
                <5> QED
                    BY <3>1, <5>1, <5>2
            <4> QED
                BY <1>5, <4>1, <4>2
        <3>7. ASSUME NEW j \in 1 .. L + 1, NEW k \in 1 .. L + 1, j < k
              PROVE  h[j] # h[k] /\ h[j] \notin begun[h[k]].within
            <4>1. j \in DOMAIN old
                BY <3>1, <3>2, <3>7
            <4>2. CASE k = L + 1
                <5>1. PICK d \in done : d.run = h[j]
                    BY <3>4, <4>1
                <5>2. h[k] = f.run /\ h[j] # f.run
                    BY <1>2, <3>1, <3>2, <4>2, <5>1
                <5>3. \A i \in 1 .. K - 1 : frames[i].run # d.run
                    BY <1>6 DEF EnginesInv, StackOK
                <5> QED
                    BY <1>2, <5>1, <5>2, <5>3
            <4>3. CASE k \in DOMAIN old
                BY <2>2, <3>1, <3>7, <4>1, <4>3 DEF RecordOK
            <4> QED
                BY <3>3, <4>2, <4>3
        <3>8. begun' = begun /\ DOMAIN h = 1 .. L + 1
            BY <3>1, <3>2
        <3> QED
            BY ONLY <3>5, <3>6, <3>7, <3>8 DEF RecordOK
    <2>4. CASE ~ (f.kind \in Engines!Recorded /\ s = at)
        <3>1. h = old
            BY <1>5, <1>9, <2>1, <2>4
        <3>2. \A d \in done' : begun[d.run].kind \in Engines!Recorded /\ begun[d.run].session = s => d \in done
            BY <1>2, <1>4, <1>5, <1>8, <2>4
        <3>3. \A k \in DOMAIN old : \E d \in done' : d.run = old[k]
            BY <1>5, <2>2 DEF RecordOK
        <3> QED
            BY <2>2, <3>1, <3>2, <3>3 DEF RecordOK
    <2> QED
        BY <2>3, <2>4
<1>16. KeptOK'
    <2>1. PICK m : m = modelState'
        OBVIOUS
    <2>2. ASSUME NEW d \in done', d.kept PROVE d.run \in LedTo(m)' \/ InsideStep(d.run)'
        <3>1. CASE d = D
            BY <1>2, <1>4, <1>5, <1>6, <1>7, <2>1, <2>2, <3>1, LedToSelf
        <3>2. CASE d \in done /\ kept
            <4>1. frames[K].kind = "model"
                BY <1>2, <3>2
            <4>2. K \in DOMAIN frames
                BY <1>2
            <4>3. d.run \in LedTo(begun[frames[K].run].saw) \/ InsideStep(d.run)
                BY <2>2, <3>2, <4>1, <4>2 DEF EnginesInv, KeptOK
            <4>4. m = f.run /\ LedTo(begun[f.run].saw) \subseteq LedTo(f.run)
                BY <1>2, <1>5, <1>7, <2>1, <3>2, LedToSelf
            <4> QED
                BY <1>2, <1>6, <4>3, <4>4
        <3>3. CASE d \in done /\ ~ kept
            <4>1. m = modelState
                BY <1>5, <2>1, <3>3
            <4>2. d.run \in LedTo(modelState) \/ InsideStep(d.run)
                BY <2>2, <3>3 DEF EnginesInv, KeptOK
            <4> QED
                BY <1>6, <4>1, <4>2
        <3> QED
            BY <1>5, <3>1, <3>2, <3>3
    <2>3. ASSUME NEW k \in 1 .. K - 1, frames'[k].kind = "model", NEW saw, saw = begun[frames'[k].run].saw,
                 NEW d \in done', d.kept
          PROVE  d.run \in LedTo(saw)' \/ InsideStep(d.run)'
        <3>1. CASE d = D
            <4>1. frames[k].run \in begun[f.run].within
                BY <1>2
            <4>2. begun[frames[k].run].kind = "model"
                BY <1>6, <2>3 DEF EnginesInv, StackOK
            <4> QED
                BY <1>4, <1>6, <3>1, <4>1, <4>2 DEF InsideStep
        <3>2. CASE d \in done
            <4>1. d.run \in LedTo(saw) \/ InsideStep(d.run)
                BY <1>6, <2>3, <3>2 DEF EnginesInv, KeptOK
            <4> QED
                BY <1>6, <4>1
        <3> QED
            BY <1>5, <3>1, <3>2
    <2> QED
        BY <1>6, <2>1, <2>2, <2>3 DEF KeptOK
<1> QED
    BY <1>6, <1>11, <1>12, <1>13, <1>14, <1>15, <1>16 DEF EnginesInv

LEMMA EngineWalkStays ==
    ASSUME UNCHANGED <<list, begun, executed>>
    PROVE  \A run, w, n : WalkedTo(run, w, n)' = WalkedTo(run, w, n)
    BY DEF WalkedTo

LEMMA EngineNextItem == ASSUME EnginesInv, Engines!NextItem PROVE EnginesInv'
<1>1. /\ frames # <<>> /\ ~ Engines!Top.inside /\ Engines!Top.link = 0
      /\ UNCHANGED <<nodes, links, processes, list, session, begun, executed>>
    BY DEF Engines!NextItem
<1>2. PICK f : f = Engines!Top
    OBVIOUS
<1>3. /\ f \in Engines!Frame /\ f.run \in DOMAIN begun /\ f.kind = begun[f.run].kind /\ FrameOK(f)
      /\ f.link = 0 /\ ~ f.inside
    BY <1>1, <1>2, EngineTopFacts
<1>4. f.kind \in Engines!Walks /\ f.at \in Nat /\ f.at \in 1 .. Len(list[f.kind]) + 1
      /\ WalkedTo(f.run, f.kind, f.at - 1) /\ Len(list[f.kind]) \in Nat
    <2>1. f.kind \in Engines!Walks
        BY <1>3 DEF FrameOK
    <2> QED
        BY <1>3, <2>1, EngineTypesFacts DEF FrameOK, EnginesInv, Engines!Frame
<1>5. CASE Engines!Exhausted(f)
    <2>1. f.at - 1 = Len(list[f.kind])
        BY <1>4, <1>5 DEF Engines!Exhausted
    <2>2. Engines!End(Len(list[f.kind]), FALSE)
        BY <1>2, <1>5 DEF Engines!NextItem
    <2> QED
        BY <1>1, <1>2, <1>4, <2>1, <2>2, EngineEnds
<1>6. CASE ~ Engines!Exhausted(f)
    <2>1. f.at \in 1 .. Len(list[f.kind])
        BY <1>4, <1>6 DEF Engines!Exhausted
    <2>2. PICK g : g = IF f.kind = "flow" /\ list["flow"][f.at] \notin nodes
                       THEN [f EXCEPT !.at = @ + 1] ELSE [f EXCEPT !.inside = TRUE]
        OBVIOUS
    <2>3. Engines!Moved(g) /\ UNCHANGED <<done, records, modelState>>
        BY <1>2, <1>6, <2>2 DEF Engines!NextItem
    <2>4. g \in Engines!Frame /\ g.run = f.run /\ g.kind = f.kind /\ g.link = 0
        <3>1. (g = [f EXCEPT !.at = f.at + 1]) \/ (g = [f EXCEPT !.inside = TRUE])
            BY <2>2
        <3>2. f.at + 1 \in Nat /\ TRUE \in BOOLEAN
            BY <1>4
        <3>3. CASE g = [f EXCEPT !.at = f.at + 1]
            BY <1>3, <3>2, <3>3 DEF Engines!Frame
        <3>4. CASE g = [f EXCEPT !.inside = TRUE]
            BY <1>3, <3>2, <3>4 DEF Engines!Frame
        <3> QED
            BY <3>1, <3>3, <3>4
    <2>5. FrameOK(g)'
        <3>1. CASE f.kind = "flow" /\ list["flow"][f.at] \notin nodes
            <4>1. g.at = f.at + 1 /\ g.inside = f.inside
                BY <1>3, <2>2, <3>1 DEF Engines!Frame
            <4>2. list["flow"][f.at] \notin begun[f.run].known
                BY <1>3, <3>1 DEF EnginesInv, RunsOK
            <4>3. WalkedTo(f.run, "flow", f.at)
                <5>1. \A i \in 1 .. f.at : i \in 1 .. f.at - 1 \/ i = f.at
                    BY <1>4
                <5>2. \A j \in DOMAIN executed[f.run] : executed[f.run][j] <= f.at
                    <6> SUFFICES ASSUME NEW j \in DOMAIN executed[f.run] PROVE executed[f.run][j] <= f.at
                        OBVIOUS
                    <6>1. executed[f.run][j] <= f.at - 1
                        BY <1>4 DEF WalkedTo
                    <6>2. executed[f.run] \in Seq(Nat)
                        BY <1>3, EngineTypesFacts DEF EnginesInv
                    <6>3. executed[f.run][j] \in Nat
                        BY <6>2
                    <6> QED
                        BY <1>4, <6>1, <6>3
                <5>3. f.at \in 0 .. Len(list["flow"])
                    BY <2>1, <3>1
                <5> QED
                    BY <1>4, <3>1, <4>2, <5>1, <5>2, <5>3 DEF WalkedTo
            <4>4. g.at - 1 = f.at /\ g.at \in 1 .. Len(list["flow"]) + 1
                BY <1>4, <2>1, <3>1, <4>1
            <4> QED
                BY <1>1, <1>3, <1>4, <2>4, <3>1, <4>1, <4>3, <4>4, EngineWalkStays DEF FrameOK
        <3>2. CASE ~ (f.kind = "flow" /\ list["flow"][f.at] \notin nodes)
            <4>1. g.at = f.at /\ g.inside
                BY <1>3, <2>2, <3>2 DEF Engines!Frame
            <4>2. g.at \in 1 .. Len(list[g.kind]) + 1 /\ g.at <= Len(list[g.kind])
                BY <1>4, <2>1, <2>4, <4>1
            <4> QED
                BY <1>1, <1>4, <2>4, <4>1, <4>2, EngineWalkStays DEF FrameOK
        <3> QED
            BY <3>1, <3>2
    <2>6. executed' \in Seq(Seq(Nat)) /\ executed' = executed
        BY <1>1, EngineTypesFacts DEF EnginesInv
    <2> QED
        BY <1>1, <1>2, <2>3, <2>4, <2>5, <2>6, EngineTopMoved
<1> QED
    BY <1>5, <1>6

LEMMA EngineNextLink == ASSUME EnginesInv, Engines!NextLink PROVE EnginesInv'
<1>1. PICK f : f = Engines!Top
    OBVIOUS
<1>2. /\ frames # <<>> /\ ~ f.inside /\ f.link > 0
      /\ UNCHANGED <<nodes, links, processes, list, session, records, modelState, begun, executed, done>>
      /\ \/ Engines!Moved([f EXCEPT !.at = @ + 1, !.link = 0])
         \/ Engines!Moved([f EXCEPT !.link = @ + 1])
         \/ Engines!Moved([f EXCEPT !.inside = TRUE])
    BY <1>1 DEF Engines!NextLink
<1>3. f \in Engines!Frame /\ f.run \in DOMAIN begun /\ FrameOK(f)
    BY <1>1, <1>2, EngineTopFacts
<1>4. f.kind = "flow" /\ "flow" \in Engines!Walks /\ f.at \in Nat /\ f.link \in Nat /\ f.run \in Nat
      /\ WalkedTo(f.run, f.kind, f.at) /\ Len(list[f.kind]) \in Nat /\ f.at \in 1 .. Len(list[f.kind])
    <2>1. "flow" \in Engines!Walks /\ f.at \in Nat /\ f.link \in Nat /\ f.run \in Nat
        BY <1>3 DEF Engines!Walks, Engines!Frame
    <2>2. f.kind = "flow"
        BY <1>2, <1>3 DEF FrameOK, Engines!Recorded, Engines!Walks
    <2>3. WalkedTo(f.run, f.kind, f.at) /\ f.at \in 1 .. Len(list[f.kind]) + 1
        BY <1>2, <1>3, <2>1, <2>2 DEF FrameOK
    <2>4. Len(list[f.kind]) \in Nat /\ f.at \in 0 .. Len(list[f.kind])
        BY <2>1, <2>2, <2>3, EngineTypesFacts DEF EnginesInv, WalkedTo
    <2> QED
        BY <2>1, <2>2, <2>3, <2>4
<1>5. executed' \in Seq(Seq(Nat)) /\ executed' = executed
    BY <1>2, EngineTypesFacts DEF EnginesInv
<1>6. ASSUME NEW g \in Engines!Frame, g.run = f.run, g.kind = f.kind, FrameOK(g), Engines!Moved(g) PROVE EnginesInv'
    <2>1. FrameOK(g)'
        BY <1>2, <1>6, EngineWalkStays, FrameStays
    <2> QED
        BY <1>1, <1>2, <1>5, <1>6, <2>1, EngineTopMoved
<1>7. CASE Engines!Moved([f EXCEPT !.at = @ + 1, !.link = 0])
    <2>1. PICK g : g = [f EXCEPT !.at = @ + 1, !.link = 0]
        OBVIOUS
    <2>0. PICK h : h = [f EXCEPT !.at = f.at + 1]
        OBVIOUS
    <2>9. f.at + 1 \in Nat /\ 0 \in Nat /\ g = [h EXCEPT !.link = 0]
        BY <1>4, <2>0, <2>1
    <2>8. h \in Engines!Frame /\ h.run = f.run /\ h.kind = f.kind /\ h.at = f.at + 1 /\ h.inside = f.inside
        BY <1>3, <2>0, <2>9 DEF Engines!Frame
    <2>2. g \in Engines!Frame /\ g.run = f.run /\ g.kind = f.kind /\ g.link = 0 /\ g.at = f.at + 1 /\ g.inside = f.inside
        BY <2>8, <2>9 DEF Engines!Frame
    <2>3. g.at - 1 = f.at /\ g.at \in 1 .. Len(list[f.kind]) + 1
        BY <1>4, <2>2
    <2>4. FrameOK(g)
        BY <1>2, <1>4, <2>2, <2>3 DEF FrameOK
    <2> QED
        BY <1>6, <1>7, <2>1, <2>2, <2>4
<1>8. CASE Engines!Moved([f EXCEPT !.link = @ + 1])
    <2>1. PICK g : g = [f EXCEPT !.link = @ + 1]
        OBVIOUS
    <2>2. g \in Engines!Frame /\ g.run = f.run /\ g.kind = f.kind /\ g.link > 0 /\ g.at = f.at /\ g.inside = f.inside
        BY <1>3, <1>4, <2>1 DEF Engines!Frame
    <2>3. g.at \in 1 .. Len(list[f.kind]) + 1
        BY <1>4, <2>2
    <2>4. FrameOK(g)
        BY <1>2, <1>4, <2>2, <2>3 DEF FrameOK
    <2> QED
        BY <1>6, <1>8, <2>1, <2>2, <2>4
<1>9. CASE Engines!Moved([f EXCEPT !.inside = TRUE])
    <2>1. PICK g : g = [f EXCEPT !.inside = TRUE]
        OBVIOUS
    <2>2. g \in Engines!Frame /\ g.run = f.run /\ g.kind = f.kind /\ g.link = f.link /\ g.at = f.at /\ g.inside
        BY <1>3, <1>4, <2>1 DEF Engines!Frame
    <2>3. g.at \in 1 .. Len(list[f.kind]) + 1 /\ g.at <= Len(list[f.kind])
        BY <1>4, <2>2
    <2>4. FrameOK(g)
        BY <1>2, <1>4, <2>2, <2>3 DEF FrameOK
    <2> QED
        BY <1>6, <1>9, <2>1, <2>2, <2>4
<1> QED
    BY <1>2, <1>7, <1>8, <1>9

LEMMA EngineReturns == ASSUME EnginesInv, Engines!Returns PROVE EnginesInv'
<1>1. PICK f : f = Engines!Top
    OBVIOUS
<1>2. frames # <<>> /\ f.inside /\ UNCHANGED <<nodes, links, processes, list, session, begun>>
    BY <1>1 DEF Engines!Returns
<1>3. f \in Engines!Frame /\ f.run \in DOMAIN begun /\ FrameOK(f)
    BY <1>1, <1>2, EngineTopFacts
<1>4. CASE f.kind \notin Engines!Walks
    <2>1. PICK kept \in BOOLEAN : (kept => f.kind = "model") /\ Engines!End(0, kept) /\ UNCHANGED executed
        BY <1>1, <1>4 DEF Engines!Returns
    <2>2. 0 \in Nat
        OBVIOUS
    <2> QED
        BY <1>1, <1>2, <1>4, <2>1, <2>2, EngineEnds
<1>5. CASE f.kind \in Engines!Walks
    <2>1. PICK g : g = IF f.kind = "flow" THEN [f EXCEPT !.inside = FALSE, !.link = @ + 1]
                       ELSE [f EXCEPT !.inside = FALSE, !.at = @ + 1]
        OBVIOUS
    <2>2. /\ Engines!Moved(g) /\ UNCHANGED <<done, records, modelState>>
          /\ f.link = 0 => executed' = [executed EXCEPT ![f.run] = Append(@, f.at)]
          /\ f.link # 0 => executed' = executed
        BY <1>1, <1>5, <2>1 DEF Engines!Returns
    <2>3. f.at \in Nat /\ f.link \in Nat /\ f.run \in Nat /\ f.kind \in Engines!Walks \cup Engines!Recorded
        BY <1>3 DEF Engines!Frame
    <2>4. /\ f.at \in 1 .. Len(list[f.kind]) /\ Len(list[f.kind]) \in Nat
          /\ f.link > 0 => f.kind = "flow" /\ WalkedTo(f.run, f.kind, f.at)
          /\ f.link = 0 => WalkedTo(f.run, f.kind, f.at - 1)
        <3>1. Len(list[f.kind]) \in Nat
            BY <1>5, EngineTypesFacts DEF EnginesInv
        <3> QED
            BY <1>2, <1>3, <1>5, <2>3, <3>1 DEF FrameOK
    <2>5. executed \in Seq(Seq(Nat)) /\ DOMAIN executed = DOMAIN begun /\ executed[f.run] \in Seq(Nat)
        BY <1>3, EngineTypesFacts DEF EnginesInv
    <2>6. PICK e : e = Append(executed[f.run], f.at)
        OBVIOUS
    <2>7. /\ e \in Seq(Nat) /\ DOMAIN e = 1 .. Len(executed[f.run]) + 1 /\ e[Len(executed[f.run]) + 1] = f.at
          /\ \A k \in 1 .. Len(executed[f.run]) : e[k] = executed[f.run][k]
          /\ DOMAIN executed[f.run] = 1 .. Len(executed[f.run]) /\ Len(executed[f.run]) \in Nat
        BY <2>3, <2>5, <2>6, AppendFacts
    <2>8. /\ executed' \in Seq(Seq(Nat)) /\ Len(executed') = Len(executed)
          /\ \A r \in DOMAIN begun : r # f.run => executed'[r] = executed[r]
          /\ f.link = 0 => executed'[f.run] = e
        <3>1. CASE f.link = 0
            <4>1. executed' = [executed EXCEPT ![f.run] = e]
                BY <2>2, <2>6, <3>1
            <4> QED
                BY <1>3, <2>5, <2>7, <4>1
        <3>2. CASE f.link # 0
            <4>1. PICK x : x = executed
                OBVIOUS
            <4>2. executed' = x
                BY <2>2, <3>2, <4>1
            <4> QED
                BY ONLY <2>5, <3>2, <4>1, <4>2
        <3> QED
            BY ONLY <3>1, <3>2
    <2>9. WalkedTo(f.run, f.kind, f.at)'
        <3>1. CASE f.link # 0
            BY <1>2, <2>2, <2>3, <2>4, <3>1, EngineWalkStays
        <3>2. CASE f.link = 0
            <4> DEFINE L == Len(executed[f.run])
            <4>0. L \in Nat /\ DOMAIN e = 1 .. L + 1 /\ e[L + 1] = f.at /\ DOMAIN executed[f.run] = 1 .. L
                  /\ \A k \in 1 .. L : e[k] = executed[f.run][k] /\ e[k] \in Nat
                BY SMTT(30), <2>5, <2>7
            <4>1. /\ \A j, k \in 1 .. L : j < k => executed[f.run][j] < executed[f.run][k]
                  /\ \A j \in 1 .. L : executed[f.run][j] <= f.at - 1
                  /\ \A i \in 1 .. f.at - 1 : \/ \E j \in 1 .. L : executed[f.run][j] = i
                                              \/ f.kind = "flow" /\ list["flow"][i] \notin begun[f.run].known
                BY <2>4, <3>2, <4>0 DEF WalkedTo
            <4> HIDE DEF L
            <4>2. \A j \in 1 .. L : e[j] < f.at
                BY <2>3, <4>0, <4>1
            <4>3. \A k \in 1 .. L + 1 : k = L + 1 \/ k \in 1 .. L
                BY <4>0
            <4>4. ASSUME NEW j \in 1 .. L + 1, NEW k \in 1 .. L + 1, j < k PROVE e[j] < e[k]
                <5>1. j \in 1 .. L
                    BY <4>0, <4>4
                <5>2. CASE k = L + 1
                    BY <4>0, <4>2, <5>1, <5>2
                <5>3. CASE k \in 1 .. L
                    BY <4>0, <4>1, <4>4, <5>1, <5>3
                <5> QED
                    BY <4>3, <5>2, <5>3
            <4>5. \A j \in 1 .. L + 1 : e[j] <= f.at
                BY <2>3, <4>0, <4>2, <4>3
            <4>6. f.at \in 0 .. Len(list[f.kind])
                BY <2>4
            <4>7. ASSUME NEW i \in 1 .. f.at
                  PROVE  \/ \E j \in 1 .. L + 1 : e[j] = i
                         \/ f.kind = "flow" /\ list["flow"][i] \notin begun[f.run].known
                <5>1. CASE i = f.at
                    <6>1. L + 1 \in 1 .. L + 1
                        BY <4>0
                    <6> QED
                        BY <4>0, <5>1, <6>1
                <5>2. CASE i \in 1 .. f.at - 1
                    <6>1. \A j \in 1 .. L : j \in 1 .. L + 1
                        BY <4>0
                    <6> QED
                        BY <4>0, <4>1, <5>2, <6>1
                <5>3. i = f.at \/ i \in 1 .. f.at - 1
                    BY <2>3
                <5> QED
                    BY <5>1, <5>2, <5>3
            <4>8. executed'[f.run] = e
                BY <2>8, <3>2
            <4> QED
                BY <1>2, <4>0, <4>4, <4>5, <4>6, <4>7, <4>8 DEF WalkedTo
        <3> QED
            BY <3>1, <3>2
    <2>10. /\ g \in Engines!Frame /\ g.run = f.run /\ g.kind = f.kind /\ ~ g.inside
           /\ f.kind = "flow" => g.at = f.at /\ g.link = f.link + 1
           /\ f.kind # "flow" => g.at = f.at + 1 /\ g.link = f.link
        <3>1. PICK h : h = [f EXCEPT !.inside = FALSE]
            OBVIOUS
        <3>2. FALSE \in BOOLEAN /\ f.at + 1 \in Nat /\ f.link + 1 \in Nat
            BY <2>3
        <3>3. h \in Engines!Frame /\ h.run = f.run /\ h.kind = f.kind /\ h.at = f.at /\ h.link = f.link /\ ~ h.inside
            BY <1>3, <3>1, <3>2 DEF Engines!Frame
        <3>4. CASE f.kind = "flow"
            <4>1. g = [h EXCEPT !.link = f.link + 1]
                BY <2>1, <3>1, <3>3, <3>4
            <4> QED
                BY <3>2, <3>3, <3>4, <4>1 DEF Engines!Frame
        <3>5. CASE f.kind # "flow"
            <4>1. g = [h EXCEPT !.at = f.at + 1]
                BY <2>1, <3>1, <3>3, <3>5
            <4> QED
                BY <3>2, <3>3, <3>5, <4>1 DEF Engines!Frame
        <3> QED
            BY <3>4, <3>5
    <2>11. FrameOK(g)'
        <3>1. CASE f.kind = "flow"
            <4>1. g.at = f.at /\ g.link > 0
                BY <2>3, <2>10, <3>1
            <4>2. g.at \in 1 .. Len(list[f.kind]) + 1
                BY <2>4, <4>1
            <4> QED
                BY <1>2, <1>5, <2>9, <2>10, <3>1, <4>1, <4>2 DEF FrameOK
        <3>2. CASE f.kind # "flow"
            <4>1. g.at = f.at + 1 /\ g.link = 0
                BY <2>3, <2>4, <2>10, <3>2
            <4>2. g.at \in 1 .. Len(list[f.kind]) + 1 /\ g.at - 1 = f.at
                BY <2>4, <4>1
            <4> QED
                BY <1>2, <1>5, <2>9, <2>10, <4>1, <4>2 DEF FrameOK
        <3> QED
            BY <3>1, <3>2
    <2> QED
        BY <1>1, <1>2, <2>2, <2>8, <2>10, <2>11, EngineTopMoved
<1> QED
    BY <1>4, <1>5

LEMMA EnginesNext == ASSUME EnginesInv, [Engines!Next]_Engines!vars PROVE EnginesInv'
<1>1. CASE UNCHANGED Engines!vars
    <2>1. UNCHANGED <<nodes, links, processes, list, session, records, modelState, frames, begun, executed, done>>
        BY <1>1 DEF Engines!vars
    <2>2. Engines!TypeOK'
        BY <2>1 DEF EnginesInv, EngineTypes, Engines!TypeOK
    <2>3. \A w \in Engines!Walks : Len(list'[w]) >= Len(list[w]) /\ \A i \in 1 .. Len(list[w]) : list'[w][i] = list[w][i]
        BY <2>1, EngineTypesFacts DEF EnginesInv
    <2> QED
        BY <2>1, <2>2, <2>3, EnginesComposed
<1>2. CASE Engines!Step
    BY <1>2, EngineNextItem, EngineNextLink, EngineReturns, EngineRaises DEF Engines!Step
<1>3. CASE Engines!Compose
    <2>1. \A k \in {"flow", "pipeline", "attached", "phase", "rules"} : k \in Engines!Walks
        BY DEF Engines!Walks
    <2>2. ASSUME NEW n \in Nodes, Engines!AddNode(n) PROVE EnginesInv'
        BY <2>2, EngineNodeAdded
    <2>3. ASSUME NEW n \in Nodes, Engines!AddProcess(n) PROVE EnginesInv'
        BY <2>3, EngineProcessAdded
    <2>4. ASSUME NEW n \in Nodes, Engines!AttachProcess(n) PROVE EnginesInv'
        BY <2>1, <2>4, EngineItemAdded DEF Engines!AttachProcess
    <2>5. ASSUME NEW n \in Nodes, NEW k \in {"flow", "pipeline", "attached", "phase", "rules"} \ {"attached"},
                 Engines!AddItem(k, n)
          PROVE  EnginesInv'
        BY <2>1, <2>5, EngineItemAdded
    <2>6. ASSUME NEW n \in Nodes, NEW m \in Nodes, Engines!AddLink(n, m) PROVE EnginesInv'
        BY <2>6, EngineLinkAdded
    <2> QED
        BY <1>3, <2>2, <2>3, <2>4, <2>5, <2>6 DEF Engines!Compose
<1>4. CASE Engines!CreateSession
    BY <1>4, EngineSessionCreated
<1>5. CASE Engines!InitializeModel
    BY <1>5, EngineModelInitialized
<1>6. \A kind \in Engines!Walks : Engines!Begin(kind, FALSE) => EnginesInv'
    <2> TAKE kind \in Engines!Walks
    <2> HAVE Engines!Begin(kind, FALSE)
    <2> QED
        BY EngineBegins
<1>7. \A kind \in {"model", "function"} : Engines!Begin(kind, TRUE) => EnginesInv'
    <2> TAKE kind \in {"model", "function"}
    <2> HAVE Engines!Begin(kind, TRUE)
    <2>1. kind \in Engines!Recorded /\ kind \notin Engines!Walks
        BY DEF Engines!Recorded, Engines!Walks
    <2> QED
        BY <2>1, EngineBegins
<1>8. CASE Engines!RunFlow \/ Engines!RunPipeline \/ Engines!Execute \/ Engines!RunPhase \/ Engines!RunWorldTick
    <2>1. {"flow", "pipeline", "attached", "phase", "rules"} = Engines!Walks
        BY DEF Engines!Walks
    <2>2. \E kind \in Engines!Walks : Engines!Begin(kind, FALSE)
        BY <1>8, <2>1 DEF Engines!RunFlow, Engines!RunPipeline, Engines!Execute, Engines!RunPhase, Engines!RunWorldTick
    <2> QED
        BY <1>6, <2>2
<1>9. CASE Engines!RunModelStep \/ Engines!RunFunction
    BY <1>7, <1>9 DEF Engines!RunModelStep, Engines!RunFunction
<1> QED
    BY <1>1, <1>2, <1>3, <1>4, <1>5, <1>8, <1>9 DEF Engines!Next

LEMMA EnginesInvariance == Engines!Spec => []EnginesInv
<1>1. EnginesInv /\ [Engines!Next]_Engines!vars => EnginesInv'
    BY EnginesNext
<1> QED
    BY <1>1, EnginesInit, PTL DEF Engines!Spec

\* What the invariant says of the engines to their users.
LEMMA EnginesFacts ==
    ASSUME EnginesInv
    PROVE  Engines!TypeOK /\ Engines!RunsComplete /\ Engines!SessionsTell /\ Engines!StepsKept
<1>1. Engines!TypeOK
    BY DEF EnginesInv, EngineTypes
<1>2. Engines!RunsComplete
    <2> SUFFICES ASSUME NEW d \in done, begun[d.run].kind \in Engines!Walks
                 PROVE  /\ Engines!Increasing(executed[d.run])
                        /\ \A i \in 1 .. d.length :
                              \/ Engines!Contains(executed[d.run], i)
                              \/ begun[d.run].kind = "flow" /\ list["flow"][i] \notin begun[d.run].known
        BY DEF Engines!RunsComplete
    <2>1. WalkedTo(d.run, begun[d.run].kind, d.length)
        BY DEF EnginesInv, DoneOK
    <2>2. Engines!Increasing(executed[d.run])
        BY <2>1 DEF WalkedTo, Engines!Increasing
    <2>3. ASSUME NEW i \in 1 .. d.length
          PROVE  \/ Engines!Contains(executed[d.run], i)
                 \/ begun[d.run].kind = "flow" /\ list["flow"][i] \notin begun[d.run].known
        <3>1. DOMAIN executed[d.run] = 1 .. Len(executed[d.run])
            <4>1. executed[d.run] \in Seq(Nat)
                BY EngineTypesFacts DEF EnginesInv
            <4> QED
                BY <4>1
        <3> QED
            BY <2>1, <3>1 DEF WalkedTo, Engines!Contains
    <2> QED
        BY <2>2, <2>3
<1>3. Engines!SessionsTell
    <2> SUFFICES ASSUME NEW s \in DOMAIN records
                 PROVE  /\ Engines!Range(records[s])
                             = {r \in {d.run : d \in done} : begun[r].kind \in Engines!Recorded /\ begun[r].session = s}
                        /\ \A j, k \in DOMAIN records[s] : j < k =>
                              records[s][j] # records[s][k] /\ records[s][j] \notin begun[records[s][k]].within
        BY DEF Engines!SessionsTell
    <2>1. RecordOK(records[s], s)
        BY DEF EnginesInv, RecordsOK
    <2> QED
        BY <2>1 DEF RecordOK, Engines!Range
<1>4. Engines!StepsKept
    BY DEF EnginesInv, KeptOK, LedTo, InsideStep, Engines!StepsKept, Engines!Lineage
<1> QED
    BY <1>1, <1>2, <1>3, <1>4

\* The runs of the engines, however they are nested and whichever of them raise: a run that
\* returned executed its list (RunsComplete), a session tells the runs that returned in it
\* (SessionsTell), and the state of a model is not lost but inside another of its steps.
THEOREM EnginesKept ==
    Engines!Spec => [](Engines!TypeOK /\ Engines!RunsComplete /\ Engines!SessionsTell /\ Engines!StepsKept)
<1>1. EnginesInv => Engines!TypeOK /\ Engines!RunsComplete /\ Engines!SessionsTell /\ Engines!StepsKept
    BY EnginesFacts
<1> QED
    BY <1>1, EnginesInvariance, PTL

-----------------------------------------------------------------------------
(* KernelDispatch *)

\* Where an item is: it waits in a queue, its call is under way, or that is over.
Waits(kind, id) ==
    \/ kind = "task" /\ \E k \in DOMAIN ready : ready[k] = id
    \/ kind = "message" /\ \E c \in DOMAIN queues : \E k \in DOMAIN queues[c] : queues[c][k] = id
    \/ kind = "event" /\ \E k \in DOMAIN events : events[k] = id
UnderWay(kind, id) == \E k \in DOMAIN stack : stack[k].kind = kind /\ stack[k].id = id
IsOver(kind, id) == \E e \in ended : e.kind = kind /\ e.id = id
IsBorn(kind, id) == id \in 1 .. Dispatch!Born(kind)

Taking == [kind : {"task", "message", "event"}, id : Nat, source : Nat]

DispatchTypes ==
    /\ Dispatch!TypeOK /\ IsFiniteSet(policies) /\ signals \in Nat /\ published \in Nat /\ taken \in Seq(Taking)

ItemsOK ==
    \A kind \in Dispatch!Kinds : \A id \in Nat :
        /\ IsBorn(kind, id) <=> Waits(kind, id) \/ UnderWay(kind, id) \/ IsOver(kind, id)
        /\ ~ (Waits(kind, id) /\ UnderWay(kind, id)) /\ ~ (Waits(kind, id) /\ IsOver(kind, id))
        /\ ~ (UnderWay(kind, id) /\ IsOver(kind, id))

\* An item is once in the queues; those of messages and events are in the order of sending.
Rises(q) == \A j, k \in DOMAIN q : j < k => q[j] < q[k]
ReadyOnce == \A j, k \in DOMAIN ready : ready[j] = ready[k] => j = k
QueuesRise == \A c \in DOMAIN queues : Rises(queues[c])
QueuesApart ==
    \A c, d \in DOMAIN queues : \A j \in DOMAIN queues[c], k \in DOMAIN queues[d] : queues[c][j] = queues[d][k] => c = d
QueuesOK == ReadyOnce /\ QueuesRise /\ QueuesApart /\ Rises(events)

StackOnce ==
    \A j, k \in DOMAIN stack :
        stack[j].kind # "policies" /\ stack[j].kind = stack[k].kind /\ stack[j].id = stack[k].id => j = k
EndedOnce == \A e, g \in ended : e.kind = g.kind /\ e.id = g.id => e = g

Returned(id) == \E e \in ended : e.kind = "task" /\ e.id = id /\ e.how = "returned"
TasksTell == \A id \in DOMAIN tasks : tasks[id].completed <=> Returned(id)

NotRaised(id) == \E e \in ended : e.kind = "signal" /\ e.id = id /\ e.how # "raised"
TrapsTell ==
    /\ \A j, k \in DOMAIN trapLog : trapLog[j] = trapLog[k] => j = k
    /\ \A id \in Nat : (\E k \in DOMAIN trapLog : trapLog[k] = id) <=> NotRaised(id)

\* What was taken from a queue was sent before all that is there now.
MessagesAfter(t) ==
    /\ t.source \in DOMAIN queues /\ t.id \in 1 .. Len(messages)
    /\ \A k \in DOMAIN queues[t.source] : t.id < queues[t.source][k]
EventsAfter(t) == t.id \in 1 .. Len(emitted) /\ \A k \in DOMAIN events : t.id < events[k]
TakenOK ==
    /\ \A k \in DOMAIN taken : /\ taken[k].kind = "message" => MessagesAfter(taken[k])
                               /\ taken[k].kind = "event" => EventsAfter(taken[k])
    /\ \A j, k \in DOMAIN taken :
          j < k /\ taken[j].kind = taken[k].kind /\ taken[j].kind # "task" /\ taken[j].source = taken[k].source
              => taken[j].id < taken[k].id

ReadySorted == \A j, k \in DOMAIN ready : j < k => tasks[ready[j]].sorted >= tasks[ready[k]].sorted

DispatchInv ==
    /\ DispatchTypes /\ ItemsOK /\ QueuesOK /\ StackOnce /\ EndedOnce
    /\ TasksTell /\ TrapsTell /\ TakenOK /\ ReadySorted

-----------------------------------------------------------------------------

LEMMA DispatchTypesFacts ==
    ASSUME DispatchTypes
    PROVE  /\ tasks \in Seq(Dispatch!SchedTask) /\ DOMAIN tasks = 1 .. Len(tasks) /\ Len(tasks) \in Nat
           /\ ready \in Seq(DOMAIN tasks) /\ DOMAIN ready = 1 .. Len(ready) /\ Len(ready) \in Nat
           /\ messages \in Seq(Labels) /\ DOMAIN messages = 1 .. Len(messages) /\ Len(messages) \in Nat
           /\ queues \in Seq(Seq(DOMAIN messages)) /\ DOMAIN queues = 1 .. Len(queues) /\ Len(queues) \in Nat
           /\ \A c \in DOMAIN queues : queues[c] \in Seq(DOMAIN messages)
           /\ channel \in [Labels -> 0 .. Len(queues)] /\ busChannel \in [Labels -> 0 .. Len(subscribers)]
           /\ handlers \in [{"message", "signal", "event"} -> SUBSET Labels]
           /\ trapLog \in Seq(1 .. signals) /\ DOMAIN trapLog = 1 .. Len(trapLog) /\ Len(trapLog) \in Nat
           /\ subscribers \in Seq(Nat) /\ Len(subscribers) \in Nat /\ DOMAIN subscribers = 1 .. Len(subscribers)
           /\ emitted \in Seq(Labels) /\ DOMAIN emitted = 1 .. Len(emitted) /\ Len(emitted) \in Nat
           /\ events \in Seq(DOMAIN emitted) /\ DOMAIN events = 1 .. Len(events) /\ Len(events) \in Nat
           /\ stack \in Seq(Dispatch!Frame) /\ DOMAIN stack = 1 .. Len(stack) /\ Len(stack) \in Nat
           /\ taken \in Seq(Taking) /\ DOMAIN taken = 1 .. Len(taken) /\ Len(taken) \in Nat
           /\ policies \subseteq Policies /\ IsFiniteSet(policies) /\ signals \in Nat /\ published \in Nat
<1>1. /\ tasks \in Seq(Dispatch!SchedTask) /\ ready \in Seq(DOMAIN tasks) /\ policies \subseteq Policies
      /\ messages \in Seq(Labels) /\ queues \in Seq(Seq(DOMAIN messages))
      /\ channel \in [Labels -> 0 .. Len(queues)] /\ busChannel \in [Labels -> 0 .. Len(subscribers)]
      /\ handlers \in [{"message", "signal", "event"} -> SUBSET Labels]
      /\ trapLog \in Seq(1 .. signals) /\ subscribers \in Seq(Nat)
      /\ emitted \in Seq(Labels) /\ events \in Seq(DOMAIN emitted)
      /\ stack \in Seq(Dispatch!Frame)
    BY DEF DispatchTypes, Dispatch!TypeOK
<1>2. taken \in Seq(Taking) /\ IsFiniteSet(policies) /\ signals \in Nat /\ published \in Nat
    BY DEF DispatchTypes
<1>3. \A S : \A s \in Seq(S) : DOMAIN s = 1 .. Len(s) /\ Len(s) \in Nat /\ \A k \in DOMAIN s : s[k] \in S
    OBVIOUS
<1>4. \A c \in DOMAIN queues : queues[c] \in Seq(DOMAIN messages)
    BY <1>1, <1>3
<1> QED
    BY <1>1, <1>2, <1>3, <1>4

LEMMA DispatchInit == Dispatch!Init => DispatchInv
<1> SUFFICES ASSUME Dispatch!Init PROVE DispatchInv
    OBVIOUS
<1>1. /\ tasks = <<>> /\ ready = <<>> /\ policies = {} /\ messages = <<>> /\ queues = <<>>
      /\ channel = [n \in Labels |-> 0] /\ trapLog = <<>> /\ signals = 0
      /\ subscribers = <<>> /\ busChannel = [n \in Labels |-> 0] /\ published = 0 /\ events = <<>> /\ emitted = <<>>
      /\ handlers = [message |-> {}, signal |-> {}, event |-> {}]
      /\ stack = <<>> /\ taken = <<>> /\ ended = {}
    BY DEF Dispatch!Init, Dispatch!SchedulerInit, Dispatch!IPCInit, Dispatch!SignalInit, Dispatch!BusInit,
           Dispatch!RuntimeInit
<1>2. handlers \in [{"message", "signal", "event"} -> SUBSET Labels]
    BY <1>1
<1>3. /\ tasks \in Seq(Dispatch!SchedTask) /\ ready \in Seq(DOMAIN tasks) /\ policies \subseteq Policies
      /\ messages \in Seq(Labels) /\ queues \in Seq(Seq(DOMAIN messages))
      /\ channel \in [Labels -> 0 .. Len(queues)] /\ busChannel \in [Labels -> 0 .. Len(subscribers)]
      /\ trapLog \in Seq(1 .. signals) /\ subscribers \in Seq(Nat)
      /\ emitted \in Seq(Labels) /\ events \in Seq(DOMAIN emitted)
      /\ stack \in Seq(Dispatch!Frame) /\ taken \in Seq(Taking)
    BY <1>1
<1>4. DispatchTypes
    BY <1>1, <1>2, <1>3, FS_EmptySet DEF DispatchTypes, Dispatch!TypeOK
<1>5. ItemsOK
    <2>1. \A kind \in Dispatch!Kinds : Dispatch!Born(kind) = 0
        BY <1>1 DEF Dispatch!Born, Dispatch!Kinds
    <2>2. \A kind, id : ~ Waits(kind, id) /\ ~ UnderWay(kind, id) /\ ~ IsOver(kind, id)
        BY <1>1 DEF Waits, UnderWay, IsOver
    <2>3. \A kind \in Dispatch!Kinds : \A id \in Nat : ~ IsBorn(kind, id)
        BY <2>1 DEF IsBorn
    <2> QED
        BY <2>2, <2>3 DEF ItemsOK
<1>6. QueuesOK /\ StackOnce /\ EndedOnce /\ TasksTell /\ TakenOK /\ ReadySorted
    BY <1>1 DEF QueuesOK, ReadyOnce, QueuesRise, QueuesApart, Rises, StackOnce, EndedOnce, TasksTell, TakenOK, ReadySorted
<1>7. TrapsTell
    BY <1>1 DEF TrapsTell, NotRaised
<1> QED
    BY <1>4, <1>5, <1>6, <1>7 DEF DispatchInv

-----------------------------------------------------------------------------
(* What happens to the stack, to the outcomes and to a queue. *)

\* A call begins.
LEMMA CallBegins ==
    ASSUME DispatchInv, NEW f \in Dispatch!Frame, stack' = Append(stack, f),
           f.kind = "policies" \/ ~ UnderWay(f.kind, f.id)
    PROVE  /\ stack' \in Seq(Dispatch!Frame) /\ StackOnce'
           /\ \A kind, id : UnderWay(kind, id)' <=> UnderWay(kind, id) \/ (kind = f.kind /\ id = f.id)
<1> DEFINE N == Len(stack)
<1>1. N \in Nat /\ DOMAIN stack = 1 .. N /\ stack \in Seq(Dispatch!Frame)
    BY DispatchTypesFacts DEF DispatchInv
<1>2. /\ stack' \in Seq(Dispatch!Frame) /\ DOMAIN stack' = 1 .. N + 1 /\ stack'[N + 1] = f
      /\ \A k \in 1 .. N : stack'[k] = stack[k]
    BY <1>1, AppendFacts
<1>3. (\A k \in 1 .. N + 1 : k = N + 1 \/ k \in 1 .. N) /\ N + 1 \in 1 .. N + 1 /\ \A k \in 1 .. N : k \in 1 .. N + 1
    BY <1>1
<1> HIDE DEF N
<1>4. StackOnce'
    <2> SUFFICES ASSUME NEW j \in 1 .. N + 1, NEW k \in 1 .. N + 1, stack'[j].kind # "policies",
                        stack'[j].kind = stack'[k].kind, stack'[j].id = stack'[k].id
                 PROVE  j = k
        BY <1>2 DEF StackOnce
    <2>1. CASE j \in 1 .. N /\ k \in 1 .. N
        BY <1>1, <1>2, <2>1 DEF DispatchInv, StackOnce
    <2>2. CASE j = N + 1 /\ k \in 1 .. N
        BY <1>1, <1>2, <2>2 DEF UnderWay
    <2>3. CASE j \in 1 .. N /\ k = N + 1
        BY <1>1, <1>2, <2>3 DEF UnderWay
    <2> QED
        BY <1>3, <2>1, <2>2, <2>3
<1>5. ASSUME NEW kind, NEW id
      PROVE  UnderWay(kind, id)' <=> UnderWay(kind, id) \/ (kind = f.kind /\ id = f.id)
    BY <1>1, <1>2, <1>3 DEF UnderWay
<1> QED
    BY <1>2, <1>4, <1>5

\* The call at the top ends.
LEMMA CallEnds ==
    ASSUME DispatchInv, stack # <<>>, stack' = Dispatch!Front(stack), NEW f, f = Dispatch!Last(stack)
    PROVE  /\ f \in Dispatch!Frame /\ UnderWay(f.kind, f.id)
           /\ stack' \in Seq(Dispatch!Frame) /\ StackOnce'
           /\ \A kind \in Dispatch!Kinds : \A id :
                 UnderWay(kind, id)' <=> UnderWay(kind, id) /\ ~ (kind = f.kind /\ id = f.id)
<1> DEFINE N == Len(stack)
<1>1. N \in Nat /\ DOMAIN stack = 1 .. N /\ stack \in Seq(Dispatch!Frame)
    BY DispatchTypesFacts DEF DispatchInv
<1>2. /\ N \in Nat \ {0} /\ stack[N] \in Dispatch!Frame
      /\ stack' \in Seq(Dispatch!Frame) /\ DOMAIN stack' = 1 .. N - 1 /\ \A k \in 1 .. N - 1 : stack'[k] = stack[k]
    BY <1>1, FrontFacts DEF Dispatch!Front
<1>3. f = stack[N]
    BY DEF Dispatch!Last
<1>4. N \in 1 .. N /\ \A k \in 1 .. N : (k = N \/ k \in 1 .. N - 1) /\ \A j \in 1 .. N - 1 : j \in 1 .. N /\ j # N
    BY <1>2
<1> HIDE DEF N
<1>5. StackOnce'
    BY <1>1, <1>2, <1>4 DEF DispatchInv, StackOnce
<1>6. ASSUME NEW kind \in Dispatch!Kinds, NEW id
      PROVE  UnderWay(kind, id)' <=> UnderWay(kind, id) /\ ~ (kind = f.kind /\ id = f.id)
    <2>1. kind # "policies"
        BY DEF Dispatch!Kinds
    <2>2. ASSUME UnderWay(kind, id)' PROVE UnderWay(kind, id) /\ ~ (kind = f.kind /\ id = f.id)
        <3>1. PICK k \in 1 .. N - 1 : stack[k].kind = kind /\ stack[k].id = id
            BY <1>2, <2>2 DEF UnderWay
        <3>2. k \in 1 .. N /\ k # N
            BY <1>4
        <3>3. ~ (kind = f.kind /\ id = f.id)
            BY <1>1, <1>3, <1>4, <2>1, <3>1, <3>2 DEF DispatchInv, StackOnce
        <3> QED
            BY <1>1, <3>1, <3>2, <3>3 DEF UnderWay
    <2>3. ASSUME UnderWay(kind, id), ~ (kind = f.kind /\ id = f.id) PROVE UnderWay(kind, id)'
        <3>1. PICK k \in 1 .. N : stack[k].kind = kind /\ stack[k].id = id
            BY <1>1, <2>3 DEF UnderWay
        <3>2. k \in 1 .. N - 1
            BY <1>3, <1>4, <2>3, <3>1
        <3> QED
            BY <1>2, <3>1, <3>2 DEF UnderWay
    <2> QED
        BY <2>2, <2>3
<1>7. UnderWay(f.kind, f.id)
    BY <1>1, <1>3, <1>4 DEF UnderWay
<1> QED
    BY <1>2, <1>3, <1>5, <1>6, <1>7

\* The call at the top goes on.
LEMMA CallGoesOn ==
    ASSUME DispatchInv, stack # <<>>, stack' = [stack EXCEPT ![Len(stack)].at = @ + 1]
    PROVE  /\ stack' \in Seq(Dispatch!Frame) /\ StackOnce'
           /\ \A kind, id : UnderWay(kind, id)' <=> UnderWay(kind, id)
<1> DEFINE N == Len(stack)
<1>1. N \in Nat /\ DOMAIN stack = 1 .. N /\ stack \in Seq(Dispatch!Frame)
    BY DispatchTypesFacts DEF DispatchInv
<1>2. N \in Nat \ {0} /\ N \in 1 .. N
    BY <1>1
<1>3. PICK f : f = stack[N]
    OBVIOUS
<1>4. f \in Dispatch!Frame
    BY <1>1, <1>2, <1>3
<1>5. PICK g : g = [f EXCEPT !.at = @ + 1]
    OBVIOUS
<1>6. g \in Dispatch!Frame /\ g.kind = f.kind /\ g.id = f.id
    BY <1>4, <1>5 DEF Dispatch!Frame
<1>7. stack' = [stack EXCEPT ![N] = g]
    BY <1>1, <1>2, <1>3, <1>5
<1> HIDE DEF N
<1>8. stack' \in Seq(Dispatch!Frame) /\ DOMAIN stack' = 1 .. N
      /\ \A k \in 1 .. N : stack'[k].kind = stack[k].kind /\ stack'[k].id = stack[k].id
    BY <1>1, <1>2, <1>3, <1>6, <1>7
<1>9. StackOnce'
    BY <1>1, <1>8 DEF DispatchInv, StackOnce
<1>10. \A kind, id : UnderWay(kind, id)' <=> UnderWay(kind, id)
    BY <1>1, <1>8 DEF UnderWay
<1> QED
    BY <1>8, <1>9, <1>10

LEMMA OutcomeAdded ==
    ASSUME EndedOnce, NEW kd, NEW i, NEW h, ended' = ended \cup {[kind |-> kd, id |-> i, how |-> h]}, ~ IsOver(kd, i)
    PROVE  /\ EndedOnce'
           /\ \A kind, id : IsOver(kind, id)' <=> IsOver(kind, id) \/ (kind = kd /\ id = i)
           /\ \A id : Returned(id)' <=> Returned(id) \/ (kd = "task" /\ id = i /\ h = "returned")
           /\ \A id : NotRaised(id)' <=> NotRaised(id) \/ (kd = "signal" /\ id = i /\ h # "raised")
<1>1. PICK D : D = [kind |-> kd, id |-> i, how |-> h]
    OBVIOUS
<1>2. ended' = ended \cup {D} /\ D.kind = kd /\ D.id = i /\ D.how = h
    BY <1>1
<1>3. EndedOnce'
    BY <1>2 DEF EndedOnce, IsOver
<1>4. \A kind, id : IsOver(kind, id)' <=> IsOver(kind, id) \/ (kind = kd /\ id = i)
    BY <1>2 DEF IsOver
<1>5. \A id : Returned(id)' <=> Returned(id) \/ (kd = "task" /\ id = i /\ h = "returned")
    BY <1>2 DEF Returned
<1>6. \A id : NotRaised(id)' <=> NotRaised(id) \/ (kd = "signal" /\ id = i /\ h # "raised")
    BY <1>2 DEF NotRaised
<1> QED
    BY <1>3, <1>4, <1>5, <1>6

LEMMA TailFacts ==
    ASSUME NEW S, NEW s \in Seq(S), s # <<>>
    PROVE  /\ Tail(s) \in Seq(S) /\ Head(s) \in S /\ Head(s) = s[1] /\ Len(s) \in Nat \ {0} /\ DOMAIN s = 1 .. Len(s)
           /\ DOMAIN Tail(s) = 1 .. Len(s) - 1 /\ \A k \in 1 .. Len(s) - 1 : Tail(s)[k] = s[k + 1]
    OBVIOUS

\* What is in a queue when its first item has been taken.
LEMMA HeadTaken ==
    ASSUME NEW S, NEW s \in Seq(S), s # <<>>, \A j, k \in DOMAIN s : s[j] = s[k] => j = k
    PROVE  /\ Tail(s) \in Seq(S) /\ Head(s) \in S /\ \E k \in DOMAIN s : s[k] = Head(s)
           /\ \A x : (\E k \in DOMAIN Tail(s) : Tail(s)[k] = x) <=> (\E k \in DOMAIN s : s[k] = x) /\ x # Head(s)
           /\ \A j \in DOMAIN Tail(s) : j + 1 \in DOMAIN s /\ Tail(s)[j] = s[j + 1] /\ j + 1 \in Nat /\ j \in Nat
           /\ 1 \in DOMAIN s /\ s[1] = Head(s) /\ \A j \in DOMAIN Tail(s) : 1 < j + 1
<1> DEFINE t == Tail(s)
           h == Head(s)
<1> DEFINE N == Len(s)
<1>1. /\ t \in Seq(S) /\ h \in S /\ h = s[1] /\ N \in Nat \ {0} /\ DOMAIN s = 1 .. N
      /\ DOMAIN t = 1 .. N - 1 /\ \A k \in 1 .. N - 1 : t[k] = s[k + 1]
    BY TailFacts
<1> HIDE DEF t, h
<1>2. 1 \in 1 .. N /\ \A j \in 1 .. N - 1 : j + 1 \in 1 .. N /\ j + 1 \in Nat /\ j \in Nat /\ 1 < j + 1 /\ j + 1 # 1
    BY <1>1
<1>3. ASSUME NEW k \in 1 .. N, k # 1 PROVE k - 1 \in 1 .. N - 1 /\ t[k - 1] = s[k]
    <2>1. k - 1 \in 1 .. N - 1 /\ (k - 1) + 1 = k
        BY <1>1, <1>3
    <2> QED
        BY <1>1, <2>1
<1> HIDE DEF N
<1>4. ASSUME NEW x PROVE (\E k \in DOMAIN t : t[k] = x) <=> (\E k \in DOMAIN s : s[k] = x) /\ x # h
    <2>1. ASSUME NEW k \in 1 .. N - 1, t[k] = x PROVE (\E j \in DOMAIN s : s[j] = x) /\ x # h
        <3>1. k + 1 \in DOMAIN s /\ s[k + 1] = x /\ k + 1 # 1
            BY <1>1, <1>2, <2>1
        <3>2. 1 \in DOMAIN s
            BY <1>1, <1>2
        <3> QED
            BY <1>1, <3>1, <3>2
    <2>2. ASSUME NEW k \in 1 .. N, s[k] = x, x # h PROVE \E j \in DOMAIN t : t[j] = x
        <3>1. k # 1
            BY <1>1, <2>2
        <3> QED
            BY <1>1, <1>3, <2>2, <3>1
    <2> QED
        BY <1>1, <2>1, <2>2
<1> QED
    BY <1>1, <1>2, <1>4 DEF t, h

LEMMA RisesOnce ==
    ASSUME NEW S \in SUBSET Nat, NEW q \in Seq(S), Rises(q) PROVE \A j, k \in DOMAIN q : q[j] = q[k] => j = k
<1> SUFFICES ASSUME NEW j \in DOMAIN q, NEW k \in DOMAIN q, q[j] = q[k] PROVE j = k
    OBVIOUS
<1>1. j \in Nat /\ k \in Nat /\ q[j] \in Nat /\ q[k] \in Nat
    <2>1. DOMAIN q = 1 .. Len(q) /\ Len(q) \in Nat /\ q[j] \in S /\ q[k] \in S
        OBVIOUS
    <2>2. \A x \in S : x \in Nat
        OBVIOUS
    <2>3. \A n \in Nat : \A x \in 1 .. n : x \in Nat
        OBVIOUS
    <2> QED
        BY <2>1, <2>2, <2>3
<1>2. j < k \/ k < j \/ j = k
    BY <1>1
<1> QED
    BY <1>1, <1>2 DEF Rises

-----------------------------------------------------------------------------
(* The scheduler *)

\* Its queue in another order, or with some of its items gone.
LEMMA ReadyReordered ==
    ASSUME NEW S, NEW q \in Seq(S), NEW n \in Nat, NEW m \in [1 .. n -> DOMAIN q],
           NEW p \in [1 .. n -> S], \A k \in 1 .. n : p[k] = q[m[k]], \A j, k \in 1 .. n : j < k => m[j] # m[k],
           \A j, k \in DOMAIN q : q[j] = q[k] => j = k
    PROVE  /\ p \in Seq(S) /\ DOMAIN p = 1 .. n /\ \A j, k \in DOMAIN p : p[j] = p[k] => j = k
           /\ \A x : (\E k \in DOMAIN p : p[k] = x) => \E k \in DOMAIN q : q[k] = x
<1>1. \A k \in DOMAIN q : q[k] \in S
    OBVIOUS
<1>2. \A k \in 1 .. n : p[k] \in S /\ p[k] = q[m[k]] /\ m[k] \in DOMAIN q
    BY <1>1
<1>3. p \in Seq(S) /\ DOMAIN p = 1 .. n
    BY <1>2
<1>4. ASSUME NEW j \in 1 .. n, NEW k \in 1 .. n, p[j] = p[k] PROVE j = k
    <2>1. m[j] = m[k]
        BY <1>2, <1>4
    <2>2. j < k \/ k < j \/ j = k
        OBVIOUS
    <2> QED
        BY <2>1, <2>2
<1> QED
    BY <1>2, <1>3, <1>4

\* What the scheduler leaves alone.
LEMMA SchedulerOnly ==
    ASSUME DispatchInv,
           UNCHANGED <<messages, queues, channel, trapLog, signals, subscribers, busChannel, published,
                       events, emitted, handlers>>
    PROVE  /\ \A kind, id : kind # "task" => (Waits(kind, id)' <=> Waits(kind, id))
           /\ \A kind \in Dispatch!Kinds : \A id : kind # "task" => (IsBorn(kind, id)' <=> IsBorn(kind, id))
           /\ QueuesRise' /\ QueuesApart' /\ Rises(events)'
           /\ \A t : (MessagesAfter(t) <=> MessagesAfter(t)') /\ (EventsAfter(t) <=> EventsAfter(t)')
           /\ (\A id : NotRaised(id)' <=> NotRaised(id)) => TrapsTell'
<1>1. \A kind, id : kind # "task" => (Waits(kind, id)' <=> Waits(kind, id))
    BY DEF Waits
<1>2. \A kind \in Dispatch!Kinds : \A id : kind # "task" => (IsBorn(kind, id)' <=> IsBorn(kind, id))
    BY DEF IsBorn, Dispatch!Born, Dispatch!Kinds
<1>3. QueuesRise' /\ QueuesApart' /\ Rises(events)'
    BY DEF DispatchInv, QueuesOK, QueuesRise, QueuesApart, Rises
<1>4. \A t : (MessagesAfter(t) <=> MessagesAfter(t)') /\ (EventsAfter(t) <=> EventsAfter(t)')
    BY DEF MessagesAfter, EventsAfter
<1>5. (\A id : NotRaised(id)' <=> NotRaised(id)) => TrapsTell'
    BY DEF DispatchInv, TrapsTell
<1> QED
    BY <1>1, <1>2, <1>3, <1>4, <1>5

LEMMA TaskAdded == ASSUME DispatchInv, NEW p \in Priorities, Dispatch!AddTask(p) PROVE DispatchInv'
<1> DEFINE N == Len(tasks)
           T == [priority |-> p, sorted |-> p, completed |-> FALSE]
<1>1. PICK longer : longer = Append(tasks, T)
    OBVIOUS
<1>2. PICK prio : prio = [i \in DOMAIN longer |-> longer[i].priority]
    OBVIOUS
<1>3. PICK q : q = Append(ready, N + 1)
    OBVIOUS
<1>4. T \in Dispatch!SchedTask /\ T.priority = p /\ T.sorted = p /\ T.completed = FALSE /\ p \in Nat
    BY DispatchAssumption DEF Dispatch!ConstantsOK, Dispatch!SchedTask
<1> HIDE DEF T
<1>5. /\ tasks \in Seq(Dispatch!SchedTask) /\ DOMAIN tasks = 1 .. N /\ N \in Nat
      /\ ready \in Seq(DOMAIN tasks) /\ DOMAIN ready = 1 .. Len(ready) /\ Len(ready) \in Nat
    BY DispatchTypesFacts DEF DispatchInv
<1>6. /\ longer \in Seq(Dispatch!SchedTask) /\ Len(longer) = N + 1 /\ DOMAIN longer = 1 .. N + 1 /\ longer[N + 1] = T
      /\ \A i \in 1 .. N : longer[i] = tasks[i]
    BY <1>1, <1>4, <1>5, AppendFacts
<1>7. \A i \in 1 .. N + 1 : longer[i] \in Dispatch!SchedTask /\ prio[i] = longer[i].priority /\ prio[i] \in Nat
    <2> TAKE i \in 1 .. N + 1
    <2>1. longer[i] \in Dispatch!SchedTask
        BY <1>6
    <2>2. prio[i] = longer[i].priority
        BY <1>2, <1>6
    <2> QED
        BY <2>1, <2>2 DEF Dispatch!SchedTask
<1>8. 1 .. N \subseteq 1 .. N + 1 /\ N + 1 \in 1 .. N + 1 /\ N + 1 \notin 1 .. N
      /\ \A i \in 1 .. N + 1 : i \in 1 .. N \/ i = N + 1
    BY <1>5
<1>9. /\ ready' \in Dispatch!Sorted(q, prio)
      /\ tasks' = [i \in DOMAIN longer |->
                     IF i \in Dispatch!Range(ready') THEN [longer[i] EXCEPT !.sorted = prio[i]] ELSE longer[i]]
      /\ UNCHANGED <<policies, boosts, messages, queues, channel, trapLog, signals, subscribers, busChannel, published,
                     events, emitted, taken, ended, handlers, stack>>
    BY <1>1, <1>2, <1>3, <1>6 DEF T, Dispatch!AddTask, Dispatch!ipc, Dispatch!signaling, Dispatch!bus, Dispatch!runtime,
       Dispatch!history
<1> HIDE DEF N
<1>10. /\ q \in Seq(1 .. N + 1) /\ DOMAIN q = 1 .. Len(ready) + 1 /\ Len(q) = Len(ready) + 1 /\ q[Len(ready) + 1] = N + 1
       /\ \A k \in DOMAIN ready : q[k] = ready[k]
    <2>1. ready \in Seq(1 .. N + 1)
        BY <1>5, <1>8, SeqWider
    <2> QED
        BY <1>3, <1>5, <1>8, <2>1, AppendFacts
<1>11. /\ \A j, k \in DOMAIN q : q[j] = q[k] => j = k
       /\ \A x : (\E k \in DOMAIN q : q[k] = x) <=> (\E k \in DOMAIN ready : ready[k] = x) \/ x = N + 1
    <2>1. \A k \in DOMAIN ready : ready[k] \in 1 .. N
        BY <1>5
    <2>2. \A k \in DOMAIN q : k = Len(ready) + 1 \/ k \in DOMAIN ready
        BY <1>5, <1>10
    <2>3. Len(ready) + 1 \in DOMAIN q /\ \A k \in DOMAIN ready : k \in DOMAIN q
        BY <1>5, <1>10
    <2>4. ASSUME NEW j \in DOMAIN q, NEW k \in DOMAIN q, q[j] = q[k] PROVE j = k
        <3>1. CASE j \in DOMAIN ready /\ k \in DOMAIN ready
            BY <1>10, <2>4, <3>1 DEF DispatchInv, QueuesOK, ReadyOnce
        <3>2. CASE j = Len(ready) + 1 \/ k = Len(ready) + 1
            BY <1>8, <1>10, <2>1, <2>2, <2>4, <3>2
        <3> QED
            BY <2>2, <3>1, <3>2
    <2> QED
        BY <1>10, <2>2, <2>3, <2>4
<1>12. PICK m \in [DOMAIN q -> DOMAIN q] :
          /\ Dispatch!Range(m) = DOMAIN q /\ ready' = [k \in DOMAIN q |-> q[m[k]]]
          /\ \A j, k \in DOMAIN q : j < k =>
                prio[q[m[j]]] > prio[q[m[k]]] \/ (prio[q[m[j]]] = prio[q[m[k]]] /\ m[j] < m[k])
    BY <1>9 DEF Dispatch!Sorted
<1>13. PICK n : n = Len(q)
    OBVIOUS
<1>14. n \in Nat /\ DOMAIN q = 1 .. n
    BY <1>10, <1>13
<1>15. /\ m \in [1 .. n -> 1 .. n] /\ m \in [1 .. n -> DOMAIN q] /\ ready' = [k \in 1 .. n |-> q[m[k]]]
       /\ \A k \in 1 .. n : \E j \in 1 .. n : m[j] = k
       /\ \A j, k \in 1 .. n : j < k =>
             prio[q[m[j]]] > prio[q[m[k]]] \/ (prio[q[m[j]]] = prio[q[m[k]]] /\ m[j] < m[k])
    <2>1. m \in [1 .. n -> 1 .. n]
        BY <1>12, <1>14
    <2>2. Dispatch!Range(m) = {m[k] : k \in 1 .. n}
        BY <2>1 DEF Dispatch!Range
    <2>3. {m[k] : k \in 1 .. n} = 1 .. n
        BY <1>12, <1>14, <2>2
    <2>4. \A k \in 1 .. n : \E j \in 1 .. n : m[j] = k
        BY <2>3
    <2> QED
        BY <1>12, <1>14, <2>1, <2>4
<1>28. \A k \in 1 .. n : m[k] \in 1 .. n /\ q[m[k]] \in 1 .. N + 1 /\ prio[q[m[k]]] \in Nat
    <2>0. \A S : \A s \in Seq(S) : \A k \in 1 .. Len(s) : s[k] \in S
        OBVIOUS
    <2>1. \A k \in 1 .. n : q[k] \in 1 .. N + 1
        BY <1>10, <1>13, <2>0
    <2>2. \A k \in 1 .. n : m[k] \in 1 .. n
        BY <1>15
    <2> QED
        BY <1>7, <2>1, <2>2
<1>16. \A j, k \in 1 .. n : j < k => m[j] # m[k]
    <2> SUFFICES ASSUME NEW j \in 1 .. n, NEW k \in 1 .. n, j < k, m[j] = m[k] PROVE FALSE
        OBVIOUS
    <2>1. prio[q[m[j]]] \in Nat /\ m[j] \in 1 .. n
        BY <1>28
    <2>2. PICK a : a = m[j]
        OBVIOUS
    <2>3. PICK v : v = prio[q[a]]
        OBVIOUS
    <2>4. v > v \/ a < a
        BY <1>15, <2>2, <2>3
    <2>5. v \in Nat /\ a \in Nat
        BY <1>14, <2>1, <2>2, <2>3
    <2> QED
        BY <2>4, <2>5
<1>17. /\ ready' \in Seq(1 .. N + 1) /\ DOMAIN ready' = 1 .. n
       /\ \A j, k \in DOMAIN ready' : ready'[j] = ready'[k] => j = k
       /\ \A x : (\E k \in DOMAIN ready' : ready'[k] = x) => \E k \in DOMAIN q : q[k] = x
    <2>1. PICK p1 : p1 = ready'
        OBVIOUS
    <2>2. p1 = [k \in 1 .. n |-> q[m[k]]] /\ m \in [1 .. n -> DOMAIN q]
        BY <1>15, <2>1
    <2>3. PICK S : S = 1 .. N + 1
        OBVIOUS
    <2>4. q \in Seq(S) /\ n \in Nat /\ \A j, k \in DOMAIN q : q[j] = q[k] => j = k
        BY <1>10, <1>11, <1>14, <2>3
    <2>5. /\ p1 \in Seq(S) /\ DOMAIN p1 = 1 .. n
          /\ \A j, k \in DOMAIN p1 : p1[j] = p1[k] => j = k
          /\ \A x : (\E k \in DOMAIN p1 : p1[k] = x) => \E k \in DOMAIN q : q[k] = x
        <3>1. \A k \in DOMAIN q : q[k] \in S
            BY <2>4
        <3>2. p1 \in [1 .. n -> S] /\ \A k \in 1 .. n : p1[k] = q[m[k]]
            BY <2>2, <3>1
        <3> QED
            BY <1>16, <2>2, <2>4, <3>2, ReadyReordered
    <2> QED
        BY <2>1, <2>3, <2>5
<1>18. \A x : (\E k \in DOMAIN q : q[k] = x) => \E k \in DOMAIN ready' : ready'[k] = x
    <2> SUFFICES ASSUME NEW k \in 1 .. n PROVE \E j \in 1 .. n : ready'[j] = q[k]
        BY <1>14, <1>17
    <2> QED
        BY <1>15
<1>19. /\ tasks' \in Seq(Dispatch!SchedTask) /\ DOMAIN tasks' = 1 .. N + 1 /\ Len(tasks') = N + 1
       /\ \A i \in 1 .. N + 1 : tasks'[i].completed = longer[i].completed
       /\ \A i \in 1 .. N + 1 : (\E k \in DOMAIN ready' : ready'[k] = i) => tasks'[i].sorted = prio[i]
    <2>1. \A i \in 1 .. N + 1 :
              /\ tasks'[i] \in Dispatch!SchedTask /\ tasks'[i].completed = longer[i].completed
              /\ i \in Dispatch!Range(ready') => tasks'[i].sorted = prio[i]
        BY <1>6, <1>7, <1>9 DEF Dispatch!SchedTask
    <2>2. DOMAIN tasks' = 1 .. N + 1
        BY <1>6, <1>9
    <2>3. tasks' \in [1 .. N + 1 -> Dispatch!SchedTask]
        BY <1>6, <1>9, <2>1
    <2>4. N + 1 \in Nat
        BY <1>5
    <2>5. tasks' \in Seq(Dispatch!SchedTask)
        BY <2>3, <2>4
    <2>6. Len(tasks') = N + 1
        BY <2>2, <2>4, <2>5
    <2> QED
        BY <2>1, <2>2, <2>5, <2>6 DEF Dispatch!Range
<1>20. DispatchTypes'
    <2>1. ready' \in Seq(DOMAIN tasks')
        BY <1>17, <1>19
    <2> QED
        BY <1>9, <1>19, <2>1 DEF DispatchInv, DispatchTypes, Dispatch!TypeOK, Dispatch!SchedTask
<1>21. ItemsOK'
    <2>1. \A id \in Nat : Waits("task", id)' <=> Waits("task", id) \/ id = N + 1
        BY <1>11, <1>17, <1>18 DEF Waits
    <2>2. \A id \in Nat : IsBorn("task", id)' <=> IsBorn("task", id) \/ id = N + 1
        <3>1. \A id : IsBorn("task", id) <=> id \in 1 .. N
            BY DEF IsBorn, Dispatch!Born, N
        <3>2. \A id : IsBorn("task", id)' <=> id \in 1 .. N + 1
            BY <1>19 DEF IsBorn, Dispatch!Born
        <3> QED
            BY <1>8, <3>1, <3>2
    <2>3. ~ IsBorn("task", N + 1) /\ "task" \in Dispatch!Kinds /\ N + 1 \in Nat
        BY <1>5, <1>8 DEF IsBorn, Dispatch!Born, Dispatch!Kinds, N
    <2>4. \A kind, id : (UnderWay(kind, id)' <=> UnderWay(kind, id)) /\ (IsOver(kind, id)' <=> IsOver(kind, id))
        BY <1>9 DEF UnderWay, IsOver
    <2>5. ~ Waits("task", N + 1) /\ ~ UnderWay("task", N + 1) /\ ~ IsOver("task", N + 1)
        BY <2>3 DEF DispatchInv, ItemsOK
    <2> QED
        BY <1>9, <2>1, <2>2, <2>4, <2>5, SchedulerOnly DEF DispatchInv, ItemsOK
<1>22. QueuesOK'
    BY <1>9, <1>17, SchedulerOnly DEF QueuesOK, ReadyOnce
<1>23. StackOnce' /\ EndedOnce'
    BY <1>9 DEF DispatchInv, StackOnce, EndedOnce
<1>24. TasksTell'
    <2>1. \A id : Returned(id)' <=> Returned(id)
        BY <1>9 DEF Returned
    <2>2. ~ IsOver("task", N + 1)
        <3>1. ~ IsBorn("task", N + 1) /\ "task" \in Dispatch!Kinds /\ N + 1 \in Nat
            BY <1>5, <1>8 DEF IsBorn, Dispatch!Born, Dispatch!Kinds, N
        <3> QED
            BY <3>1 DEF DispatchInv, ItemsOK
    <2>3. ~ Returned(N + 1)
        BY <2>2 DEF IsOver, Returned
    <2>4. \A i \in 1 .. N : tasks[i].completed <=> Returned(i)
        BY <1>5 DEF DispatchInv, TasksTell
    <2> QED
        BY <1>4, <1>6, <1>8, <1>19, <2>1, <2>3, <2>4 DEF TasksTell
<1>25. TrapsTell'
    <2>1. \A id : NotRaised(id)' <=> NotRaised(id)
        BY <1>9 DEF NotRaised
    <2> QED
        BY <1>9, <2>1, SchedulerOnly
<1>26. TakenOK'
    BY <1>9, SchedulerOnly DEF DispatchInv, TakenOK
<1>27. ReadySorted'
    <2> SUFFICES ASSUME NEW j \in 1 .. n, NEW k \in 1 .. n, j < k
                 PROVE  tasks'[ready'[j]].sorted >= tasks'[ready'[k]].sorted
        BY <1>17 DEF ReadySorted
    <2>1. ready'[j] = q[m[j]] /\ ready'[k] = q[m[k]]
        BY <1>15
    <2>2. tasks'[ready'[j]].sorted = prio[q[m[j]]] /\ tasks'[ready'[k]].sorted = prio[q[m[k]]]
        BY <1>17, <1>19, <1>28, <2>1
    <2>3. prio[q[m[j]]] >= prio[q[m[k]]]
        <3>1. PICK v : v = prio[q[m[j]]]
            OBVIOUS
        <3>2. PICK w : w = prio[q[m[k]]]
            OBVIOUS
        <3>3. v \in Nat /\ w \in Nat
            BY <1>28, <3>1, <3>2
        <3>4. v > w \/ v = w
            BY <1>15, <3>1, <3>2
        <3> QED
            BY <3>1, <3>2, <3>3, <3>4
    <2> QED
        BY <2>2, <2>3
<1> QED
    BY <1>20, <1>21, <1>22, <1>23, <1>24, <1>25, <1>26, <1>27 DEF DispatchInv

\* Nothing happens to an item.
LEMMA NoItemMoves ==
    ASSUME DispatchInv, DispatchTypes', StackOnce',
           \A kind \in Dispatch!Kinds : \A id : UnderWay(kind, id)' <=> UnderWay(kind, id),
           UNCHANGED <<tasks, ready, messages, queues, channel, trapLog, signals, published, events, emitted, taken, ended>>
    PROVE  DispatchInv'
<1>1. \A kind \in Dispatch!Kinds : \A id :
          /\ Waits(kind, id)' <=> Waits(kind, id)
          /\ IsOver(kind, id)' <=> IsOver(kind, id)
          /\ IsBorn(kind, id)' <=> IsBorn(kind, id)
    BY DEF Waits, IsOver, IsBorn, Dispatch!Born, Dispatch!Kinds
<1>2. ItemsOK'
    BY <1>1 DEF DispatchInv, ItemsOK
<1>3. QueuesOK'
    BY DEF DispatchInv, QueuesOK, ReadyOnce, QueuesRise, QueuesApart, Rises
<1>4. EndedOnce'
    BY DEF DispatchInv, EndedOnce
<1>5. TasksTell'
    BY DEF DispatchInv, TasksTell, Returned
<1>6. TrapsTell'
    BY DEF DispatchInv, TrapsTell, NotRaised
<1>7. TakenOK'
    BY DEF DispatchInv, TakenOK, MessagesAfter, EventsAfter
<1>8. ReadySorted'
    BY DEF DispatchInv, ReadySorted
<1> QED
    BY <1>2, <1>3, <1>4, <1>5, <1>6, <1>7, <1>8 DEF DispatchInv

LEMMA PolicyAdded == ASSUME DispatchInv, NEW n \in Policies, Dispatch!AddPolicy(n) PROVE DispatchInv'
<1>1. /\ policies' = policies \cup {n}
      /\ UNCHANGED <<tasks, ready, boosts, messages, queues, channel, trapLog, signals, subscribers, busChannel,
                     published, events, emitted, taken, ended, handlers, stack>>
    BY DEF Dispatch!AddPolicy, Dispatch!ipc, Dispatch!signaling, Dispatch!bus, Dispatch!runtime, Dispatch!history
<1>2. IsFiniteSet(policies') /\ policies' \subseteq Policies
    BY <1>1, DispatchTypesFacts, FS_AddElement DEF DispatchInv
<1>3. DispatchTypes'
    BY <1>1, <1>2 DEF DispatchInv, DispatchTypes, Dispatch!TypeOK
<1>4. StackOnce' /\ \A kind, id : UnderWay(kind, id)' <=> UnderWay(kind, id)
    BY <1>1 DEF DispatchInv, StackOnce, UnderWay
<1> QED
    BY <1>1, <1>3, <1>4, NoItemMoves

LEMMA PriorityBoosted == ASSUME DispatchInv, NEW i \in DOMAIN tasks, Dispatch!PolicyBoosts(i) PROVE DispatchInv'
<1>1. /\ tasks' = [tasks EXCEPT ![i].priority = @ + 1]
      /\ UNCHANGED <<ready, policies, messages, queues, channel, trapLog, signals, subscribers, busChannel,
                     published, events, emitted, taken, ended, handlers, stack>>
    BY DEF Dispatch!PolicyBoosts, Dispatch!ipc, Dispatch!signaling, Dispatch!bus, Dispatch!runtime, Dispatch!history
<1>2. tasks \in Seq(Dispatch!SchedTask) /\ DOMAIN tasks = 1 .. Len(tasks) /\ ready \in Seq(DOMAIN tasks)
    BY DispatchTypesFacts DEF DispatchInv
<1>3. /\ tasks' \in Seq(Dispatch!SchedTask) /\ DOMAIN tasks' = DOMAIN tasks /\ Len(tasks') = Len(tasks)
      /\ \A j \in DOMAIN tasks : tasks'[j].sorted = tasks[j].sorted /\ tasks'[j].completed = tasks[j].completed
    <2>1. PICK t : t = tasks[i]
        OBVIOUS
    <2>2. PICK t1 : t1 = [t EXCEPT !.priority = @ + 1]
        OBVIOUS
    <2>5. t \in Dispatch!SchedTask
        BY <1>2, <2>1
    <2>6. t.priority + 1 \in Nat
        BY <2>5 DEF Dispatch!SchedTask
    <2>3. t1 \in Dispatch!SchedTask /\ t1.sorted = t.sorted /\ t1.completed = t.completed
        BY <2>2, <2>5, <2>6 DEF Dispatch!SchedTask
    <2>4. tasks' = [tasks EXCEPT ![i] = t1]
        BY <1>1, <1>2, <2>1, <2>2
    <2> QED
        BY <1>2, <2>1, <2>3, <2>4
<1>4. DispatchTypes'
    BY <1>1, <1>3 DEF DispatchInv, DispatchTypes, Dispatch!TypeOK
<1>5. \A kind \in Dispatch!Kinds : \A id :
          /\ Waits(kind, id)' <=> Waits(kind, id)
          /\ UnderWay(kind, id)' <=> UnderWay(kind, id)
          /\ IsOver(kind, id)' <=> IsOver(kind, id)
          /\ IsBorn(kind, id)' <=> IsBorn(kind, id)
    BY <1>1, <1>3 DEF Waits, UnderWay, IsOver, IsBorn, Dispatch!Born, Dispatch!Kinds
<1>6. ItemsOK'
    BY <1>5 DEF DispatchInv, ItemsOK
<1>7. QueuesOK'
    BY <1>1 DEF DispatchInv, QueuesOK, ReadyOnce, QueuesRise, QueuesApart, Rises
<1>8. StackOnce' /\ EndedOnce'
    BY <1>1 DEF DispatchInv, EndedOnce, StackOnce
<1>9. TasksTell'
    BY <1>1, <1>3 DEF DispatchInv, TasksTell, Returned
<1>10. TrapsTell'
    BY <1>1 DEF DispatchInv, TrapsTell, NotRaised
<1>11. TakenOK'
    BY <1>1 DEF DispatchInv, TakenOK, MessagesAfter, EventsAfter
<1>12. ReadySorted'
    <2>1. \A k \in DOMAIN ready : ready[k] \in DOMAIN tasks
        BY <1>2
    <2> QED
        BY <1>1, <1>3, <2>1 DEF DispatchInv, ReadySorted
<1> QED
    BY <1>4, <1>6, <1>7, <1>8, <1>9, <1>10, <1>11, <1>12 DEF DispatchInv

\* Tasks leave the queue that keeps its order.
LEMMA ReadyShrinks ==
    ASSUME DispatchInv, ready' \in Seq(DOMAIN tasks), ReadyOnce', ReadySorted', DispatchTypes',
           \A id : Waits("task", id)' => Waits("task", id),
           UNCHANGED <<tasks, messages, queues, channel, trapLog, signals, subscribers, busChannel, published,
                       events, emitted, handlers>>,
           \A id \in Nat : (UnderWay("task", id)' \/ IsOver("task", id)')
                              <=> (UnderWay("task", id) \/ IsOver("task", id) \/ (Waits("task", id) /\ ~ Waits("task", id)')),
           \A id : ~ (UnderWay("task", id)' /\ IsOver("task", id)'),
           \A id : (UnderWay("task", id)' \/ IsOver("task", id)') => ~ Waits("task", id)',
           \A kind \in Dispatch!Kinds : \A id : kind # "task" =>
               (UnderWay(kind, id)' <=> UnderWay(kind, id)) /\ (IsOver(kind, id)' <=> IsOver(kind, id)),
           \A id : (Returned(id)' <=> Returned(id)) /\ (NotRaised(id)' <=> NotRaised(id)),
           StackOnce', EndedOnce', TakenOK'
    PROVE  DispatchInv'
<1>1. ItemsOK'
    <2>1. \A id : IsBorn("task", id)' <=> IsBorn("task", id)
        BY DEF IsBorn, Dispatch!Born
    <2>2. \A kind \in Dispatch!Kinds : \A id : kind # "task" =>
              (Waits(kind, id)' <=> Waits(kind, id)) /\ (IsBorn(kind, id)' <=> IsBorn(kind, id))
        BY SchedulerOnly
    <2>3. "task" \in Dispatch!Kinds
        BY DEF Dispatch!Kinds
    <2> SUFFICES ASSUME NEW kind \in Dispatch!Kinds, NEW id \in Nat
                 PROVE  /\ IsBorn(kind, id)' <=> Waits(kind, id)' \/ UnderWay(kind, id)' \/ IsOver(kind, id)'
                        /\ ~ (Waits(kind, id)' /\ UnderWay(kind, id)') /\ ~ (Waits(kind, id)' /\ IsOver(kind, id)')
                        /\ ~ (UnderWay(kind, id)' /\ IsOver(kind, id)')
        BY DEF ItemsOK
    <2>4. CASE kind # "task"
        BY <2>2, <2>4 DEF DispatchInv, ItemsOK
    <2>5. CASE kind = "task"
        BY <2>1, <2>3, <2>5 DEF DispatchInv, ItemsOK
    <2> QED
        BY <2>4, <2>5
<1>2. QueuesOK' /\ TrapsTell'
    BY SchedulerOnly DEF QueuesOK
<1>3. TasksTell'
    BY DEF DispatchInv, TasksTell
<1> QED
    BY <1>1, <1>2, <1>3 DEF DispatchInv

LEMMA TasksDropped == ASSUME DispatchInv, NEW p \in Priorities, Dispatch!PolicyDrops(p) PROVE DispatchInv'
<1>1. PICK at : at = {k \in DOMAIN ready : tasks[ready[k]].priority >= p}
    OBVIOUS
<1>2. /\ ready' \in Dispatch!Kept(ready, at)
      /\ ended' = ended \cup {[kind |-> "task", id |-> i, how |-> "dropped"] :
                                i \in Dispatch!Range(ready) \ Dispatch!Range(ready')}
      /\ UNCHANGED <<tasks, policies, boosts, messages, queues, channel, trapLog, signals, subscribers, busChannel,
                     published, events, emitted, taken, handlers, stack>>
    BY <1>1 DEF Dispatch!PolicyDrops, Dispatch!ipc, Dispatch!signaling, Dispatch!bus, Dispatch!runtime
<1>3. /\ ready \in Seq(DOMAIN tasks) /\ DOMAIN ready = 1 .. Len(ready) /\ Len(ready) \in Nat
      /\ DOMAIN tasks = 1 .. Len(tasks) /\ tasks \in Seq(Dispatch!SchedTask)
    BY DispatchTypesFacts DEF DispatchInv
<1>4. PICK n : n = Cardinality(at)
    OBVIOUS
<1>5. n \in Nat /\ at \subseteq DOMAIN ready
    <2>1. at \subseteq 1 .. Len(ready)
        BY <1>1, <1>3
    <2>2. IsFiniteSet(1 .. Len(ready))
        BY <1>3, FS_Interval
    <2> QED
        BY <1>3, <1>4, <2>1, <2>2, FS_Subset, FS_CardinalityType
<1>6. Dispatch!Cardinality(at) = n
    BY <1>4 DEF Dispatch!Cardinality, Cardinality
<1>7. PICK m \in [1 .. n -> at] : /\ \A j, k \in DOMAIN m : j < k => m[j] < m[k]
                                  /\ ready' = [k \in DOMAIN m |-> ready[m[k]]]
    BY <1>2, <1>6 DEF Dispatch!Kept
<1>8. /\ m \in [1 .. n -> DOMAIN ready] /\ ready' = [k \in 1 .. n |-> ready[m[k]]]
      /\ \A k \in 1 .. n : m[k] \in DOMAIN ready
      /\ \A j, k \in 1 .. n : j < k => m[j] < m[k]
    BY <1>5, <1>7
<1>9. \A j, k \in 1 .. n : j < k => m[j] # m[k]
    <2> SUFFICES ASSUME NEW j \in 1 .. n, NEW k \in 1 .. n, j < k, m[j] = m[k] PROVE FALSE
        OBVIOUS
    <2>1. m[j] \in Nat /\ m[j] < m[k]
        BY <1>3, <1>8
    <2> QED
        BY <2>1
<1>10. /\ ready' \in Seq(DOMAIN tasks) /\ DOMAIN ready' = 1 .. n /\ ReadyOnce'
       /\ \A x : (\E k \in DOMAIN ready' : ready'[k] = x) => \E k \in DOMAIN ready : ready[k] = x
    <2>1. PICK r1 : r1 = ready'
        OBVIOUS
    <2>2. PICK S : S = DOMAIN tasks
        OBVIOUS
    <2>3. \A k \in DOMAIN ready : ready[k] \in S
        BY <1>3, <2>2
    <2>4. r1 \in [1 .. n -> S] /\ \A k \in 1 .. n : r1[k] = ready[m[k]]
        BY <1>8, <2>1, <2>3
    <2>5. \A j, k \in DOMAIN ready : ready[j] = ready[k] => j = k
        BY DEF DispatchInv, QueuesOK, ReadyOnce
    <2>6. PICK q : q = ready
        OBVIOUS
    <2>7. /\ q \in Seq(S) /\ m \in [1 .. n -> DOMAIN q]
          /\ \A k \in 1 .. n : r1[k] = q[m[k]]
          /\ \A j, k \in DOMAIN q : q[j] = q[k] => j = k
        BY <1>3, <1>8, <2>2, <2>4, <2>5, <2>6
    <2>8. /\ r1 \in Seq(S) /\ DOMAIN r1 = 1 .. n /\ \A j, k \in DOMAIN r1 : r1[j] = r1[k] => j = k
          /\ \A x : (\E k \in DOMAIN r1 : r1[k] = x) => \E k \in DOMAIN q : q[k] = x
        <3>1. r1 \in [1 .. n -> S]
            BY <2>4
        <3>2. /\ q \in Seq(S) /\ n \in Nat /\ m \in [1 .. n -> DOMAIN q]
              /\ \A k \in 1 .. n : r1[k] = q[m[k]]
              /\ \A j, k \in 1 .. n : j < k => m[j] # m[k]
              /\ \A j, k \in DOMAIN q : q[j] = q[k] => j = k
            BY <1>5, <1>9, <2>7
        <3>3. r1 \in Seq(S) /\ DOMAIN r1 = 1 .. n /\ \A j, k \in DOMAIN r1 : r1[j] = r1[k] => j = k
            BY ONLY <3>1, <3>2, ReadyReordered
        <3>4. \A x : (\E k \in DOMAIN r1 : r1[k] = x) => \E k \in DOMAIN q : q[k] = x
            BY ONLY <3>1, <3>2, ReadyReordered
        <3> QED
            BY ONLY <3>3, <3>4
    <2> QED
        BY <2>1, <2>2, <2>6, <2>8 DEF ReadyOnce
<1>11. ReadySorted'
    <2> SUFFICES ASSUME NEW j \in 1 .. n, NEW k \in 1 .. n, j < k
                 PROVE  tasks[ready'[j]].sorted >= tasks[ready'[k]].sorted
        BY <1>2, <1>10 DEF ReadySorted
    <2> QED
        BY <1>8 DEF DispatchInv, ReadySorted
<1>12. DispatchTypes'
    BY <1>2, <1>10 DEF DispatchInv, DispatchTypes, Dispatch!TypeOK
<1>13. /\ \A id : Waits("task", id) <=> id \in Dispatch!Range(ready)
       /\ \A id : Waits("task", id)' <=> id \in Dispatch!Range(ready')
    BY DEF Waits, Dispatch!Range
<1>14. PICK Dropped : Dropped = Dispatch!Range(ready) \ Dispatch!Range(ready')
    OBVIOUS
<1>15. /\ \A id : id \in Dropped <=> Waits("task", id) /\ ~ Waits("task", id)'
       /\ \A id : Waits("task", id)' => Waits("task", id)
       /\ \A id : Waits("task", id) => id \in Nat
       /\ ended' = ended \cup {[kind |-> "task", id |-> i, how |-> "dropped"] : i \in Dropped}
    <2>1. \A id : Waits("task", id)' => Waits("task", id)
        BY <1>10 DEF Waits
    <2>2. \A id : Waits("task", id) => id \in Nat
        <3>1. \A k \in DOMAIN ready : ready[k] \in 1 .. Len(tasks)
            BY <1>3
        <3> QED
            BY <3>1 DEF Waits
    <2> QED
        BY <1>2, <1>13, <1>14, <2>1, <2>2
<1>16. /\ \A kind, id : IsOver(kind, id)' <=> IsOver(kind, id) \/ (kind = "task" /\ id \in Dropped)
       /\ \A id : (Returned(id)' <=> Returned(id)) /\ (NotRaised(id)' <=> NotRaised(id))
    <2>4. \A e \in ended' : e \in ended \/ (e.kind = "task" /\ e.id \in Dropped)
        BY <1>15
    <2>5. ASSUME NEW i \in Dropped PROVE \E e \in ended' : e.kind = "task" /\ e.id = i
        <3>1. [kind |-> "task", id |-> i, how |-> "dropped"] \in ended'
            BY <1>15
        <3> QED
            BY <3>1
    <2>6. ended \subseteq ended'
        BY <1>15
    <2>1. \A kind, id : IsOver(kind, id)' <=> IsOver(kind, id) \/ (kind = "task" /\ id \in Dropped)
        BY <2>4, <2>5, <2>6 DEF IsOver
    <2>2. \A id : Returned(id)' <=> Returned(id)
        BY <1>15 DEF Returned
    <2>3. \A id : NotRaised(id)' <=> NotRaised(id)
        BY <1>15 DEF NotRaised
    <2> QED
        BY <2>1, <2>2, <2>3
<1>17. \A kind, id : UnderWay(kind, id)' <=> UnderWay(kind, id)
    BY <1>2 DEF UnderWay
<1>18. \A id \in Nat : /\ Waits("task", id) => ~ UnderWay("task", id) /\ ~ IsOver("task", id)
                       /\ ~ (UnderWay("task", id) /\ IsOver("task", id))
    BY DEF DispatchInv, ItemsOK, Dispatch!Kinds
<1>19. EndedOnce'
    <2> SUFFICES ASSUME NEW e \in ended', NEW g \in ended', e.kind = g.kind, e.id = g.id PROVE e = g
        BY DEF EndedOnce
    <2>1. CASE e \in ended /\ g \in ended
        BY <2>1 DEF DispatchInv, EndedOnce
    <2>2. CASE e \in ended /\ g \notin ended
        BY <1>15, <1>18, <2>2 DEF IsOver
    <2>3. CASE e \notin ended /\ g \in ended
        BY <1>15, <1>18, <2>3 DEF IsOver
    <2>4. CASE e \notin ended /\ g \notin ended
        BY <1>15, <2>4
    <2> QED
        BY <2>1, <2>2, <2>3, <2>4
<1>20. TakenOK' /\ StackOnce'
    <2>1. TakenOK'
        BY <1>2, SchedulerOnly DEF DispatchInv, TakenOK
    <2>2. StackOnce'
        BY <1>2 DEF DispatchInv, StackOnce
    <2> QED
        BY <2>1, <2>2
<1>21. \A id : ~ (UnderWay("task", id)' /\ IsOver("task", id)')
    <2> SUFFICES ASSUME NEW id, UnderWay("task", id), IsOver("task", id)' PROVE FALSE
        BY <1>17
    <2>1. id \in Nat
        <3>1. PICK k \in DOMAIN stack : stack[k].id = id
            BY DEF UnderWay
        <3>2. stack[k] \in Dispatch!Frame
            BY DispatchTypesFacts DEF DispatchInv
        <3> QED
            BY <3>1, <3>2 DEF Dispatch!Frame
    <2> QED
        BY <1>15, <1>16, <1>18, <2>1
<1>22. \A id : (UnderWay("task", id)' \/ IsOver("task", id)') => ~ Waits("task", id)'
    BY <1>15, <1>16, <1>17, <1>18
<1> QED
    BY <1>2, <1>10, <1>11, <1>12, <1>15, <1>16, <1>17, <1>19, <1>20, <1>21, <1>22, ReadyShrinks

LEMMA TakingNoted ==
    ASSUME DispatchInv, NEW T \in Taking, taken' = Append(taken, T)
    PROVE  /\ taken' \in Seq(Taking) /\ Len(taken) \in Nat /\ DOMAIN taken' = 1 .. Len(taken) + 1
           /\ DOMAIN taken = 1 .. Len(taken) /\ taken'[Len(taken) + 1] = T
           /\ \A k \in 1 .. Len(taken) : taken'[k] = taken[k]
           /\ \A k \in 1 .. Len(taken) + 1 : k \in 1 .. Len(taken) \/ k = Len(taken) + 1
<1>1. taken \in Seq(Taking) /\ Len(taken) \in Nat
    BY DispatchTypesFacts DEF DispatchInv
<1>2. \A n \in Nat : \A k \in 1 .. n + 1 : k \in 1 .. n \/ k = n + 1
    OBVIOUS
<1> QED
    BY <1>1, <1>2, AppendFacts

LEMMA ReadyTaken ==
    ASSUME DispatchInv, ready # <<>>, ready' = Tail(ready), NEW h, h = Head(ready)
    PROVE  /\ ready' \in Seq(DOMAIN tasks) /\ h \in DOMAIN tasks /\ \E k \in DOMAIN ready : ready[k] = h
           /\ \A x : (\E k \in DOMAIN ready' : ready'[k] = x) <=> (\E k \in DOMAIN ready : ready[k] = x) /\ x # h
           /\ \A j \in DOMAIN ready' : j + 1 \in DOMAIN ready /\ ready'[j] = ready[j + 1] /\ j + 1 \in Nat /\ j \in Nat
<1>1. ready \in Seq(DOMAIN tasks)
    BY DispatchTypesFacts DEF DispatchInv
<1>2. \A j, k \in DOMAIN ready : ready[j] = ready[k] => j = k
    BY DEF DispatchInv, QueuesOK, ReadyOnce
<1>3. /\ Tail(ready) \in Seq(DOMAIN tasks) /\ Head(ready) \in DOMAIN tasks
      /\ \E k \in DOMAIN ready : ready[k] = Head(ready)
    BY <1>1, <1>2, HeadTaken
<1>4. \A x : (\E k \in DOMAIN Tail(ready) : Tail(ready)[k] = x) <=> (\E k \in DOMAIN ready : ready[k] = x) /\ x # Head(ready)
    BY <1>1, <1>2, HeadTaken
<1>5. \A j \in DOMAIN Tail(ready) : j + 1 \in DOMAIN ready /\ Tail(ready)[j] = ready[j + 1] /\ j + 1 \in Nat /\ j \in Nat
    BY <1>1, <1>2, HeadTaken
<1> QED
    BY <1>3, <1>4, <1>5

LEMMA TaskTaken ==
    ASSUME DispatchInv, ready # <<>>, ready' = Tail(ready), taken' = Dispatch!Take("task", Head(ready), 0),
           stack' \in Seq(Dispatch!Frame), StackOnce',
           \A kind \in Dispatch!Kinds : \A id : UnderWay(kind, id)' <=> UnderWay(kind, id) \/ (kind = "task" /\ id = Head(ready)),
           UNCHANGED <<tasks, policies, ended, messages, queues, channel, trapLog, signals, subscribers, busChannel,
                       published, events, emitted, handlers>>
    PROVE  DispatchInv'
<1>1. PICK h : h = Head(ready)
    OBVIOUS
<1>2. ready \in Seq(DOMAIN tasks) /\ DOMAIN tasks = 1 .. Len(tasks) /\ Len(tasks) \in Nat /\ taken \in Seq(Taking)
      /\ DOMAIN taken = 1 .. Len(taken)
    BY DispatchTypesFacts DEF DispatchInv
<1>3. \A j, k \in DOMAIN ready : ready[j] = ready[k] => j = k
    BY DEF DispatchInv, QueuesOK, ReadyOnce
<1>4. /\ ready' \in Seq(DOMAIN tasks) /\ h \in DOMAIN tasks /\ \E k \in DOMAIN ready : ready[k] = h
      /\ \A x : (\E k \in DOMAIN ready' : ready'[k] = x) <=> (\E k \in DOMAIN ready : ready[k] = x) /\ x # h
      /\ \A j \in DOMAIN ready' : j + 1 \in DOMAIN ready /\ ready'[j] = ready[j + 1] /\ j + 1 \in Nat /\ j \in Nat
    <2>1. \A x : x = Head(ready) =>
             /\ ready' \in Seq(DOMAIN tasks) /\ x \in DOMAIN tasks /\ \E k \in DOMAIN ready : ready[k] = x
             /\ \A y : (\E k \in DOMAIN ready' : ready'[k] = y) <=> (\E k \in DOMAIN ready : ready[k] = y) /\ y # x
             /\ \A j \in DOMAIN ready' : j + 1 \in DOMAIN ready /\ ready'[j] = ready[j + 1] /\ j + 1 \in Nat /\ j \in Nat
        BY ReadyTaken
    <2> QED
        BY <1>1, <2>1
<1>5. \A id : Waits("task", id)' <=> Waits("task", id) /\ id # h
    BY <1>4 DEF Waits
<1>6. Waits("task", h) /\ h \in Nat
    BY <1>2, <1>4 DEF Waits
<1>7. ReadyOnce'
    <2> SUFFICES ASSUME NEW j \in DOMAIN ready', NEW k \in DOMAIN ready', ready'[j] = ready'[k] PROVE j = k
        BY DEF ReadyOnce
    <2>1. j + 1 = k + 1 /\ j \in Nat /\ k \in Nat
        BY <1>3, <1>4
    <2> QED
        BY <2>1
<1>8. ReadySorted'
    <2> SUFFICES ASSUME NEW j \in DOMAIN ready', NEW k \in DOMAIN ready', j < k
                 PROVE  tasks[ready'[j]].sorted >= tasks[ready'[k]].sorted
        BY DEF ReadySorted
    <2>1. j + 1 < k + 1
        BY <1>4
    <2> QED
        BY <1>4, <2>1 DEF DispatchInv, ReadySorted
<1>9. PICK T : T = [kind |-> "task", id |-> h, source |-> 0]
    OBVIOUS
<1>10. /\ taken' = Append(taken, T) /\ T \in Taking /\ T.kind = "task"
    BY <1>1, <1>6, <1>9 DEF Dispatch!Take, Taking
<1>11. /\ taken' \in Seq(Taking) /\ DOMAIN taken' = 1 .. Len(taken) + 1 /\ taken'[Len(taken) + 1] = T
       /\ \A k \in 1 .. Len(taken) : taken'[k] = taken[k]
       /\ \A k \in 1 .. Len(taken) + 1 : k \in 1 .. Len(taken) \/ k = Len(taken) + 1
    BY <1>10, TakingNoted
<1>12. TakenOK'
    <2>1. \A k \in DOMAIN taken' : taken'[k].kind = "task" \/ (k \in DOMAIN taken /\ taken'[k] = taken[k])
        BY <1>2, <1>10, <1>11
    <2>2. \A k \in DOMAIN taken' : /\ taken'[k].kind = "message" => MessagesAfter(taken'[k])
                                   /\ taken'[k].kind = "event" => EventsAfter(taken'[k])
        BY <2>1 DEF DispatchInv, TakenOK
    <2>3. \A t : (MessagesAfter(t) <=> MessagesAfter(t)') /\ (EventsAfter(t) <=> EventsAfter(t)')
        BY SchedulerOnly
    <2>4. \A j, k \in DOMAIN taken' :
              j < k /\ taken'[j].kind = taken'[k].kind /\ taken'[j].kind # "task" /\ taken'[j].source = taken'[k].source
                  => taken'[j].id < taken'[k].id
        BY <2>1 DEF DispatchInv, TakenOK
    <2>5. PICK tk : tk = taken'
        OBVIOUS
    <2>6. \A k \in DOMAIN tk : /\ tk[k].kind = "message" => MessagesAfter(tk[k])'
                               /\ tk[k].kind = "event" => EventsAfter(tk[k])'
        BY <2>2, <2>3, <2>5
    <2> QED
        BY <2>4, <2>5, <2>6 DEF TakenOK
<1>13. DispatchTypes'
    BY <1>4, <1>11 DEF DispatchInv, DispatchTypes, Dispatch!TypeOK
<1>14. \A kind, id : IsOver(kind, id)' <=> IsOver(kind, id)
    BY DEF IsOver
<1>15. \A id : (Returned(id)' <=> Returned(id)) /\ (NotRaised(id)' <=> NotRaised(id))
    BY DEF Returned, NotRaised
<1>16. "task" \in Dispatch!Kinds
    BY DEF Dispatch!Kinds
<1>17. EndedOnce'
    BY DEF DispatchInv, EndedOnce
<1>18. \A id \in Nat : UnderWay("task", id)' <=> UnderWay("task", id) \/ id = h
    BY <1>1, <1>16
<1>19. ItemsOK'
    <2>1. \A id : IsBorn("task", id)' <=> IsBorn("task", id)
        BY DEF IsBorn, Dispatch!Born
    <2>2. \A kind \in Dispatch!Kinds : \A id : kind # "task" =>
              (Waits(kind, id)' <=> Waits(kind, id)) /\ (IsBorn(kind, id)' <=> IsBorn(kind, id))
        BY SchedulerOnly
    <2> SUFFICES ASSUME NEW kind \in Dispatch!Kinds, NEW id \in Nat
                 PROVE  /\ IsBorn(kind, id)' <=> Waits(kind, id)' \/ UnderWay(kind, id)' \/ IsOver(kind, id)'
                        /\ ~ (Waits(kind, id)' /\ UnderWay(kind, id)') /\ ~ (Waits(kind, id)' /\ IsOver(kind, id)')
                        /\ ~ (UnderWay(kind, id)' /\ IsOver(kind, id)')
        BY DEF ItemsOK
    <2>4. CASE kind # "task"
        BY <1>14, <2>2, <2>4 DEF DispatchInv, ItemsOK
    <2>5. CASE kind = "task"
        BY <1>5, <1>6, <1>14, <1>18, <2>1, <1>16, <2>5 DEF DispatchInv, ItemsOK
    <2> QED
        BY <2>4, <2>5
<1>20. QueuesOK' /\ TrapsTell'
    BY <1>7, <1>15, SchedulerOnly DEF QueuesOK
<1>21. TasksTell'
    BY <1>15 DEF DispatchInv, TasksTell
<1> QED
    BY <1>8, <1>12, <1>13, <1>17, <1>19, <1>20, <1>21 DEF DispatchInv

LEMMA SchedulerRuns == ASSUME DispatchInv, Dispatch!RunOnce PROVE DispatchInv'
<1>1. UNCHANGED <<tasks, policies, boosts, ended, messages, queues, channel, trapLog, signals, subscribers, busChannel,
                  published, events, emitted, handlers>>
    BY DEF Dispatch!RunOnce, Dispatch!ipc, Dispatch!signaling, Dispatch!bus, Dispatch!runtime
<1>2. CASE policies # {}
    <2>1. PICK f : f = [kind |-> "policies", id |-> 0, at |-> 1, of |-> Dispatch!Cardinality(policies), source |-> 0]
        OBVIOUS
    <2>2. stack' = Append(stack, f) /\ UNCHANGED <<ready, taken>>
        BY <1>2, <2>1 DEF Dispatch!RunOnce, Dispatch!Call
    <2>3. Dispatch!Cardinality(policies) \in Nat
        <3>1. Dispatch!Cardinality(policies) = Cardinality(policies)
            BY DEF Dispatch!Cardinality, Cardinality
        <3> QED
            BY <3>1, DispatchTypesFacts, FS_CardinalityType DEF DispatchInv
    <2>4. f \in Dispatch!Frame /\ f.kind = "policies"
        BY <2>1, <2>3 DEF Dispatch!Frame
    <2>5. /\ stack' \in Seq(Dispatch!Frame) /\ StackOnce'
          /\ \A kind, id : UnderWay(kind, id)' <=> UnderWay(kind, id) \/ (kind = f.kind /\ id = f.id)
        BY <2>2, <2>4, CallBegins
    <2>6. DispatchTypes'
        BY <1>1, <2>2, <2>5 DEF DispatchInv, DispatchTypes, Dispatch!TypeOK
    <2>7. \A kind \in Dispatch!Kinds : kind # "policies"
        BY DEF Dispatch!Kinds
    <2> QED
        BY <1>1, <2>2, <2>4, <2>5, <2>6, <2>7, NoItemMoves
<1>3. CASE policies = {} /\ ready = <<>>
    <2>1. UNCHANGED <<stack, ready, taken>>
        BY <1>3 DEF Dispatch!RunOnce, Dispatch!NextTask
    <2>2. DispatchTypes' /\ StackOnce' /\ \A kind, id : UnderWay(kind, id)' <=> UnderWay(kind, id)
        BY <1>1, <2>1 DEF DispatchInv, DispatchTypes, Dispatch!TypeOK, StackOnce, UnderWay
    <2> QED
        BY <1>1, <2>1, <2>2, NoItemMoves
<1>4. CASE policies = {} /\ ready # <<>>
    <2>1. PICK f : f = [kind |-> "task", id |-> Head(ready), at |-> 1, of |-> 1, source |-> 0]
        OBVIOUS
    <2>2. stack' = Append(stack, f) /\ ready' = Tail(ready) /\ taken' = Dispatch!Take("task", Head(ready), 0)
        BY <1>4, <2>1 DEF Dispatch!RunOnce, Dispatch!NextTask
    <2>3. Head(ready) \in Nat /\ Waits("task", Head(ready))
        <3>1. ready \in Seq(DOMAIN tasks) /\ DOMAIN tasks = 1 .. Len(tasks)
            BY DispatchTypesFacts DEF DispatchInv
        <3>2. Head(ready) \in DOMAIN tasks /\ 1 \in DOMAIN ready /\ Head(ready) = ready[1]
            BY <1>4, <3>1, TailFacts
        <3> QED
            BY <3>1, <3>2 DEF Waits
    <2>4. f \in Dispatch!Frame /\ f.kind = "task" /\ f.id = Head(ready)
        BY <2>1, <2>3 DEF Dispatch!Frame, Dispatch!Kinds
    <2>5. ~ UnderWay(f.kind, f.id)
        BY <2>3, <2>4 DEF DispatchInv, ItemsOK, Dispatch!Kinds
    <2>6. /\ stack' \in Seq(Dispatch!Frame) /\ StackOnce'
          /\ \A kind, id : UnderWay(kind, id)' <=> UnderWay(kind, id) \/ (kind = f.kind /\ id = f.id)
        BY <2>2, <2>4, <2>5, CallBegins
    <2> QED
        BY <1>1, <1>4, <2>2, <2>4, <2>6, TaskTaken
<1> QED
    BY <1>2, <1>3, <1>4

LEMMA PolicyGoesOn == ASSUME DispatchInv, Dispatch!PolicyReturns PROVE DispatchInv'
<1>1. /\ UNCHANGED <<tasks, policies, boosts, ended, messages, queues, channel, trapLog, signals, subscribers, busChannel,
                     published, events, emitted, handlers>>
      /\ stack # <<>> /\ Dispatch!Last(stack).kind = "policies"
    BY DEF Dispatch!PolicyReturns, Dispatch!AtTop, Dispatch!ipc, Dispatch!signaling, Dispatch!bus, Dispatch!runtime
<1>2. \A kind \in Dispatch!Kinds : kind # "policies"
    BY DEF Dispatch!Kinds
<1>3. CASE stack' = Dispatch!Front(stack) /\ UNCHANGED <<ready, taken>>
    <2>1. PICK f : f = Dispatch!Last(stack)
        OBVIOUS
    <2>2. /\ stack' \in Seq(Dispatch!Frame) /\ StackOnce'
          /\ \A kind \in Dispatch!Kinds : \A id :
                UnderWay(kind, id)' <=> UnderWay(kind, id) /\ ~ (kind = f.kind /\ id = f.id)
        BY <1>1, <1>3, <2>1, CallEnds
    <2>3. DispatchTypes'
        BY <1>1, <1>3, <2>2 DEF DispatchInv, DispatchTypes, Dispatch!TypeOK
    <2> QED
        BY <1>1, <1>2, <1>3, <2>1, <2>2, <2>3, NoItemMoves
<1>4. CASE stack' = [stack EXCEPT ![Len(stack)].at = @ + 1] /\ UNCHANGED <<ready, taken>>
    <2>1. stack' \in Seq(Dispatch!Frame) /\ StackOnce' /\ \A kind, id : UnderWay(kind, id)' <=> UnderWay(kind, id)
        BY <1>1, <1>4, CallGoesOn
    <2>2. DispatchTypes'
        BY <1>1, <1>4, <2>1 DEF DispatchInv, DispatchTypes, Dispatch!TypeOK
    <2> QED
        BY <1>1, <1>4, <2>1, <2>2, NoItemMoves
<1>5. CASE ready # <<>> /\ Dispatch!NextTask(Dispatch!Front(stack))
    <2> DEFINE N == Len(stack)
    <2>1. PICK f : f = [kind |-> "task", id |-> Head(ready), at |-> 1, of |-> 1, source |-> 0]
        OBVIOUS
    <2>2. PICK rest : rest = Dispatch!Front(stack)
        OBVIOUS
    <2>3. stack' = Append(rest, f) /\ ready' = Tail(ready) /\ taken' = Dispatch!Take("task", Head(ready), 0)
        BY <1>5, <2>1, <2>2 DEF Dispatch!NextTask
    <2>4. Head(ready) \in Nat /\ Waits("task", Head(ready))
        <3>1. ready \in Seq(DOMAIN tasks) /\ DOMAIN tasks = 1 .. Len(tasks)
            BY DispatchTypesFacts DEF DispatchInv
        <3>2. Head(ready) \in DOMAIN tasks /\ 1 \in DOMAIN ready /\ Head(ready) = ready[1]
            BY <1>5, <3>1, TailFacts
        <3> QED
            BY <3>1, <3>2 DEF Waits
    <2>5. f \in Dispatch!Frame /\ f.kind = "task" /\ f.id = Head(ready)
        BY <2>1, <2>4 DEF Dispatch!Frame, Dispatch!Kinds
    <2>6. ~ UnderWay(f.kind, f.id)
        BY <2>4, <2>5 DEF DispatchInv, ItemsOK, Dispatch!Kinds
    <2>7. /\ stack \in Seq(Dispatch!Frame) /\ DOMAIN stack = 1 .. N /\ N \in Nat
        BY DispatchTypesFacts DEF DispatchInv
    <2>8. /\ N \in Nat \ {0} /\ rest \in Seq(Dispatch!Frame) /\ Len(rest) = N - 1 /\ \A k \in 1 .. N - 1 : rest[k] = stack[k]
        BY <1>1, <2>2, <2>7, FrontFacts DEF Dispatch!Front
    <2>9. /\ stack' \in Seq(Dispatch!Frame) /\ DOMAIN stack' = 1 .. N /\ stack'[N] = f
          /\ \A k \in 1 .. N - 1 : stack'[k] = stack[k]
        <3>1. (N - 1) + 1 = N
            BY <2>8
        <3> HIDE DEF N
        <3> QED
            BY <2>3, <2>5, <2>8, <3>1, AppendFacts
    <2>10. stack[N].kind = "policies"
        BY <1>1 DEF Dispatch!Last
    <2>11. N \in 1 .. N /\ \A k \in 1 .. N : (k = N \/ k \in 1 .. N - 1) /\ \A j \in 1 .. N - 1 : j \in 1 .. N /\ j # N
        BY <2>8
    <2> HIDE DEF N
    <2>12. StackOnce'
        <3> SUFFICES ASSUME NEW j \in 1 .. N, NEW k \in 1 .. N, stack'[j].kind # "policies",
                            stack'[j].kind = stack'[k].kind, stack'[j].id = stack'[k].id
                     PROVE  j = k
            BY <2>9 DEF StackOnce
        <3>1. CASE j \in 1 .. N - 1 /\ k \in 1 .. N - 1
            BY <2>7, <2>9, <2>11, <3>1 DEF DispatchInv, StackOnce
        <3>2. CASE j = N /\ k \in 1 .. N - 1
            BY <2>6, <2>7, <2>9, <2>11, <3>2 DEF UnderWay
        <3>3. CASE j \in 1 .. N - 1 /\ k = N
            BY <2>6, <2>7, <2>9, <2>11, <3>3 DEF UnderWay
        <3> QED
            BY <2>11, <3>1, <3>2, <3>3
    <2>13. ASSUME NEW kind \in Dispatch!Kinds, NEW id
           PROVE  UnderWay(kind, id)' <=> UnderWay(kind, id) \/ (kind = "task" /\ id = Head(ready))
        <3>1. ASSUME UnderWay(kind, id)' PROVE UnderWay(kind, id) \/ (kind = "task" /\ id = Head(ready))
            <4>1. PICK k \in 1 .. N : stack'[k].kind = kind /\ stack'[k].id = id
                BY <2>9, <3>1 DEF UnderWay
            <4> QED
                BY <2>5, <2>7, <2>9, <2>11, <4>1 DEF UnderWay
        <3>2. ASSUME UnderWay(kind, id) PROVE UnderWay(kind, id)'
            <4>1. PICK k \in 1 .. N : stack[k].kind = kind /\ stack[k].id = id
                BY <2>7, <3>2 DEF UnderWay
            <4>2. k \in 1 .. N - 1
                BY <1>2, <2>10, <2>11, <4>1
            <4> QED
                BY <2>9, <2>11, <4>1, <4>2 DEF UnderWay
        <3>3. ASSUME kind = "task", id = Head(ready) PROVE UnderWay(kind, id)'
            BY <2>5, <2>9, <2>11, <3>3 DEF UnderWay
        <3> QED
            BY <3>1, <3>2, <3>3
    <2> QED
        BY <1>1, <1>5, <2>3, <2>9, <2>12, <2>13, TaskTaken
<1> QED
    BY <1>3, <1>4, <1>5 DEF Dispatch!PolicyReturns, Dispatch!NextTask

-----------------------------------------------------------------------------
(* Messages, signals, events and handlers *)

\* What was taken is under way in its handler, or over.
LEMMA ItemPlaced ==
    ASSUME DispatchInv, NEW kd \in Dispatch!Kinds, NEW i \in Nat, NEW how, ~ UnderWay(kd, i), ~ IsOver(kd, i),
           kd # "task",
           \/ \E f \in Dispatch!Frame : f.kind = kd /\ f.id = i /\ stack' = Append(stack, f) /\ UNCHANGED ended
           \/ ended' = Dispatch!End(kd, i, how) /\ UNCHANGED stack
    PROVE  /\ stack' \in Seq(Dispatch!Frame) /\ StackOnce' /\ EndedOnce'
           /\ \A kind \in Dispatch!Kinds : \A id :
                 /\ UnderWay(kind, id)' \/ IsOver(kind, id)'
                        <=> UnderWay(kind, id) \/ IsOver(kind, id) \/ (kind = kd /\ id = i)
                 /\ UnderWay(kind, id)' /\ IsOver(kind, id)' => UnderWay(kind, id) /\ IsOver(kind, id)
           /\ \A id : Returned(id)' <=> Returned(id)
           /\ \A id : NotRaised(id)' <=> NotRaised(id) \/ (kd = "signal" /\ id = i /\ UNCHANGED stack /\ how # "raised")
<1>1. kd # "policies"
    BY DEF Dispatch!Kinds
<1>2. CASE \E f \in Dispatch!Frame : f.kind = kd /\ f.id = i /\ stack' = Append(stack, f) /\ UNCHANGED ended
    <2>1. PICK f \in Dispatch!Frame : f.kind = kd /\ f.id = i /\ stack' = Append(stack, f) /\ UNCHANGED ended
        BY <1>2
    <2>2. /\ stack' \in Seq(Dispatch!Frame) /\ StackOnce'
          /\ \A kind, id : UnderWay(kind, id)' <=> UnderWay(kind, id) \/ (kind = f.kind /\ id = f.id)
        BY <2>1, CallBegins
    <2>3. /\ EndedOnce' /\ \A kind, id : IsOver(kind, id)' <=> IsOver(kind, id)
        BY <2>1 DEF DispatchInv, EndedOnce, IsOver
    <2>4. \A id : (Returned(id)' <=> Returned(id)) /\ (NotRaised(id)' <=> NotRaised(id))
        BY <2>1 DEF Returned, NotRaised
    <2>5. ~ UNCHANGED stack
        <3>1. UnderWay(kd, i)'
            BY <2>1, <2>2
        <3>2. UNCHANGED stack => (UnderWay(kd, i)' <=> UnderWay(kd, i))
            BY DEF UnderWay
        <3> QED
            BY <3>1, <3>2
    <2> QED
        BY <2>1, <2>2, <2>3, <2>4, <2>5
<1>3. CASE ended' = Dispatch!End(kd, i, how) /\ UNCHANGED stack
    <2>1. ended' = ended \cup {[kind |-> kd, id |-> i, how |-> how]} /\ EndedOnce
        BY <1>3 DEF Dispatch!End, DispatchInv
    <2>2. /\ EndedOnce'
          /\ \A kind, id : IsOver(kind, id)' <=> IsOver(kind, id) \/ (kind = kd /\ id = i)
          /\ \A id : Returned(id)' <=> Returned(id) \/ (kd = "task" /\ id = i /\ how = "returned")
          /\ \A id : NotRaised(id)' <=> NotRaised(id) \/ (kd = "signal" /\ id = i /\ how # "raised")
        BY <2>1, OutcomeAdded
    <2>3. stack \in Seq(Dispatch!Frame)
        BY DispatchTypesFacts DEF DispatchInv
    <2>4. /\ stack' \in Seq(Dispatch!Frame) /\ StackOnce'
          /\ \A kind, id : UnderWay(kind, id)' <=> UnderWay(kind, id)
        BY <1>3, <2>3 DEF DispatchInv, StackOnce, UnderWay
    <2> QED
        BY <1>3, <2>2, <2>4
<1> QED
    BY <1>2, <1>3

LEMMA ItemHandled ==
    ASSUME DispatchInv, NEW kd \in {"message", "signal", "event"}, NEW n, NEW i \in Nat, NEW src \in Nat,
           ~ UnderWay(kd, i), ~ IsOver(kd, i), Dispatch!Handle(kd, n, i, src)
    PROVE  /\ stack' \in Seq(Dispatch!Frame) /\ StackOnce' /\ EndedOnce'
           /\ \A kind \in Dispatch!Kinds : \A id :
                 /\ UnderWay(kind, id)' \/ IsOver(kind, id)'
                        <=> UnderWay(kind, id) \/ IsOver(kind, id) \/ (kind = kd /\ id = i)
                 /\ UnderWay(kind, id)' /\ IsOver(kind, id)' => UnderWay(kind, id) /\ IsOver(kind, id)
           /\ \A id : Returned(id)' <=> Returned(id)
           /\ \A id : NotRaised(id)' <=> NotRaised(id) \/ (kd = "signal" /\ id = i /\ n \notin handlers[kd])
<1>1. kd \in Dispatch!Kinds /\ kd # "task"
    BY DEF Dispatch!Kinds
<1>2. PICK f : f = [kind |-> kd, id |-> i, at |-> 1, of |-> 1, source |-> src]
    OBVIOUS
<1>3. f \in Dispatch!Frame /\ f.kind = kd /\ f.id = i
    BY <1>1, <1>2 DEF Dispatch!Frame
<1>4. IF n \in handlers[kd] THEN stack' = Append(stack, f) /\ UNCHANGED ended
      ELSE ended' = Dispatch!End(kd, i, "no_handler") /\ UNCHANGED stack
    BY <1>2 DEF Dispatch!Handle, Dispatch!Call
<1>5. UNCHANGED stack <=> n \notin handlers[kd]
    <2>1. Len(stack) \in Nat /\ stack \in Seq(Dispatch!Frame)
        BY DispatchTypesFacts DEF DispatchInv
    <2>2. Append(stack, f) # stack
        <3>1. Len(Append(stack, f)) = Len(stack) + 1
            BY <1>3, <2>1, AppendFacts
        <3> QED
            BY <2>1, <3>1
    <2> QED
        BY <1>4, <2>2
<1>6. \/ \E g \in Dispatch!Frame : g.kind = kd /\ g.id = i /\ stack' = Append(stack, g) /\ UNCHANGED ended
      \/ ended' = Dispatch!End(kd, i, "no_handler") /\ UNCHANGED stack
    BY <1>3, <1>4
<1>7. /\ stack' \in Seq(Dispatch!Frame) /\ StackOnce' /\ EndedOnce'
      /\ \A kind \in Dispatch!Kinds : \A id :
            /\ UnderWay(kind, id)' \/ IsOver(kind, id)'
                   <=> UnderWay(kind, id) \/ IsOver(kind, id) \/ (kind = kd /\ id = i)
            /\ UnderWay(kind, id)' /\ IsOver(kind, id)' => UnderWay(kind, id) /\ IsOver(kind, id)
      /\ \A id : Returned(id)' <=> Returned(id)
      /\ \A id : NotRaised(id)' <=> NotRaised(id) \/ (kd = "signal" /\ id = i /\ UNCHANGED stack /\ "no_handler" # "raised")
    BY <1>1, <1>6, ItemPlaced
<1> QED
    BY <1>5, <1>7

\* A service other than the scheduler does something to an item of its kind.
LEMMA ItemSteps ==
    ASSUME DispatchInv, NEW kd \in Dispatch!Kinds, NEW i \in Nat, kd # "task",
           IsBorn(kd, i) <=> Waits(kd, i), IsBorn(kd, i)' => ~ Waits(kd, i)',
           IsBorn(kd, i)', ~ UnderWay(kd, i), ~ IsOver(kd, i),
           \A kind \in Dispatch!Kinds : \A id \in Nat :
               ~ (kind = kd /\ id = i) => (Waits(kind, id)' <=> Waits(kind, id)) /\ (IsBorn(kind, id)' <=> IsBorn(kind, id)),
           \A kind \in Dispatch!Kinds : \A id :
               /\ UnderWay(kind, id)' \/ IsOver(kind, id)'
                        <=> UnderWay(kind, id) \/ IsOver(kind, id) \/ (kind = kd /\ id = i)
               /\ UnderWay(kind, id)' /\ IsOver(kind, id)' => UnderWay(kind, id) /\ IsOver(kind, id)
    PROVE  ItemsOK'
<1> SUFFICES ASSUME NEW kind \in Dispatch!Kinds, NEW id \in Nat
             PROVE  /\ IsBorn(kind, id)' <=> Waits(kind, id)' \/ UnderWay(kind, id)' \/ IsOver(kind, id)'
                    /\ ~ (Waits(kind, id)' /\ UnderWay(kind, id)') /\ ~ (Waits(kind, id)' /\ IsOver(kind, id)')
                    /\ ~ (UnderWay(kind, id)' /\ IsOver(kind, id)')
    BY DEF ItemsOK
<1>1. /\ IsBorn(kind, id) <=> Waits(kind, id) \/ UnderWay(kind, id) \/ IsOver(kind, id)
      /\ ~ (Waits(kind, id) /\ UnderWay(kind, id)) /\ ~ (Waits(kind, id) /\ IsOver(kind, id))
      /\ ~ (UnderWay(kind, id) /\ IsOver(kind, id))
    BY DEF DispatchInv, ItemsOK
<1>2. CASE kind = kd /\ id = i
    BY <1>1, <1>2
<1>3. CASE ~ (kind = kd /\ id = i)
    BY <1>1, <1>3
<1> QED
    BY <1>2, <1>3

\* What the other services leave alone in the scheduler.
LEMMA SchedulerLeft ==
    ASSUME DispatchInv, UNCHANGED <<tasks, ready>>
    PROVE  /\ ReadyOnce' /\ ReadySorted'
           /\ (\A id : Returned(id)' <=> Returned(id)) => TasksTell'
<1>1. ReadyOnce' /\ ReadySorted'
    BY DEF DispatchInv, QueuesOK, ReadyOnce, ReadySorted
<1>2. (\A id : Returned(id)' <=> Returned(id)) => TasksTell'
    BY DEF DispatchInv, TasksTell
<1> QED
    BY <1>1, <1>2

LEMMA HandlerRegistered ==
    ASSUME DispatchInv, NEW kind \in {"message", "signal", "event"}, NEW n \in Labels, Dispatch!RegisterHandler(kind, n)
    PROVE  DispatchInv'
<1>1. /\ handlers' = [handlers EXCEPT ![kind] = @ \cup {n}]
      /\ UNCHANGED <<tasks, ready, policies, messages, queues, channel, trapLog, signals, subscribers, busChannel,
                     published, events, emitted, taken, ended, stack>>
    BY DEF Dispatch!RegisterHandler, Dispatch!scheduler, Dispatch!ipc, Dispatch!signaling, Dispatch!bus,
       Dispatch!runtime, Dispatch!history
<1>2. handlers' \in [{"message", "signal", "event"} -> SUBSET Labels]
    BY <1>1, DispatchTypesFacts DEF DispatchInv
<1>3. DispatchTypes'
    BY <1>1, <1>2 DEF DispatchInv, DispatchTypes, Dispatch!TypeOK
<1>4. StackOnce' /\ \A kd, id : UnderWay(kd, id)' <=> UnderWay(kd, id)
    BY <1>1 DEF DispatchInv, StackOnce, UnderWay
<1> QED
    BY <1>1, <1>3, <1>4, NoItemMoves

LEMMA BusChannelCreated == ASSUME DispatchInv, NEW n \in Labels, Dispatch!CreateBusChannel(n) PROVE DispatchInv'
<1>1. /\ subscribers' = Append(subscribers, 0) /\ busChannel' = [busChannel EXCEPT ![n] = Len(subscribers')]
      /\ UNCHANGED <<tasks, ready, policies, messages, queues, channel, trapLog, signals,
                     published, events, emitted, taken, ended, handlers, stack>>
    BY DEF Dispatch!CreateBusChannel, Dispatch!scheduler, Dispatch!ipc, Dispatch!signaling,
       Dispatch!runtime, Dispatch!history
<1>2. /\ subscribers \in Seq(Nat) /\ Len(subscribers) \in Nat /\ 0 \in Nat
      /\ busChannel \in [Labels -> 0 .. Len(subscribers)]
    BY DispatchTypesFacts DEF DispatchInv
<1>3. subscribers' \in Seq(Nat) /\ Len(subscribers') = Len(subscribers) + 1
    BY <1>1, <1>2, AppendFacts
<1>4. busChannel' \in [Labels -> 0 .. Len(subscribers')]
    <2>1. 0 .. Len(subscribers) \subseteq 0 .. Len(subscribers') /\ Len(subscribers') \in 0 .. Len(subscribers')
        BY <1>2, <1>3
    <2> QED
        BY <1>1, <1>2, <2>1
<1>5. DispatchTypes'
    BY <1>1, <1>3, <1>4 DEF DispatchInv, DispatchTypes, Dispatch!TypeOK
<1>6. StackOnce' /\ \A kd, id : UnderWay(kd, id)' <=> UnderWay(kd, id)
    BY <1>1 DEF DispatchInv, StackOnce, UnderWay
<1> QED
    BY <1>1, <1>5, <1>6, NoItemMoves

LEMMA BusSubscribed == ASSUME DispatchInv, NEW n \in Labels, Dispatch!Subscribe(n) PROVE DispatchInv'
<1>1. /\ busChannel[n] # 0 /\ subscribers' = [subscribers EXCEPT ![busChannel[n]] = @ + 1]
      /\ UNCHANGED <<tasks, ready, policies, messages, queues, channel, trapLog, signals, busChannel,
                     published, events, emitted, taken, ended, handlers, stack>>
    BY DEF Dispatch!Subscribe, Dispatch!ChannelSubscribe, Dispatch!scheduler, Dispatch!ipc, Dispatch!signaling,
       Dispatch!runtime, Dispatch!history
<1>2. /\ subscribers \in Seq(Nat) /\ Len(subscribers) \in Nat /\ DOMAIN subscribers = 1 .. Len(subscribers)
      /\ busChannel \in [Labels -> 0 .. Len(subscribers)]
    BY DispatchTypesFacts DEF DispatchInv
<1>3. PICK c : c = busChannel[n]
    OBVIOUS
<1>4. c \in DOMAIN subscribers
    BY <1>1, <1>2, <1>3
<1>5. PICK v : v = subscribers[c] + 1
    OBVIOUS
<1>6. v \in Nat
    BY <1>2, <1>4, <1>5
<1>7. subscribers' = [subscribers EXCEPT ![c] = v]
    BY <1>1, <1>3, <1>5
<1>8. subscribers' \in Seq(Nat) /\ Len(subscribers') = Len(subscribers)
    BY <1>2, <1>4, <1>6, <1>7
<1>9. DispatchTypes'
    BY <1>1, <1>8 DEF DispatchInv, DispatchTypes, Dispatch!TypeOK
<1>10. StackOnce' /\ \A kd, id : UnderWay(kd, id)' <=> UnderWay(kd, id)
    BY <1>1 DEF DispatchInv, StackOnce, UnderWay
<1> QED
    BY <1>1, <1>9, <1>10, NoItemMoves

LEMMA SignalRaised == ASSUME DispatchInv, NEW n \in Labels, Dispatch!RaiseSignal(n) PROVE DispatchInv'
<1>1. PICK i : i = signals + 1
    OBVIOUS
<1>2. /\ signals' = i /\ Dispatch!Handle("signal", n, i, 0)
      /\ trapLog' = IF n \in handlers["signal"] THEN trapLog ELSE Append(trapLog, i)
      /\ UNCHANGED <<tasks, ready, policies, messages, queues, channel, subscribers, busChannel,
                     published, events, emitted, taken, handlers>>
    BY <1>1 DEF Dispatch!RaiseSignal, Dispatch!scheduler, Dispatch!ipc, Dispatch!bus, Dispatch!runtime
<1>3. signals \in Nat /\ trapLog \in Seq(1 .. signals) /\ Len(trapLog) \in Nat /\ DOMAIN trapLog = 1 .. Len(trapLog)
    BY DispatchTypesFacts DEF DispatchInv
<1>4. i \in Nat /\ 1 .. signals \subseteq 1 .. i /\ i \in 1 .. i /\ i \notin 1 .. signals
      /\ \A x \in 1 .. i : x \in 1 .. signals \/ x = i
    BY <1>1, <1>3
<1>5. /\ "signal" \in Dispatch!Kinds /\ ~ IsBorn("signal", i) /\ IsBorn("signal", i)'
      /\ \A kind \in Dispatch!Kinds : \A id \in Nat :
            ~ (kind = "signal" /\ id = i) => (IsBorn(kind, id)' <=> IsBorn(kind, id))
    <2>1. \A id \in Nat : (IsBorn("signal", id) <=> id \in 1 .. signals) /\ (IsBorn("signal", id)' <=> id \in 1 .. i)
        BY <1>2 DEF IsBorn, Dispatch!Born
    <2>2. \A kind \in Dispatch!Kinds : \A id : kind # "signal" => (IsBorn(kind, id)' <=> IsBorn(kind, id))
        BY <1>2 DEF IsBorn, Dispatch!Born, Dispatch!Kinds
    <2>3. "signal" \in Dispatch!Kinds
        BY DEF Dispatch!Kinds
    <2> QED
        BY <1>4, <2>1, <2>2, <2>3
<1>6. ~ Waits("signal", i) /\ ~ UnderWay("signal", i) /\ ~ IsOver("signal", i)
    BY <1>4, <1>5 DEF DispatchInv, ItemsOK
<1>7. /\ stack' \in Seq(Dispatch!Frame) /\ StackOnce' /\ EndedOnce'
      /\ \A kind \in Dispatch!Kinds : \A id :
            /\ UnderWay(kind, id)' \/ IsOver(kind, id)'
                   <=> UnderWay(kind, id) \/ IsOver(kind, id) \/ (kind = "signal" /\ id = i)
            /\ UnderWay(kind, id)' /\ IsOver(kind, id)' => UnderWay(kind, id) /\ IsOver(kind, id)
      /\ \A id : Returned(id)' <=> Returned(id)
      /\ \A id : NotRaised(id)' <=> NotRaised(id) \/ (id = i /\ n \notin handlers["signal"])
    <2>1. 0 \in Nat /\ "signal" \in {"message", "signal", "event"}
        OBVIOUS
    <2> QED
        BY <1>2, <1>4, <1>6, <2>1, ItemHandled
<1>8. \A kind, id : Waits(kind, id)' <=> Waits(kind, id)
    BY <1>2 DEF Waits
<1>9. ~ Waits("signal", i)' /\ "signal" # "task"
    BY <1>6, <1>8
<1>10. ItemsOK'
    BY <1>4, <1>5, <1>6, <1>7, <1>8, <1>9, ItemSteps
<1>11. trapLog' \in Seq(1 .. i) /\ TrapsTell'
    <2>1. trapLog \in Seq(1 .. i) /\ \A k \in DOMAIN trapLog : trapLog[k] \in 1 .. signals
        BY <1>3, <1>4, SeqWider
    <2>2. ~ NotRaised(i)
        BY <1>6 DEF NotRaised, IsOver
    <2>3. CASE n \in handlers["signal"]
        <3>1. trapLog' = trapLog /\ \A id : NotRaised(id)' <=> NotRaised(id)
            BY <1>2, <1>7, <2>3
        <3> QED
            BY <2>1, <3>1 DEF DispatchInv, TrapsTell
    <2>4. CASE n \notin handlers["signal"]
        <3> DEFINE L == Len(trapLog)
        <3>1. /\ trapLog' \in Seq(1 .. i) /\ DOMAIN trapLog' = 1 .. L + 1 /\ trapLog'[L + 1] = i
              /\ \A k \in 1 .. L : trapLog'[k] = trapLog[k]
            BY <1>2, <1>4, <2>1, <2>4, AppendFacts
        <3>2. /\ L \in Nat /\ DOMAIN trapLog = 1 .. L /\ L + 1 \in 1 .. L + 1
              /\ \A k \in 1 .. L : k \in 1 .. L + 1
              /\ \A k \in 1 .. L + 1 : k \in 1 .. L \/ k = L + 1
            BY <1>3
        <3> HIDE DEF L
        <3>3. \A j, k \in 1 .. L + 1 : trapLog'[j] = trapLog'[k] => j = k
            BY <1>4, <2>1, <3>1, <3>2 DEF DispatchInv, TrapsTell
        <3>4. \A id : NotRaised(id)' <=> NotRaised(id) \/ id = i
            BY <1>7, <2>4
        <3>5. \A id \in Nat : (\E k \in 1 .. L + 1 : trapLog'[k] = id) <=> (\E k \in 1 .. L : trapLog[k] = id) \/ id = i
            BY <3>1, <3>2
        <3>6. \A id \in Nat : (\E k \in 1 .. L : trapLog[k] = id) <=> NotRaised(id)
            BY <3>2 DEF DispatchInv, TrapsTell
        <3>7. \A id \in Nat : (\E k \in DOMAIN trapLog' : trapLog'[k] = id) <=> NotRaised(id)'
            BY <3>1, <3>4, <3>5, <3>6
        <3> QED
            BY <3>1, <3>3, <3>7 DEF TrapsTell
    <2> QED
        BY <2>3, <2>4
<1>12. DispatchTypes'
    BY <1>2, <1>4, <1>7, <1>11 DEF DispatchInv, DispatchTypes, Dispatch!TypeOK
<1>13. QueuesOK'
    BY <1>2 DEF DispatchInv, QueuesOK, ReadyOnce, QueuesRise, QueuesApart, Rises
<1>14. TasksTell' /\ ReadySorted'
    BY <1>2, <1>7, SchedulerLeft
<1>15. TakenOK'
    BY <1>2 DEF DispatchInv, TakenOK, MessagesAfter, EventsAfter
<1> QED
    BY <1>7, <1>10, <1>11, <1>12, <1>13, <1>14, <1>15 DEF DispatchInv

LEMMA EventPublished == ASSUME DispatchInv, NEW n \in Labels, Dispatch!Publish(n) PROVE DispatchInv'
<1>1. PICK i : i = published + 1
    OBVIOUS
<1>2. PICK c : c = busChannel[n]
    OBVIOUS
<1>3. /\ published' = i /\ c # 0
      /\ UNCHANGED <<tasks, ready, policies, messages, queues, channel, subscribers, busChannel,
                     trapLog, signals, events, emitted, taken, handlers>>
      /\ IF subscribers[c] = 0 THEN ended' = Dispatch!End("publish", i, "returned") /\ UNCHANGED stack
         ELSE stack' = Dispatch!Call("publish", i, subscribers[c], c) /\ UNCHANGED ended
    BY <1>1, <1>2 DEF Dispatch!Publish, Dispatch!ChannelPublish, Dispatch!scheduler, Dispatch!ipc, Dispatch!signaling, Dispatch!runtime
<1>4. /\ published \in Nat /\ subscribers \in Seq(Nat) /\ busChannel \in [Labels -> 0 .. Len(subscribers)]
      /\ DOMAIN subscribers = 1 .. Len(subscribers) /\ Len(subscribers) \in Nat
    BY DispatchTypesFacts DEF DispatchInv
<1>5. i \in Nat /\ c \in Nat /\ subscribers[c] \in Nat /\ i \in 1 .. i /\ i \notin 1 .. published
      /\ \A x \in 1 .. i : x \in 1 .. published \/ x = i
    <2>1. c \in DOMAIN subscribers
        BY <1>2, <1>3, <1>4
    <2> QED
        BY <1>1, <1>4, <2>1
<1>6. /\ "publish" \in Dispatch!Kinds /\ ~ IsBorn("publish", i) /\ IsBorn("publish", i)'
      /\ \A kind \in Dispatch!Kinds : \A id \in Nat :
            ~ (kind = "publish" /\ id = i) => (IsBorn(kind, id)' <=> IsBorn(kind, id))
    <2>1. \A id \in Nat : (IsBorn("publish", id) <=> id \in 1 .. published) /\ (IsBorn("publish", id)' <=> id \in 1 .. i)
        BY <1>3 DEF IsBorn, Dispatch!Born
    <2>2. \A kind \in Dispatch!Kinds : \A id : kind # "publish" => (IsBorn(kind, id)' <=> IsBorn(kind, id))
        BY <1>3 DEF IsBorn, Dispatch!Born, Dispatch!Kinds
    <2>3. "publish" \in Dispatch!Kinds
        BY DEF Dispatch!Kinds
    <2>4. \A x : x \in 1 .. published => x \in 1 .. i
        BY <1>1, <1>4
    <2> QED
        BY <1>5, <2>1, <2>2, <2>3, <2>4
<1>7. ~ Waits("publish", i) /\ ~ UnderWay("publish", i) /\ ~ IsOver("publish", i)
    BY <1>5, <1>6 DEF DispatchInv, ItemsOK
<1>8. \/ \E f \in Dispatch!Frame : f.kind = "publish" /\ f.id = i /\ stack' = Append(stack, f) /\ UNCHANGED ended
      \/ ended' = Dispatch!End("publish", i, "returned") /\ UNCHANGED stack
    <2>1. PICK f : f = [kind |-> "publish", id |-> i, at |-> 1, of |-> subscribers[c], source |-> c]
        OBVIOUS
    <2>2. f \in Dispatch!Frame /\ f.kind = "publish" /\ f.id = i
        BY <1>5, <2>1 DEF Dispatch!Frame, Dispatch!Kinds
    <2>3. Dispatch!Call("publish", i, subscribers[c], c) = Append(stack, f)
        BY <2>1 DEF Dispatch!Call
    <2> QED
        BY <1>3, <2>2, <2>3
<1>9. /\ stack' \in Seq(Dispatch!Frame) /\ StackOnce' /\ EndedOnce'
      /\ \A kind \in Dispatch!Kinds : \A id :
            /\ UnderWay(kind, id)' \/ IsOver(kind, id)'
                   <=> UnderWay(kind, id) \/ IsOver(kind, id) \/ (kind = "publish" /\ id = i)
            /\ UnderWay(kind, id)' /\ IsOver(kind, id)' => UnderWay(kind, id) /\ IsOver(kind, id)
      /\ \A id : Returned(id)' <=> Returned(id)
      /\ \A id : NotRaised(id)' <=> NotRaised(id)
    <2>1. "publish" # "task" /\ "publish" # "signal"
        OBVIOUS
    <2> QED
        BY <1>5, <1>6, <1>7, <1>8, <2>1, ItemPlaced
<1>10. \A kind, id : Waits(kind, id)' <=> Waits(kind, id)
    BY <1>3 DEF Waits
<1>11. ~ Waits("publish", i)' /\ "publish" # "task"
    BY <1>7, <1>10
<1>12. ItemsOK'
    BY <1>5, <1>6, <1>7, <1>9, <1>10, <1>11, ItemSteps
<1>13. DispatchTypes'
    BY <1>3, <1>5, <1>9 DEF DispatchInv, DispatchTypes, Dispatch!TypeOK
<1>14. QueuesOK'
    BY <1>3 DEF DispatchInv, QueuesOK, ReadyOnce, QueuesRise, QueuesApart, Rises
<1>15. TasksTell' /\ ReadySorted'
    BY <1>3, <1>9, SchedulerLeft
<1>16. TrapsTell'
    BY <1>3, <1>9 DEF DispatchInv, TrapsTell
<1>17. TakenOK'
    BY <1>3 DEF DispatchInv, TakenOK, MessagesAfter, EventsAfter
<1> QED
    BY <1>9, <1>12, <1>13, <1>14, <1>15, <1>16, <1>17 DEF DispatchInv

\* An item is added at the end of a queue.
LEMMA EventEmitted == ASSUME DispatchInv, NEW n \in Labels, Dispatch!Emit(n) PROVE DispatchInv'
<1> DEFINE N == Len(emitted)
           L == Len(events)
<1>1. PICK i : i = N + 1
    OBVIOUS
<1>2. /\ emitted \in Seq(Labels) /\ DOMAIN emitted = 1 .. N /\ N \in Nat /\ events \in Seq(1 .. N)
      /\ DOMAIN events = 1 .. L /\ L \in Nat
    <2>1. events \in Seq(DOMAIN emitted) /\ DOMAIN emitted = 1 .. N
        BY DispatchTypesFacts DEF DispatchInv
    <2> QED
        BY <2>1, DispatchTypesFacts DEF DispatchInv
<1>3. /\ emitted' = Append(emitted, n)
      /\ UNCHANGED <<tasks, ready, policies, messages, queues, channel, subscribers, busChannel,
                     trapLog, signals, published, taken, ended, stack, handlers>>
      /\ events' = Append(events, Len(emitted'))
    BY DEF Dispatch!Emit, Dispatch!scheduler, Dispatch!ipc, Dispatch!signaling, Dispatch!bus, Dispatch!history
<1>4. emitted' \in Seq(Labels) /\ Len(emitted') = i /\ DOMAIN emitted' = 1 .. i
    BY <1>1, <1>2, <1>3, AppendFacts
<1>5. /\ i \in Nat /\ i \in 1 .. i /\ i \notin 1 .. N /\ 1 .. N \subseteq 1 .. i /\ \A x \in 1 .. N : x < i
      /\ \A x \in 1 .. i : x \in 1 .. N \/ x = i
    BY <1>1, <1>2
<1>6. /\ events' \in Seq(1 .. i) /\ DOMAIN events' = 1 .. L + 1 /\ events'[L + 1] = i
      /\ \A k \in 1 .. L : events'[k] = events[k]
    <2>1. events \in Seq(1 .. i)
        BY <1>2, <1>5, SeqWider
    <2> QED
        BY <1>3, <1>4, <1>5, <2>1, AppendFacts
<1>7. /\ L + 1 \in 1 .. L + 1 /\ \A k \in 1 .. L : k \in 1 .. L + 1 /\ events[k] \in 1 .. N
      /\ \A k \in 1 .. L + 1 : k \in 1 .. L \/ k = L + 1
    BY <1>2
<1> HIDE DEF L
<1>8. Rises(events)'
    <2> SUFFICES ASSUME NEW j \in 1 .. L + 1, NEW k \in 1 .. L + 1, j < k PROVE events'[j] < events'[k]
        BY <1>6 DEF Rises
    <2>1. j \in 1 .. L
        BY <1>2
    <2>2. CASE k \in 1 .. L
        BY <1>2, <1>6, <2>1, <2>2 DEF DispatchInv, QueuesOK, Rises
    <2>3. CASE k = L + 1
        BY <1>5, <1>6, <1>7, <2>1, <2>3
    <2> QED
        BY <1>7, <2>2, <2>3
<1>9. /\ \A id : Waits("event", id)' <=> Waits("event", id) \/ id = i
      /\ \A kind, id : kind # "event" => (Waits(kind, id)' <=> Waits(kind, id))
    <2>1. \A id : (\E k \in DOMAIN events' : events'[k] = id) <=> (\E k \in DOMAIN events : events[k] = id) \/ id = i
        BY <1>2, <1>6, <1>7
    <2>2. \A id : Waits("event", id) <=> \E k \in DOMAIN events : events[k] = id
        BY ONLY DEF Waits
    <2>3. \A id : Waits("event", id)' <=> \E k \in DOMAIN events' : events'[k] = id
        BY ONLY DEF Waits
    <2>4. ASSUME NEW kind, NEW id, kind # "event" PROVE Waits(kind, id)' <=> Waits(kind, id)
        <3>1. ready' = ready /\ queues' = queues
            BY <1>3
        <3> QED
            BY ONLY <2>4, <3>1 DEF Waits
    <2> QED
        BY ONLY <2>1, <2>2, <2>3, <2>4
<1>10. /\ \A id \in Nat : IsBorn("event", id)' <=> IsBorn("event", id) \/ id = i
       /\ \A kind \in Dispatch!Kinds : \A id : kind # "event" => (IsBorn(kind, id)' <=> IsBorn(kind, id))
       /\ "event" \in Dispatch!Kinds /\ ~ IsBorn("event", i)
    <2>1. \A id \in Nat : (IsBorn("event", id) <=> id \in 1 .. N) /\ (IsBorn("event", id)' <=> id \in 1 .. i)
        BY <1>4 DEF IsBorn, Dispatch!Born
    <2>2. \A kind \in Dispatch!Kinds : \A id : kind # "event" => (IsBorn(kind, id)' <=> IsBorn(kind, id))
        BY <1>3 DEF IsBorn, Dispatch!Born, Dispatch!Kinds
    <2>3. "event" \in Dispatch!Kinds
        BY DEF Dispatch!Kinds
    <2> HIDE DEF N
    <2> QED
        BY <1>5, <2>1, <2>2, <2>3
<1>11. \A kind, id : (UnderWay(kind, id)' <=> UnderWay(kind, id)) /\ (IsOver(kind, id)' <=> IsOver(kind, id))
    BY <1>3 DEF UnderWay, IsOver
<1>12. ItemsOK'
    BY <1>5, <1>9, <1>10, <1>11 DEF DispatchInv, ItemsOK
<1>13. DispatchTypes'
    <2>1. events' \in Seq(DOMAIN emitted')
        BY <1>4, <1>6
    <2> QED
        BY <1>3, <1>4, <2>1 DEF DispatchInv, DispatchTypes, Dispatch!TypeOK
<1>14. QueuesOK'
    BY <1>3, <1>8 DEF DispatchInv, QueuesOK, ReadyOnce, QueuesRise, QueuesApart, Rises
<1>15. StackOnce' /\ EndedOnce'
    BY <1>3 DEF DispatchInv, StackOnce, EndedOnce
<1>16. TasksTell' /\ ReadySorted' /\ TrapsTell'
    <2>1. \A id : (Returned(id)' <=> Returned(id)) /\ (NotRaised(id)' <=> NotRaised(id))
        BY <1>3 DEF Returned, NotRaised
    <2> QED
        BY <1>3, <2>1, SchedulerLeft DEF DispatchInv, TrapsTell
<1>17. TakenOK'
    <2>1. \A t : MessagesAfter(t) => MessagesAfter(t)'
        BY <1>3 DEF MessagesAfter
    <2>2. ASSUME NEW t, EventsAfter(t) PROVE EventsAfter(t)'
        <3>1. t.id \in 1 .. N /\ \A k \in DOMAIN events : t.id < events[k]
            BY <2>2 DEF EventsAfter
        <3>2. \A k \in 1 .. L + 1 : t.id < events'[k]
            BY <1>2, <1>5, <1>6, <1>7, <3>1
        <3>3. t.id \in 1 .. i
            BY <1>5, <3>1
        <3> QED
            BY <1>4, <1>6, <3>2, <3>3 DEF EventsAfter
    <2>3. PICK tk : tk = taken
        OBVIOUS
    <2>4. \A k \in DOMAIN tk : /\ tk[k].kind = "message" => MessagesAfter(tk[k])'
                               /\ tk[k].kind = "event" => EventsAfter(tk[k])'
        BY <2>1, <2>2, <2>3 DEF DispatchInv, TakenOK
    <2> QED
        BY <1>3, <2>3, <2>4 DEF DispatchInv, TakenOK
<1> QED
    BY <1>12, <1>13, <1>14, <1>15, <1>16, <1>17 DEF DispatchInv

-----------------------------------------------------------------------------
(* An item is taken from a queue. *)

LEMMA OrderKept ==
    ASSUME DispatchInv, NEW T \in Taking, taken' = Append(taken, T),
           \A t : MessagesAfter(t) => MessagesAfter(t)', \A t : EventsAfter(t) => EventsAfter(t)',
           T.kind = "message" => MessagesAfter(T)', T.kind = "event" => EventsAfter(T)',
           \A k \in DOMAIN taken : taken[k].kind = T.kind /\ taken[k].source = T.source => taken[k].id < T.id
    PROVE  taken' \in Seq(Taking) /\ TakenOK'
<1> DEFINE N == Len(taken)
<1>1. /\ taken' \in Seq(Taking) /\ N \in Nat /\ DOMAIN taken' = 1 .. N + 1 /\ DOMAIN taken = 1 .. N /\ taken'[N + 1] = T
      /\ \A k \in 1 .. N : taken'[k] = taken[k]
      /\ \A k \in 1 .. N + 1 : k \in 1 .. N \/ k = N + 1
    BY TakingNoted
<1>2. \A k \in 1 .. N + 1 : k < N + 1 => k \in 1 .. N
    BY <1>1
<1>3. \A j \in 1 .. N : ~ (N + 1 < j)
    BY <1>1
<1>4. ~ (N + 1 < N + 1)
    BY <1>1
<1>5. PICK tk : tk = taken'
    OBVIOUS
<1> HIDE DEF N
<1>6. ASSUME NEW k \in 1 .. N + 1
      PROVE  /\ tk[k].kind = "message" => MessagesAfter(tk[k])'
             /\ tk[k].kind = "event" => EventsAfter(tk[k])'
    <2>1. CASE k = N + 1
        BY <1>1, <1>5, <2>1
    <2>2. CASE k \in 1 .. N
        <3>1. /\ taken[k].kind = "message" => MessagesAfter(taken[k])
              /\ taken[k].kind = "event" => EventsAfter(taken[k])
            BY <1>1, <2>2 DEF DispatchInv, TakenOK
        <3>2. PICK t : t = taken[k]
            OBVIOUS
        <3>3. tk[k] = t
            BY <1>1, <1>5, <2>2, <3>2
        <3> QED
            BY <3>1, <3>2, <3>3
    <2> QED
        BY <1>1, <2>1, <2>2
<1>7. ASSUME NEW j \in 1 .. N + 1, NEW k \in 1 .. N + 1, j < k, tk[j].kind = tk[k].kind, tk[j].kind # "task",
             tk[j].source = tk[k].source
      PROVE  tk[j].id < tk[k].id
    <2>1. j \in 1 .. N
        BY <1>1, <1>3, <1>4, <1>7
    <2>2. CASE k = N + 1
        BY <1>1, <1>5, <1>7, <2>1, <2>2
    <2>3. CASE k \in 1 .. N
        BY <1>1, <1>5, <1>7, <2>1, <2>3 DEF DispatchInv, TakenOK
    <2> QED
        BY <1>1, <2>2, <2>3
<1> QED
    BY <1>1, <1>5, <1>6, <1>7 DEF TakenOK

LEMMA EventTaken == ASSUME DispatchInv, Dispatch!Tick PROVE DispatchInv'
<1>1. PICK h : h = Head(events)
    OBVIOUS
<1>2. PICK n : n = emitted[h]
    OBVIOUS
<1>3. PICK T : T = [kind |-> "event", id |-> h, source |-> 0]
    OBVIOUS
<1>4. /\ events # <<>> /\ events' = Tail(events) /\ taken' = Append(taken, T) /\ Dispatch!Handle("event", n, h, 0)
      /\ UNCHANGED <<tasks, ready, policies, messages, queues, channel, trapLog, signals, subscribers, busChannel,
                     published, emitted, handlers>>
    BY <1>1, <1>2, <1>3 DEF Dispatch!Tick, Dispatch!Rest, Dispatch!Take, Dispatch!scheduler, Dispatch!ipc,
                            Dispatch!signaling, Dispatch!bus
<1>5. PICK S : S = DOMAIN emitted
    OBVIOUS
<1>6. /\ events \in Seq(S) /\ S = 1 .. Len(emitted) /\ Len(emitted) \in Nat /\ S \in SUBSET Nat /\ Rises(events)
      /\ DOMAIN events \subseteq Nat
    <2>1. /\ events \in Seq(DOMAIN emitted) /\ DOMAIN emitted = 1 .. Len(emitted) /\ Len(emitted) \in Nat
          /\ DOMAIN events = 1 .. Len(events)
        BY DispatchTypesFacts DEF DispatchInv
    <2>2. \A m : 1 .. m \subseteq Nat
        OBVIOUS
    <2> QED
        BY <1>5, <2>1, <2>2 DEF DispatchInv, QueuesOK
<1>7. \A j, k \in DOMAIN events : events[j] = events[k] => j = k
    BY <1>6, RisesOnce
<1>8. /\ Tail(events) \in Seq(S) /\ Head(events) \in S /\ \E k \in DOMAIN events : events[k] = Head(events)
      /\ 1 \in DOMAIN events /\ events[1] = Head(events)
    BY <1>4, <1>6, <1>7, HeadTaken
<1>9. \A x : (\E k \in DOMAIN Tail(events) : Tail(events)[k] = x) <=> (\E k \in DOMAIN events : events[k] = x) /\ x # Head(events)
    BY <1>4, <1>6, <1>7, HeadTaken
<1>10. \A j \in DOMAIN Tail(events) : /\ j + 1 \in DOMAIN events /\ Tail(events)[j] = events[j + 1]
                                      /\ j + 1 \in Nat /\ j \in Nat /\ 1 < j + 1
    BY <1>4, <1>6, <1>7, HeadTaken
<1>11. h \in Nat /\ h \in S /\ events[1] = h /\ 1 \in DOMAIN events
    BY <1>1, <1>6, <1>8
<1>12. /\ \A x : (\E k \in DOMAIN events' : events'[k] = x) <=> (\E k \in DOMAIN events : events[k] = x) /\ x # h
       /\ \A j \in DOMAIN events' : j + 1 \in DOMAIN events /\ events'[j] = events[j + 1] /\ j \in Nat /\ 1 < j + 1
       /\ events' \in Seq(S)
    BY <1>1, <1>4, <1>8, <1>9, <1>10
<1>13. /\ \A id : Waits("event", id)' <=> Waits("event", id) /\ id # h
       /\ \A kind, id : kind # "event" => (Waits(kind, id)' <=> Waits(kind, id))
       /\ Waits("event", h) /\ ~ Waits("event", h)'
    <2>1. \A id : Waits("event", id)' <=> Waits("event", id) /\ id # h
        BY <1>12 DEF Waits
    <2>2. \A kind, id : kind # "event" => (Waits(kind, id)' <=> Waits(kind, id))
        BY <1>4 DEF Waits
    <2>3. Waits("event", h)
        BY <1>11 DEF Waits
    <2> QED
        BY <2>1, <2>2, <2>3
<1>14. \A kind \in Dispatch!Kinds : \A id : IsBorn(kind, id)' <=> IsBorn(kind, id)
    BY <1>4 DEF IsBorn, Dispatch!Born, Dispatch!Kinds
<1>15. /\ IsBorn("event", h) /\ IsBorn("event", h)' /\ ~ UnderWay("event", h) /\ ~ IsOver("event", h)
       /\ "event" \in Dispatch!Kinds /\ "event" # "task"
    <2>1. "event" \in Dispatch!Kinds
        BY DEF Dispatch!Kinds
    <2>2. IsBorn("event", h) /\ ~ UnderWay("event", h) /\ ~ IsOver("event", h)
        BY <1>11, <1>13, <2>1 DEF DispatchInv, ItemsOK
    <2> QED
        BY <1>14, <2>1, <2>2
<1>16. /\ stack' \in Seq(Dispatch!Frame) /\ StackOnce' /\ EndedOnce'
       /\ \A kind \in Dispatch!Kinds : \A id :
             /\ UnderWay(kind, id)' \/ IsOver(kind, id)'
                    <=> UnderWay(kind, id) \/ IsOver(kind, id) \/ (kind = "event" /\ id = h)
             /\ UnderWay(kind, id)' /\ IsOver(kind, id)' => UnderWay(kind, id) /\ IsOver(kind, id)
       /\ \A id : Returned(id)' <=> Returned(id)
       /\ \A id : NotRaised(id)' <=> NotRaised(id)
    <2>1. 0 \in Nat /\ "event" \in {"message", "signal", "event"} /\ "event" # "signal"
        OBVIOUS
    <2> QED
        BY <1>4, <1>11, <1>15, <2>1, ItemHandled
<1>17. ItemsOK'
    <2>1. \A kind \in Dispatch!Kinds : \A id \in Nat :
             ~ (kind = "event" /\ id = h) => (Waits(kind, id)' <=> Waits(kind, id)) /\ (IsBorn(kind, id)' <=> IsBorn(kind, id))
        BY <1>13, <1>14
    <2> QED
        BY <1>11, <1>13, <1>15, <1>16, <2>1, ItemSteps
<1>18. Rises(events)'
    <2> SUFFICES ASSUME NEW j \in DOMAIN events', NEW k \in DOMAIN events', j < k PROVE events'[j] < events'[k]
        BY DEF Rises
    <2>1. j + 1 < k + 1
        BY <1>12
    <2> QED
        BY <1>6, <1>12, <2>1 DEF Rises
<1>19. \A k \in DOMAIN events' : h < events'[k]
    BY <1>6, <1>11, <1>12 DEF Rises
<1>20. taken' \in Seq(Taking) /\ TakenOK'
    <2>1. T \in Taking /\ T.kind = "event" /\ T.id = h /\ T.source = 0
        BY <1>3, <1>11 DEF Taking
    <2>2. \A t : MessagesAfter(t) => MessagesAfter(t)'
        BY <1>4 DEF MessagesAfter
    <2>3. \A t : EventsAfter(t) => EventsAfter(t)'
        BY <1>4, <1>12 DEF EventsAfter
    <2>4. EventsAfter(T)'
        BY <1>4, <1>6, <1>11, <1>19, <2>1 DEF EventsAfter
    <2>5. \A k \in DOMAIN taken : taken[k].kind = T.kind /\ taken[k].source = T.source => taken[k].id < T.id
        BY <1>11, <2>1 DEF DispatchInv, TakenOK, EventsAfter
    <2> QED
        BY <1>4, <2>1, <2>2, <2>3, <2>4, <2>5, OrderKept
<1>21. DispatchTypes'
    <2>1. events' \in Seq(DOMAIN emitted')
        BY <1>4, <1>5, <1>12
    <2> QED
        BY <1>4, <1>16, <1>20, <2>1 DEF DispatchInv, DispatchTypes, Dispatch!TypeOK
<1>22. QueuesOK'
    BY <1>4, <1>18 DEF DispatchInv, QueuesOK, ReadyOnce, QueuesRise, QueuesApart, Rises
<1>23. TasksTell' /\ ReadySorted'
    BY <1>4, <1>16, SchedulerLeft
<1>24. TrapsTell'
    BY <1>4, <1>16 DEF DispatchInv, TrapsTell
<1> QED
    BY <1>16, <1>17, <1>20, <1>21, <1>22, <1>23, <1>24 DEF DispatchInv

LEMMA ChannelCreated == ASSUME DispatchInv, NEW n \in Labels, Dispatch!CreateChannel(n) PROVE DispatchInv'
<1> DEFINE C == Len(queues)
           M == DOMAIN messages
<1>1. /\ queues' = Append(queues, <<>>) /\ channel' = [channel EXCEPT ![n] = Len(queues')]
      /\ UNCHANGED <<tasks, ready, policies, messages, trapLog, signals, subscribers, busChannel,
                     published, events, emitted, taken, ended, handlers, stack>>
    BY DEF Dispatch!CreateChannel, Dispatch!scheduler, Dispatch!signaling, Dispatch!bus, Dispatch!runtime, Dispatch!history
<1>2. /\ queues \in Seq(Seq(M)) /\ DOMAIN queues = 1 .. C /\ C \in Nat /\ channel \in [Labels -> 0 .. C]
    BY DispatchTypesFacts DEF DispatchInv
<1>3. PICK S : S = Seq(M)
    OBVIOUS
<1>4. <<>> \in S /\ queues \in Seq(S)
    BY <1>2, <1>3
<1>5. /\ queues' \in Seq(S) /\ Len(queues') = C + 1 /\ DOMAIN queues' = 1 .. C + 1 /\ queues'[C + 1] = <<>>
      /\ \A k \in 1 .. C : queues'[k] = queues[k]
    BY <1>1, <1>4, AppendFacts
<1>6. /\ \A k \in 1 .. C + 1 : k \in 1 .. C \/ k = C + 1
      /\ \A k \in 1 .. C : k \in 1 .. C + 1
      /\ \A k \in 0 .. C : k \in 0 .. C + 1
      /\ C + 1 \in 0 .. C + 1
    BY <1>2
<1> HIDE DEF C
<1>7. channel' \in [Labels -> 0 .. C + 1]
    BY <1>1, <1>2, <1>5, <1>6
<1>8. DOMAIN queues'[C + 1] = {}
    BY <1>5
<1>9. \A c \in 1 .. C + 1 : c \in 1 .. C \/ DOMAIN queues'[c] = {}
    BY <1>6, <1>8
<1>10. \A kind, id : Waits(kind, id)' <=> Waits(kind, id)
    <2>1. \A id : (\E c \in 1 .. C + 1 : \E k \in DOMAIN queues'[c] : queues'[c][k] = id)
                     <=> \E c \in 1 .. C : \E k \in DOMAIN queues[c] : queues[c][k] = id
        BY <1>5, <1>6, <1>9
    <2> QED
        BY <1>1, <1>2, <1>5, <2>1 DEF Waits
<1>11. \A kind \in Dispatch!Kinds : \A id : IsBorn(kind, id)' <=> IsBorn(kind, id)
    BY <1>1 DEF IsBorn, Dispatch!Born, Dispatch!Kinds
<1>12. \A kind, id : (UnderWay(kind, id)' <=> UnderWay(kind, id)) /\ (IsOver(kind, id)' <=> IsOver(kind, id))
    BY <1>1 DEF UnderWay, IsOver
<1>13. ItemsOK'
    BY <1>10, <1>11, <1>12 DEF DispatchInv, ItemsOK
<1>14. DispatchTypes'
    <2>1. /\ queues' \in Seq(Seq(DOMAIN messages')) /\ channel' \in [Labels -> 0 .. Len(queues')]
        BY <1>1, <1>3, <1>5, <1>7
    <2> QED
        BY <1>1, <2>1 DEF DispatchInv, DispatchTypes, Dispatch!TypeOK
<1>15. QueuesRise' /\ QueuesApart'
    <2>1. \A c \in 1 .. C : Rises(queues[c])
        BY <1>2 DEF DispatchInv, QueuesOK, QueuesRise
    <2>2. \A q : DOMAIN q = {} => Rises(q)
        BY DEF Rises
    <2>3. PICK qs : qs = queues'
        OBVIOUS
    <2>4. \A c \in 1 .. C + 1 : Rises(qs[c])
        BY <1>5, <1>9, <2>1, <2>2, <2>3
    <2>5. QueuesRise'
        BY <1>5, <2>3, <2>4 DEF QueuesRise, Rises
    <2>6. QueuesApart'
        <3> SUFFICES ASSUME NEW c \in 1 .. C + 1, NEW d \in 1 .. C + 1,
                            NEW j \in DOMAIN queues'[c], NEW k \in DOMAIN queues'[d], queues'[c][j] = queues'[d][k]
                     PROVE  c = d
            BY <1>5 DEF QueuesApart
        <3>1. c \in 1 .. C /\ d \in 1 .. C
            BY <1>9
        <3>2. j \in DOMAIN queues[c] /\ k \in DOMAIN queues[d] /\ queues[c][j] = queues[d][k]
            BY <1>5, <3>1
        <3> QED
            BY <1>2, <3>1, <3>2 DEF DispatchInv, QueuesOK, QueuesApart
    <2> QED
        BY <2>5, <2>6
<1>16. QueuesOK'
    BY <1>1, <1>15 DEF DispatchInv, QueuesOK, ReadyOnce, Rises
<1>17. StackOnce' /\ EndedOnce'
    BY <1>1 DEF DispatchInv, StackOnce, EndedOnce
<1>18. TasksTell' /\ ReadySorted' /\ TrapsTell'
    <2>1. \A id : (Returned(id)' <=> Returned(id)) /\ (NotRaised(id)' <=> NotRaised(id))
        BY <1>1 DEF Returned, NotRaised
    <2> QED
        BY <1>1, <2>1, SchedulerLeft DEF DispatchInv, TrapsTell
<1>19. TakenOK'
    <2>1. \A t : MessagesAfter(t) => MessagesAfter(t)'
        BY <1>1, <1>2, <1>5, <1>6 DEF MessagesAfter
    <2>2. \A t : EventsAfter(t) => EventsAfter(t)'
        BY <1>1 DEF EventsAfter
    <2>3. PICK tk : tk = taken
        OBVIOUS
    <2>4. \A k \in DOMAIN tk : /\ tk[k].kind = "message" => MessagesAfter(tk[k])'
                               /\ tk[k].kind = "event" => EventsAfter(tk[k])'
        BY <2>1, <2>2, <2>3 DEF DispatchInv, TakenOK
    <2> QED
        BY <1>1, <2>3, <2>4 DEF DispatchInv, TakenOK
<1> QED
    BY <1>13, <1>14, <1>16, <1>17, <1>18, <1>19 DEF DispatchInv

LEMMA MessageSent == ASSUME DispatchInv, NEW n \in Labels, Dispatch!Send(n) PROVE DispatchInv'
<1> DEFINE N == Len(messages)
           C == Len(queues)
<1>1. PICK i : i = N + 1
    OBVIOUS
<1>2. PICK c : c = channel[n]
    OBVIOUS
<1>3. PICK q : q = queues[c]
    OBVIOUS
<1>4. /\ c # 0 /\ messages' = Append(messages, n) /\ queues' = [queues EXCEPT ![c] = Append(q, Len(messages'))]
      /\ UNCHANGED <<tasks, ready, policies, channel, trapLog, signals, subscribers, busChannel,
                     published, events, emitted, taken, ended, handlers, stack>>
    BY <1>2, <1>3 DEF Dispatch!Send, Dispatch!scheduler, Dispatch!signaling, Dispatch!bus, Dispatch!runtime, Dispatch!history
<1>5. /\ messages \in Seq(Labels) /\ DOMAIN messages = 1 .. N /\ N \in Nat /\ queues \in Seq(Seq(1 .. N))
      /\ DOMAIN queues = 1 .. C /\ C \in Nat /\ channel \in [Labels -> 0 .. C]
    <2>1. queues \in Seq(Seq(DOMAIN messages)) /\ DOMAIN messages = 1 .. N
        BY DispatchTypesFacts DEF DispatchInv
    <2> QED
        BY <2>1, DispatchTypesFacts DEF DispatchInv
<1>6. messages' \in Seq(Labels) /\ Len(messages') = i /\ DOMAIN messages' = 1 .. i
    BY <1>1, <1>4, <1>5, AppendFacts
<1>7. /\ i \in Nat /\ i \in 1 .. i /\ i \notin 1 .. N /\ 1 .. N \subseteq 1 .. i /\ \A x \in 1 .. N : x < i
      /\ \A x \in 1 .. i : x \in 1 .. N \/ x = i
    BY <1>1, <1>5
<1>8. c \in 1 .. C /\ q \in Seq(1 .. N)
    BY <1>2, <1>3, <1>4, <1>5
<1> DEFINE L == Len(q)
<1>9. PICK q1 : q1 = Append(q, i)
    OBVIOUS
<1>10. /\ q1 \in Seq(1 .. i) /\ DOMAIN q1 = 1 .. L + 1 /\ q1[L + 1] = i /\ \A k \in 1 .. L : q1[k] = q[k]
       /\ DOMAIN q = 1 .. L /\ L \in Nat
    <2>1. q \in Seq(1 .. i)
        BY <1>7, <1>8, SeqWider
    <2> QED
        BY <1>7, <1>9, <2>1, AppendFacts
<1>11. /\ L + 1 \in 1 .. L + 1 /\ \A k \in 1 .. L : k \in 1 .. L + 1
       /\ \A k \in 1 .. L + 1 : k \in 1 .. L \/ k = L + 1
       /\ \A j, k \in 1 .. L + 1 : j < k => j \in 1 .. L
    BY <1>10
<1>12. \A k \in 1 .. L : q[k] \in 1 .. N
    BY <1>8, <1>10
<1> HIDE DEF L
<1>13. /\ queues' = [queues EXCEPT ![c] = q1] /\ DOMAIN queues' = 1 .. C /\ queues'[c] = q1
       /\ \A d \in 1 .. C : d # c => queues'[d] = queues[d]
       /\ Len(queues') = C /\ queues' \in Seq(Seq(1 .. i))
    <2>1. queues' = [queues EXCEPT ![c] = q1]
        BY <1>4, <1>6, <1>9
    <2>2. \A s \in Seq(1 .. N) : s \in Seq(1 .. i)
        BY <1>7, SeqWider
    <2>3. PICK S : S = Seq(1 .. i)
        OBVIOUS
    <2>4. queues \in Seq(S)
        BY <1>5, <2>2, <2>3, SeqWider
    <2>5. q1 \in S
        BY <1>10, <2>3
    <2>6. queues' \in Seq(S) /\ Len(queues') = C /\ DOMAIN queues' = 1 .. C
        BY <1>5, <1>8, <2>1, <2>4, <2>5
    <2> QED
        BY <1>5, <1>8, <2>1, <2>3, <2>6
<1> HIDE DEF C
<1>14. \A d \in 1 .. C : \A k \in DOMAIN queues[d] : queues[d][k] \in 1 .. N
    <2>1. \A S : \A s \in Seq(S) : \A k \in DOMAIN s : s[k] \in S
        OBVIOUS
    <2>2. \A d \in 1 .. C : queues[d] \in Seq(1 .. N)
        BY <1>5, <2>1
    <2> QED
        BY <2>1, <2>2
<1> HIDE DEF N
<1>15. Rises(q1)
    <2> SUFFICES ASSUME NEW j \in 1 .. L + 1, NEW k \in 1 .. L + 1, j < k PROVE q1[j] < q1[k]
        BY <1>10 DEF Rises
    <2>1. j \in 1 .. L
        BY <1>11
    <2>2. CASE k \in 1 .. L
        BY <1>3, <1>5, <1>8, <1>10, <2>1, <2>2 DEF DispatchInv, QueuesOK, QueuesRise, Rises
    <2>3. CASE k = L + 1
        BY <1>7, <1>10, <1>12, <2>1, <2>3
    <2> QED
        BY <1>11, <2>2, <2>3
<1>16. QueuesRise'
    <2>1. \A d \in 1 .. C : Rises(queues[d])
        BY <1>5 DEF DispatchInv, QueuesOK, QueuesRise
    <2>2. PICK qs : qs = queues'
        OBVIOUS
    <2>3. \A d \in 1 .. C : Rises(qs[d])
        BY <1>13, <1>15, <2>1, <2>2
    <2> QED
        BY <1>13, <2>2, <2>3 DEF QueuesRise, Rises
<1>17. \A d \in 1 .. C : \A k \in DOMAIN queues'[d] :
           \/ d = c /\ queues'[d][k] = i
           \/ \E j \in DOMAIN queues[d] : queues[d][j] = queues'[d][k]
    <2> TAKE d \in 1 .. C
    <2>1. CASE d # c
        BY <1>13, <2>1
    <2>2. CASE d = c
        BY <1>3, <1>10, <1>11, <1>13, <2>2
    <2> QED
        BY <2>1, <2>2
<1>18. QueuesApart'
    <2> SUFFICES ASSUME NEW d \in 1 .. C, NEW e \in 1 .. C, NEW j \in DOMAIN queues'[d], NEW k \in DOMAIN queues'[e],
                        queues'[d][j] = queues'[e][k]
                 PROVE  d = e
        BY <1>13 DEF QueuesApart
    <2>1. \A x \in 1 .. N : x # i
        BY <1>7
    <2>2. \/ d = c /\ queues'[d][j] = i
          \/ \E g \in DOMAIN queues[d] : queues[d][g] = queues'[d][j]
        BY <1>17
    <2>3. \/ e = c /\ queues'[e][k] = i
          \/ \E g \in DOMAIN queues[e] : queues[e][g] = queues'[e][k]
        BY <1>17
    <2>4. CASE queues'[d][j] = i
        BY <1>14, <2>1, <2>2, <2>3, <2>4
    <2>5. CASE queues'[d][j] # i
        <3>1. PICK g \in DOMAIN queues[d] : queues[d][g] = queues'[d][j]
            BY <2>2, <2>5
        <3>2. PICK h \in DOMAIN queues[e] : queues[e][h] = queues'[e][k]
            BY <2>3, <2>5
        <3>3. queues[d][g] = queues[e][h]
            BY <3>1, <3>2
        <3> QED
            BY <1>5, <3>3 DEF DispatchInv, QueuesOK, QueuesApart
    <2> QED
        BY <2>4, <2>5
<1>19. /\ \A id : Waits("message", id)' <=> Waits("message", id) \/ id = i
       /\ \A kind, id : kind # "message" => (Waits(kind, id)' <=> Waits(kind, id))
    <2>1. \A d \in 1 .. C : \A j \in DOMAIN queues[d] : j \in DOMAIN queues'[d] /\ queues'[d][j] = queues[d][j]
        BY <1>3, <1>10, <1>11, <1>13
    <2>2. \E k \in DOMAIN queues'[c] : queues'[c][k] = i
        BY <1>10, <1>11, <1>13
    <2>3. \A id : (\E d \in 1 .. C : \E k \in DOMAIN queues'[d] : queues'[d][k] = id)
                     <=> (\E d \in 1 .. C : \E k \in DOMAIN queues[d] : queues[d][k] = id) \/ id = i
        BY <1>8, <1>17, <2>1, <2>2
    <2>4. \A id : Waits("message", id) <=> \E d \in 1 .. C : \E k \in DOMAIN queues[d] : queues[d][k] = id
        BY <1>5 DEF Waits
    <2>5. \A id : Waits("message", id)' <=> \E d \in 1 .. C : \E k \in DOMAIN queues'[d] : queues'[d][k] = id
        BY <1>13 DEF Waits
    <2>6. \A kind, id : kind # "message" => (Waits(kind, id)' <=> Waits(kind, id))
        BY <1>4 DEF Waits
    <2> QED
        BY <2>3, <2>4, <2>5, <2>6
<1>20. /\ \A id \in Nat : IsBorn("message", id)' <=> IsBorn("message", id) \/ id = i
       /\ \A kind \in Dispatch!Kinds : \A id : kind # "message" => (IsBorn(kind, id)' <=> IsBorn(kind, id))
       /\ "message" \in Dispatch!Kinds /\ ~ IsBorn("message", i)
    <2>1. \A id \in Nat : (IsBorn("message", id) <=> id \in 1 .. N) /\ (IsBorn("message", id)' <=> id \in 1 .. i)
        BY <1>6 DEF IsBorn, Dispatch!Born, N
    <2>2. \A kind \in Dispatch!Kinds : \A id : kind # "message" => (IsBorn(kind, id)' <=> IsBorn(kind, id))
        BY <1>4 DEF IsBorn, Dispatch!Born, Dispatch!Kinds
    <2>3. "message" \in Dispatch!Kinds
        BY DEF Dispatch!Kinds
    <2> QED
        BY <1>7, <2>1, <2>2, <2>3
<1>21. \A kind, id : (UnderWay(kind, id)' <=> UnderWay(kind, id)) /\ (IsOver(kind, id)' <=> IsOver(kind, id))
    BY <1>4 DEF UnderWay, IsOver
<1>22. ItemsOK'
    BY <1>7, <1>19, <1>20, <1>21 DEF DispatchInv, ItemsOK
<1>23. DispatchTypes'
    <2>1. queues' \in Seq(Seq(DOMAIN messages')) /\ channel' \in [Labels -> 0 .. Len(queues')]
        BY <1>4, <1>5, <1>6, <1>13
    <2> QED
        BY <1>4, <1>6, <2>1 DEF DispatchInv, DispatchTypes, Dispatch!TypeOK
<1>24. QueuesOK'
    BY <1>4, <1>16, <1>18 DEF DispatchInv, QueuesOK, ReadyOnce, Rises
<1>25. StackOnce' /\ EndedOnce'
    BY <1>4 DEF DispatchInv, StackOnce, EndedOnce
<1>26. TasksTell' /\ ReadySorted' /\ TrapsTell'
    <2>1. \A id : (Returned(id)' <=> Returned(id)) /\ (NotRaised(id)' <=> NotRaised(id))
        BY <1>4 DEF Returned, NotRaised
    <2> QED
        BY <1>4, <2>1, SchedulerLeft DEF DispatchInv, TrapsTell
<1>27. TakenOK'
    <2>1. \A t : EventsAfter(t) => EventsAfter(t)'
        BY <1>4 DEF EventsAfter
    <2>2. ASSUME NEW t, MessagesAfter(t) PROVE MessagesAfter(t)'
        <3>1. t.source \in 1 .. C /\ t.id \in 1 .. N /\ \A k \in DOMAIN queues[t.source] : t.id < queues[t.source][k]
            BY <1>5, <2>2 DEF MessagesAfter, N
        <3>2. \A k \in DOMAIN queues'[t.source] : t.id < queues'[t.source][k]
            BY <1>7, <1>17, <3>1
        <3>3. t.id \in 1 .. i
            BY <1>7, <3>1
        <3> QED
            BY <1>6, <1>13, <3>1, <3>2, <3>3 DEF MessagesAfter
    <2>3. PICK tk : tk = taken
        OBVIOUS
    <2>4. \A k \in DOMAIN tk : /\ tk[k].kind = "message" => MessagesAfter(tk[k])'
                               /\ tk[k].kind = "event" => EventsAfter(tk[k])'
        BY <2>1, <2>2, <2>3 DEF DispatchInv, TakenOK
    <2> QED
        BY <1>4, <2>3, <2>4 DEF DispatchInv, TakenOK
<1> QED
    BY <1>22, <1>23, <1>24, <1>25, <1>26, <1>27 DEF DispatchInv

LEMMA MessageTaken == ASSUME DispatchInv, NEW n \in Labels, Dispatch!DispatchMessage(n) PROVE DispatchInv'
<1> DEFINE C == Len(queues)
<1>1. PICK c : c = channel[n]
    OBVIOUS
<1>2. PICK q : q = queues[c]
    OBVIOUS
<1>3. PICK h : h = Head(q)
    OBVIOUS
<1>4. PICK T : T = [kind |-> "message", id |-> h, source |-> c]
    OBVIOUS
<1>5. PICK q1 : q1 = Tail(q)
    OBVIOUS
<1>6. /\ c # 0 /\ q # <<>> /\ queues' = [queues EXCEPT ![c] = q1] /\ taken' = Append(taken, T)
      /\ Dispatch!Handle("message", n, h, c)
      /\ UNCHANGED <<tasks, ready, policies, messages, channel, trapLog, signals, subscribers, busChannel,
                     published, events, emitted, handlers>>
    BY <1>1, <1>2, <1>3, <1>4, <1>5 DEF Dispatch!DispatchMessage, Dispatch!Take, Dispatch!scheduler,
                            Dispatch!signaling, Dispatch!bus, Dispatch!runtime
<1>7. PICK S : S = DOMAIN messages
    OBVIOUS
<1>8. /\ queues \in Seq(Seq(S)) /\ DOMAIN queues = 1 .. C /\ C \in Nat /\ channel \in [Labels -> 0 .. C]
      /\ S = 1 .. Len(messages) /\ Len(messages) \in Nat
    BY <1>7, DispatchTypesFacts DEF DispatchInv
<1>9. c \in 1 .. C /\ c \in Nat /\ q \in Seq(S) /\ S \in SUBSET Nat /\ Rises(q)
    <2>1. c \in 1 .. C
        BY <1>1, <1>6, <1>8
    <2>2. \A m : 1 .. m \subseteq Nat
        OBVIOUS
    <2>3. c \in Nat
        BY <2>1, <2>2
    <2>4. q \in Seq(S)
        <3>1. \A A : \A s \in Seq(A) : \A k \in DOMAIN s : s[k] \in A
            OBVIOUS
        <3> HIDE DEF C
        <3> QED
            BY <1>2, <1>8, <2>1, <3>1
    <2>5. Rises(q)
        BY <1>2, <1>8, <2>1 DEF DispatchInv, QueuesOK, QueuesRise
    <2>6. S \in SUBSET Nat
        BY <1>8, <2>2
    <2> QED
        BY <2>1, <2>3, <2>4, <2>5, <2>6
<1>10. \A j, k \in DOMAIN q : q[j] = q[k] => j = k
    BY <1>9, RisesOnce
<1>11. /\ Tail(q) \in Seq(S) /\ Head(q) \in S /\ \E k \in DOMAIN q : q[k] = Head(q)
       /\ 1 \in DOMAIN q /\ q[1] = Head(q)
    BY <1>6, <1>9, <1>10, HeadTaken
<1>12. \A x : (\E k \in DOMAIN Tail(q) : Tail(q)[k] = x) <=> (\E k \in DOMAIN q : q[k] = x) /\ x # Head(q)
    BY <1>6, <1>9, <1>10, HeadTaken
<1>13. \A j \in DOMAIN Tail(q) : /\ j + 1 \in DOMAIN q /\ Tail(q)[j] = q[j + 1]
                                 /\ j + 1 \in Nat /\ j \in Nat /\ 1 < j + 1
    BY <1>6, <1>9, <1>10, HeadTaken
<1>14. /\ h \in Nat /\ h \in S /\ q[1] = h /\ 1 \in DOMAIN q /\ q1 \in Seq(S)
       /\ \A x : (\E k \in DOMAIN q1 : q1[k] = x) <=> (\E k \in DOMAIN q : q[k] = x) /\ x # h
       /\ \A j \in DOMAIN q1 : j + 1 \in DOMAIN q /\ q1[j] = q[j + 1] /\ j \in Nat /\ 1 < j + 1
    BY <1>3, <1>5, <1>9, <1>11, <1>12, <1>13
<1>15. /\ DOMAIN queues' = 1 .. C /\ queues'[c] = q1 /\ \A d \in 1 .. C : d # c => queues'[d] = queues[d]
       /\ Len(queues') = C /\ queues' \in Seq(Seq(S))
    BY <1>6, <1>8, <1>9, <1>14
<1> HIDE DEF C
<1>16. \A d \in 1 .. C : \A k \in DOMAIN queues'[d] :
           /\ queues'[d][k] # h
           /\ \E j \in DOMAIN queues[d] : queues[d][j] = queues'[d][k]
    <2> SUFFICES ASSUME NEW d \in 1 .. C, NEW k \in DOMAIN queues'[d]
                 PROVE  queues'[d][k] # h /\ \E j \in DOMAIN queues[d] : queues[d][j] = queues'[d][k]
        OBVIOUS
    <2>1. CASE d = c
        BY <1>2, <1>14, <1>15, <2>1
    <2>2. CASE d # c
        <3>1. queues'[d] = queues[d]
            BY <1>15, <2>2
        <3>2. queues[c][1] = h /\ 1 \in DOMAIN queues[c]
            BY <1>2, <1>14
        <3>3. k \in DOMAIN queues[d] /\ d \in DOMAIN queues /\ c \in DOMAIN queues
            BY <1>8, <1>9, <3>1
        <3>4. queues[d][k] # h
            BY <2>2, <3>2, <3>3 DEF DispatchInv, QueuesOK, QueuesApart
        <3> QED
            BY <3>1, <3>3, <3>4
    <2> QED
        BY <2>1, <2>2
<1>17. \A d \in 1 .. C : \A k \in DOMAIN queues[d] :
           queues[d][k] # h => \E j \in DOMAIN queues'[d] : queues'[d][j] = queues[d][k]
    <2> SUFFICES ASSUME NEW d \in 1 .. C, NEW k \in DOMAIN queues[d], queues[d][k] # h
                 PROVE  \E j \in DOMAIN queues'[d] : queues'[d][j] = queues[d][k]
        OBVIOUS
    <2>1. CASE d = c
        BY <1>2, <1>14, <1>15, <2>1
    <2>2. CASE d # c
        BY <1>15, <2>2
    <2> QED
        BY <2>1, <2>2
<1>18. /\ \A id : Waits("message", id)' <=> Waits("message", id) /\ id # h
       /\ \A kind, id : kind # "message" => (Waits(kind, id)' <=> Waits(kind, id))
       /\ Waits("message", h) /\ ~ Waits("message", h)'
    <2>1. \A id : Waits("message", id) <=> \E d \in 1 .. C : \E k \in DOMAIN queues[d] : queues[d][k] = id
        BY <1>8 DEF Waits
    <2>2. \A id : Waits("message", id)' <=> \E d \in 1 .. C : \E k \in DOMAIN queues'[d] : queues'[d][k] = id
        BY <1>15 DEF Waits
    <2>3. \A kind, id : kind # "message" => (Waits(kind, id)' <=> Waits(kind, id))
        BY <1>6 DEF Waits
    <2>4. \A id : Waits("message", id)' <=> Waits("message", id) /\ id # h
        BY <1>16, <1>17, <2>1, <2>2
    <2>5. Waits("message", h)
        BY <1>2, <1>9, <1>14, <2>1
    <2> QED
        BY <2>3, <2>4, <2>5
<1>19. \A kind \in Dispatch!Kinds : \A id : IsBorn(kind, id)' <=> IsBorn(kind, id)
    BY <1>6 DEF IsBorn, Dispatch!Born, Dispatch!Kinds
<1>20. /\ IsBorn("message", h) /\ IsBorn("message", h)' /\ ~ UnderWay("message", h) /\ ~ IsOver("message", h)
       /\ "message" \in Dispatch!Kinds /\ "message" # "task"
    <2>1. "message" \in Dispatch!Kinds
        BY DEF Dispatch!Kinds
    <2>2. IsBorn("message", h) /\ ~ UnderWay("message", h) /\ ~ IsOver("message", h)
        BY <1>14, <1>18, <2>1 DEF DispatchInv, ItemsOK
    <2> QED
        BY <1>19, <2>1, <2>2
<1>21. /\ stack' \in Seq(Dispatch!Frame) /\ StackOnce' /\ EndedOnce'
       /\ \A kind \in Dispatch!Kinds : \A id :
             /\ UnderWay(kind, id)' \/ IsOver(kind, id)'
                    <=> UnderWay(kind, id) \/ IsOver(kind, id) \/ (kind = "message" /\ id = h)
             /\ UnderWay(kind, id)' /\ IsOver(kind, id)' => UnderWay(kind, id) /\ IsOver(kind, id)
       /\ \A id : Returned(id)' <=> Returned(id)
       /\ \A id : NotRaised(id)' <=> NotRaised(id)
    <2>1. "message" \in {"message", "signal", "event"} /\ "message" # "signal"
        OBVIOUS
    <2>2. Dispatch!Handle("message", n, h, c) /\ h \in Nat /\ c \in Nat
        BY <1>6, <1>9, <1>14
    <2>3. ~ UnderWay("message", h) /\ ~ IsOver("message", h)
        BY <1>20
    <2> QED
        BY <2>1, <2>2, <2>3, ItemHandled
<1>22. ItemsOK'
    <2>1. \A kind \in Dispatch!Kinds : \A id \in Nat :
             ~ (kind = "message" /\ id = h) => (Waits(kind, id)' <=> Waits(kind, id)) /\ (IsBorn(kind, id)' <=> IsBorn(kind, id))
        BY <1>18, <1>19
    <2> QED
        BY <1>14, <1>18, <1>20, <1>21, <2>1, ItemSteps
<1>23. Rises(q1)
    <2> SUFFICES ASSUME NEW j \in DOMAIN q1, NEW k \in DOMAIN q1, j < k PROVE q1[j] < q1[k]
        BY DEF Rises
    <2>1. j + 1 < k + 1
        BY <1>14
    <2> QED
        BY <1>9, <1>14, <2>1 DEF Rises
<1>24. QueuesRise'
    <2>1. \A d \in 1 .. C : Rises(queues[d])
        BY <1>8 DEF DispatchInv, QueuesOK, QueuesRise
    <2>2. PICK qs : qs = queues'
        OBVIOUS
    <2>3. \A d \in 1 .. C : Rises(qs[d])
        BY <1>15, <1>23, <2>1, <2>2
    <2> QED
        BY <1>15, <2>2, <2>3 DEF QueuesRise, Rises
<1>25. QueuesApart'
    <2> SUFFICES ASSUME NEW d \in 1 .. C, NEW e \in 1 .. C, NEW j \in DOMAIN queues'[d], NEW k \in DOMAIN queues'[e],
                        queues'[d][j] = queues'[e][k]
                 PROVE  d = e
        BY <1>15 DEF QueuesApart
    <2>1. PICK f \in DOMAIN queues[d] : queues[d][f] = queues'[d][j]
        BY <1>16
    <2>2. PICK g \in DOMAIN queues[e] : queues[e][g] = queues'[e][k]
        BY <1>16
    <2>3. queues[d][f] = queues[e][g]
        BY <2>1, <2>2
    <2> QED
        BY <1>8, <2>3 DEF DispatchInv, QueuesOK, QueuesApart
<1>26. \A k \in DOMAIN q1 : h < q1[k]
    BY <1>9, <1>14 DEF Rises
<1>27. taken' \in Seq(Taking) /\ TakenOK'
    <2>1. T \in Taking /\ T.kind = "message" /\ T.id = h /\ T.source = c
        BY <1>4, <1>9, <1>14 DEF Taking
    <2>2. ASSUME NEW t, MessagesAfter(t) PROVE MessagesAfter(t)'
        <3>1. t.source \in 1 .. C /\ t.id \in 1 .. Len(messages) /\ \A k \in DOMAIN queues[t.source] : t.id < queues[t.source][k]
            BY <1>8, <2>2 DEF MessagesAfter
        <3>2. \A k \in DOMAIN queues'[t.source] : t.id < queues'[t.source][k]
            BY <1>16, <3>1
        <3> QED
            BY <1>6, <1>15, <3>1, <3>2 DEF MessagesAfter
    <2>3. \A t : EventsAfter(t) => EventsAfter(t)'
        BY <1>6 DEF EventsAfter
    <2>4. MessagesAfter(T)'
        BY <1>6, <1>8, <1>9, <1>14, <1>15, <1>26, <2>1 DEF MessagesAfter
    <2>5. ASSUME NEW k \in DOMAIN taken, taken[k].kind = "message", taken[k].source = c PROVE taken[k].id < h
        <3>1. MessagesAfter(taken[k])
            BY <2>5 DEF DispatchInv, TakenOK
        <3> QED
            BY <1>2, <1>14, <2>5, <3>1 DEF MessagesAfter
    <2>6. \A k \in DOMAIN taken : taken[k].kind = T.kind /\ taken[k].source = T.source => taken[k].id < T.id
        BY <2>1, <2>5
    <2> QED
        BY <1>6, <2>1, <2>2, <2>3, <2>4, <2>6, OrderKept
<1>28. DispatchTypes'
    <2>1. queues' \in Seq(Seq(DOMAIN messages')) /\ channel' \in [Labels -> 0 .. Len(queues')]
        BY <1>6, <1>7, <1>8, <1>15
    <2> QED
        BY <1>6, <1>21, <1>27, <2>1 DEF DispatchInv, DispatchTypes, Dispatch!TypeOK
<1>29. QueuesOK'
    BY <1>6, <1>24, <1>25 DEF DispatchInv, QueuesOK, ReadyOnce, Rises
<1>30. TasksTell' /\ ReadySorted'
    BY <1>6, <1>21, SchedulerLeft
<1>31. TrapsTell'
    BY <1>6, <1>21 DEF DispatchInv, TrapsTell
<1> QED
    BY <1>21, <1>22, <1>27, <1>28, <1>29, <1>30, <1>31 DEF DispatchInv

-----------------------------------------------------------------------------
(* The code at the top of the stack returns or raises. *)

\* Its item is over.
LEMMA ItemEnds ==
    ASSUME DispatchInv, stack # <<>>, stack' = Dispatch!Front(stack), NEW f, f = Dispatch!Last(stack), NEW how,
           f.kind # "policies", ended' = Dispatch!End(f.kind, f.id, how),
           UNCHANGED <<ready, messages, queues, signals, published, events, emitted>>, Len(tasks') = Len(tasks)
    PROVE  /\ f \in Dispatch!Frame /\ f.kind \in Dispatch!Kinds /\ f.id \in Nat
           /\ UnderWay(f.kind, f.id) /\ ~ IsOver(f.kind, f.id) /\ IsBorn(f.kind, f.id)
           /\ stack' \in Seq(Dispatch!Frame) /\ StackOnce' /\ EndedOnce' /\ ItemsOK'
           /\ \A id : Returned(id)' <=> Returned(id) \/ (f.kind = "task" /\ id = f.id /\ how = "returned")
           /\ \A id : NotRaised(id)' <=> NotRaised(id) \/ (f.kind = "signal" /\ id = f.id /\ how # "raised")
<1>1. /\ f \in Dispatch!Frame /\ UnderWay(f.kind, f.id)
      /\ stack' \in Seq(Dispatch!Frame) /\ StackOnce'
      /\ \A kind \in Dispatch!Kinds : \A id :
            UnderWay(kind, id)' <=> UnderWay(kind, id) /\ ~ (kind = f.kind /\ id = f.id)
    BY CallEnds
<1>2. f.kind \in Dispatch!Kinds /\ f.id \in Nat
    BY <1>1 DEF Dispatch!Frame
<1>3. ~ IsOver(f.kind, f.id) /\ ~ Waits(f.kind, f.id) /\ IsBorn(f.kind, f.id)
    BY <1>1, <1>2 DEF DispatchInv, ItemsOK
<1>4. ended' = ended \cup {[kind |-> f.kind, id |-> f.id, how |-> how]} /\ EndedOnce
    BY DEF Dispatch!End, DispatchInv
<1>5. /\ EndedOnce'
      /\ \A kind, id : IsOver(kind, id)' <=> IsOver(kind, id) \/ (kind = f.kind /\ id = f.id)
      /\ \A id : Returned(id)' <=> Returned(id) \/ (f.kind = "task" /\ id = f.id /\ how = "returned")
      /\ \A id : NotRaised(id)' <=> NotRaised(id) \/ (f.kind = "signal" /\ id = f.id /\ how # "raised")
    BY <1>3, <1>4, OutcomeAdded
<1>6. \A kind, id : Waits(kind, id)' <=> Waits(kind, id)
    BY DEF Waits
<1>7. \A kind \in Dispatch!Kinds : \A id : IsBorn(kind, id)' <=> IsBorn(kind, id)
    BY DEF IsBorn, Dispatch!Born, Dispatch!Kinds
<1>8. ItemsOK'
    <2> SUFFICES ASSUME NEW kind \in Dispatch!Kinds, NEW id \in Nat
                 PROVE  /\ IsBorn(kind, id)' <=> Waits(kind, id)' \/ UnderWay(kind, id)' \/ IsOver(kind, id)'
                        /\ ~ (Waits(kind, id)' /\ UnderWay(kind, id)') /\ ~ (Waits(kind, id)' /\ IsOver(kind, id)')
                        /\ ~ (UnderWay(kind, id)' /\ IsOver(kind, id)')
        BY DEF ItemsOK
    <2>1. /\ IsBorn(kind, id) <=> Waits(kind, id) \/ UnderWay(kind, id) \/ IsOver(kind, id)
          /\ ~ (Waits(kind, id) /\ UnderWay(kind, id)) /\ ~ (Waits(kind, id) /\ IsOver(kind, id))
          /\ ~ (UnderWay(kind, id) /\ IsOver(kind, id))
        BY DEF DispatchInv, ItemsOK
    <2>2. CASE kind = f.kind /\ id = f.id
        BY <1>1, <1>2, <1>3, <1>5, <1>6, <1>7, <2>2
    <2>3. CASE ~ (kind = f.kind /\ id = f.id)
        BY <1>1, <1>5, <1>6, <1>7, <2>1, <2>3
    <2> QED
        BY <2>2, <2>3
<1> QED
    BY <1>1, <1>2, <1>3, <1>5, <1>8

LEMMA CallRaises == ASSUME DispatchInv, Dispatch!Raises PROVE DispatchInv'
<1>1. PICK f : f = Dispatch!Last(stack)
    OBVIOUS
<1>2. /\ stack # <<>> /\ stack' = Dispatch!Front(stack)
      /\ ended' = IF f.kind = "policies" THEN ended ELSE Dispatch!End(f.kind, f.id, "raised")
      /\ UNCHANGED <<tasks, ready, policies, messages, queues, channel, trapLog, signals, subscribers, busChannel,
                     published, events, emitted, taken, handlers>>
    BY <1>1 DEF Dispatch!Raises, Dispatch!scheduler, Dispatch!ipc, Dispatch!signaling, Dispatch!bus, Dispatch!runtime
<1>3. CASE f.kind = "policies"
    <2>1. /\ stack' \in Seq(Dispatch!Frame) /\ StackOnce'
          /\ \A kind \in Dispatch!Kinds : \A id :
                UnderWay(kind, id)' <=> UnderWay(kind, id) /\ ~ (kind = f.kind /\ id = f.id)
        BY <1>1, <1>2, CallEnds
    <2>2. \A kind \in Dispatch!Kinds : kind # "policies"
        BY DEF Dispatch!Kinds
    <2>3. DispatchTypes'
        BY <1>2, <2>1 DEF DispatchInv, DispatchTypes, Dispatch!TypeOK
    <2>4. ended' = ended
        BY <1>2, <1>3
    <2> QED
        BY <1>2, <1>3, <2>1, <2>2, <2>3, <2>4, NoItemMoves
<1>4. CASE f.kind # "policies"
    <2>1. ended' = Dispatch!End(f.kind, f.id, "raised") /\ Len(tasks') = Len(tasks)
        BY <1>2, <1>4
    <2>2. /\ stack' \in Seq(Dispatch!Frame) /\ StackOnce' /\ EndedOnce' /\ ItemsOK'
          /\ \A id : Returned(id)' <=> Returned(id) \/ (f.kind = "task" /\ id = f.id /\ "raised" = "returned")
          /\ \A id : NotRaised(id)' <=> NotRaised(id) \/ (f.kind = "signal" /\ id = f.id /\ "raised" # "raised")
        BY <1>1, <1>2, <1>4, <2>1, ItemEnds
    <2>3. DispatchTypes'
        BY <1>2, <2>2 DEF DispatchInv, DispatchTypes, Dispatch!TypeOK
    <2>4. QueuesOK'
        BY <1>2 DEF DispatchInv, QueuesOK, ReadyOnce, QueuesRise, QueuesApart, Rises
    <2>5. \A id : (Returned(id)' <=> Returned(id)) /\ (NotRaised(id)' <=> NotRaised(id))
        BY <2>2
    <2>6. TasksTell' /\ ReadySorted'
        BY <1>2, <2>5, SchedulerLeft
    <2>7. TrapsTell'
        BY <1>2, <2>5 DEF DispatchInv, TrapsTell
    <2>8. TakenOK'
        BY <1>2 DEF DispatchInv, TakenOK, MessagesAfter, EventsAfter
    <2> QED
        BY <2>2, <2>3, <2>4, <2>6, <2>7, <2>8 DEF DispatchInv
<1> QED
    BY <1>3, <1>4

LEMMA CallReturns == ASSUME DispatchInv, Dispatch!Returns PROVE DispatchInv'
<1>1. PICK f : f = Dispatch!Last(stack)
    OBVIOUS
<1>2. /\ stack # <<>> /\ f.kind # "policies"
      /\ UNCHANGED <<ready, policies, messages, queues, channel, signals, subscribers, busChannel,
                     published, events, emitted, taken, handlers>>
      /\ \/ stack' = [stack EXCEPT ![Len(stack)].at = @ + 1] /\ UNCHANGED <<tasks, trapLog, ended>>
         \/ /\ stack' = Dispatch!Front(stack)
            /\ ended' = Dispatch!End(f.kind, f.id, "returned")
            /\ tasks' = IF f.kind = "task" THEN [tasks EXCEPT ![f.id].completed = TRUE] ELSE tasks
            /\ trapLog' = IF f.kind = "signal" THEN Append(trapLog, f.id) ELSE trapLog
    BY <1>1 DEF Dispatch!Returns, Dispatch!ipc, Dispatch!bus, Dispatch!runtime
<1>3. CASE stack' = [stack EXCEPT ![Len(stack)].at = @ + 1] /\ UNCHANGED <<tasks, trapLog, ended>>
    <2>1. stack' \in Seq(Dispatch!Frame) /\ StackOnce' /\ \A kind, id : UnderWay(kind, id)' <=> UnderWay(kind, id)
        BY <1>2, <1>3, CallGoesOn
    <2>2. DispatchTypes'
        BY <1>2, <1>3, <2>1 DEF DispatchInv, DispatchTypes, Dispatch!TypeOK
    <2> QED
        BY <1>2, <1>3, <2>1, <2>2, NoItemMoves
<1>4. CASE /\ stack' = Dispatch!Front(stack)
           /\ ended' = Dispatch!End(f.kind, f.id, "returned")
           /\ tasks' = IF f.kind = "task" THEN [tasks EXCEPT ![f.id].completed = TRUE] ELSE tasks
           /\ trapLog' = IF f.kind = "signal" THEN Append(trapLog, f.id) ELSE trapLog
    <2> DEFINE N == Len(tasks)
               L == Len(trapLog)
    <2>1. /\ tasks \in Seq(Dispatch!SchedTask) /\ DOMAIN tasks = 1 .. N /\ N \in Nat /\ ready \in Seq(DOMAIN tasks)
          /\ trapLog \in Seq(1 .. signals) /\ DOMAIN trapLog = 1 .. L /\ L \in Nat /\ signals \in Nat
        BY DispatchTypesFacts DEF DispatchInv
    <2>2. /\ Len(tasks') = N /\ DOMAIN tasks' = 1 .. N
          /\ tasks' = IF f.kind = "task" THEN [tasks EXCEPT ![f.id].completed = TRUE] ELSE tasks
        BY <1>4, <2>1
    <2>3. /\ f \in Dispatch!Frame /\ f.kind \in Dispatch!Kinds /\ f.id \in Nat
          /\ UnderWay(f.kind, f.id) /\ ~ IsOver(f.kind, f.id) /\ IsBorn(f.kind, f.id)
          /\ stack' \in Seq(Dispatch!Frame) /\ StackOnce' /\ EndedOnce' /\ ItemsOK'
          /\ \A id : Returned(id)' <=> Returned(id) \/ (f.kind = "task" /\ id = f.id /\ "returned" = "returned")
          /\ \A id : NotRaised(id)' <=> NotRaised(id) \/ (f.kind = "signal" /\ id = f.id /\ "returned" # "raised")
        BY <1>1, <1>2, <1>4, <2>2, ItemEnds
    <2>4. /\ f.kind = "task" => f.id \in 1 .. N
          /\ f.kind = "signal" => f.id \in 1 .. signals
        BY <2>3 DEF IsBorn, Dispatch!Born
    <2>5. /\ tasks' \in Seq(Dispatch!SchedTask)
          /\ \A j \in 1 .. N : /\ tasks'[j].sorted = tasks[j].sorted
                               /\ tasks'[j].completed = (tasks[j].completed \/ (f.kind = "task" /\ j = f.id))
        <3>1. CASE f.kind # "task"
            <4>1. \A j \in 1 .. N : tasks[j].completed \in BOOLEAN
                <5>1. \A j \in 1 .. N : tasks[j] \in Dispatch!SchedTask
                    BY <2>1
                <5> QED
                    BY <5>1 DEF Dispatch!SchedTask
            <4> QED
                BY <2>1, <2>2, <3>1, <4>1
        <3>2. CASE f.kind = "task"
            <4>1. PICK t : t = tasks[f.id]
                OBVIOUS
            <4>2. PICK t1 : t1 = [t EXCEPT !.completed = TRUE]
                OBVIOUS
            <4>3. t \in Dispatch!SchedTask
                BY <2>1, <2>4, <3>2, <4>1
            <4>4. t1 \in Dispatch!SchedTask /\ t1.sorted = t.sorted /\ t1.completed = TRUE
                BY <4>2, <4>3 DEF Dispatch!SchedTask
            <4>5. tasks' = [tasks EXCEPT ![f.id] = t1]
                BY <2>2, <3>2, <4>1, <4>2
            <4>6. \A j \in 1 .. N : tasks[j].completed \in BOOLEAN
                <5>1. \A j \in 1 .. N : tasks[j] \in Dispatch!SchedTask
                    BY <2>1
                <5> QED
                    BY <5>1 DEF Dispatch!SchedTask
            <4>7. tasks' \in Seq(Dispatch!SchedTask)
                BY <2>1, <2>4, <3>2, <4>4, <4>5
            <4>8. \A j \in 1 .. N : tasks'[j] = IF j = f.id THEN t1 ELSE tasks[j]
                BY <2>1, <4>5
            <4>9. ASSUME NEW j \in 1 .. N
                  PROVE  /\ tasks'[j].sorted = tasks[j].sorted
                         /\ tasks'[j].completed = (tasks[j].completed \/ (f.kind = "task" /\ j = f.id))
                <5>1. CASE j = f.id
                    BY <3>2, <4>1, <4>4, <4>8, <5>1
                <5>2. CASE j # f.id
                    BY <4>6, <4>8, <5>2
                <5> QED
                    BY <5>1, <5>2
            <4> QED
                BY <4>7, <4>9
        <3> QED
            BY <3>1, <3>2
    <2>6. TasksTell'
        <3>1. \A j \in 1 .. N : tasks[j].completed <=> Returned(j)
            BY <2>1 DEF DispatchInv, TasksTell
        <3>2. \A j \in 1 .. N : tasks'[j].completed <=> Returned(j)'
            BY <2>3, <2>5, <3>1
        <3> QED
            BY <2>2, <3>2 DEF TasksTell
    <2>7. ReadySorted'
        <3>1. \A k \in DOMAIN ready : ready[k] \in 1 .. N
            BY <2>1
        <3> QED
            BY <1>2, <2>5, <3>1 DEF DispatchInv, ReadySorted
    <2>8. trapLog' \in Seq(1 .. signals) /\ TrapsTell'
        <3>1. CASE f.kind # "signal"
            <4>1. trapLog' = trapLog /\ \A id : NotRaised(id)' <=> NotRaised(id)
                BY <1>4, <2>3, <3>1
            <4> QED
                BY <2>1, <4>1 DEF DispatchInv, TrapsTell
        <3>2. CASE f.kind = "signal"
            <4>1. PICK i : i = f.id
                OBVIOUS
            <4>2. /\ trapLog' \in Seq(1 .. signals) /\ DOMAIN trapLog' = 1 .. L + 1 /\ trapLog'[L + 1] = i
                  /\ \A k \in 1 .. L : trapLog'[k] = trapLog[k]
                BY <1>4, <2>1, <2>4, <3>2, <4>1, AppendFacts
            <4>3. /\ L + 1 \in 1 .. L + 1
                  /\ \A k \in 1 .. L : k \in 1 .. L + 1
                  /\ \A k \in 1 .. L + 1 : k \in 1 .. L \/ k = L + 1
                <5>1. \A m \in Nat : /\ m + 1 \in 1 .. m + 1
                                     /\ \A k \in 1 .. m : k \in 1 .. m + 1
                                     /\ \A k \in 1 .. m + 1 : k \in 1 .. m \/ k = m + 1
                    OBVIOUS
                <5>2. L \in Nat
                    BY <2>1
                <5> HIDE DEF L
                <5> QED
                    BY <5>1, <5>2
            <4>4. ~ NotRaised(i) /\ i \in Nat
                BY <2>3, <3>2, <4>1 DEF NotRaised, IsOver
            <4>5. \A id \in Nat : (\E k \in 1 .. L : trapLog[k] = id) <=> NotRaised(id)
                BY <2>1 DEF DispatchInv, TrapsTell
            <4>6. \A j, k \in 1 .. L : trapLog[j] = trapLog[k] => j = k
                BY <2>1 DEF DispatchInv, TrapsTell
            <4> HIDE DEF L
            <4>7. \A j, k \in 1 .. L + 1 : trapLog'[j] = trapLog'[k] => j = k
                BY <4>2, <4>3, <4>4, <4>5, <4>6
            <4>8. \A id : NotRaised(id)' <=> NotRaised(id) \/ id = i
                BY <2>3, <3>2, <4>1
            <4>9. \A id \in Nat : (\E k \in 1 .. L + 1 : trapLog'[k] = id) <=> (\E k \in 1 .. L : trapLog[k] = id) \/ id = i
                BY <4>2, <4>3
            <4>10. \A id \in Nat : (\E k \in DOMAIN trapLog' : trapLog'[k] = id) <=> NotRaised(id)'
                BY <4>2, <4>5, <4>8, <4>9
            <4> QED
                BY <4>2, <4>7, <4>10 DEF TrapsTell
        <3> QED
            BY <3>1, <3>2
    <2>9. DispatchTypes'
        <3>1. ready' \in Seq(DOMAIN tasks') /\ trapLog' \in Seq(1 .. signals')
            BY <1>2, <2>1, <2>2, <2>8
        <3> QED
            BY <1>2, <2>3, <2>5, <3>1 DEF DispatchInv, DispatchTypes, Dispatch!TypeOK
    <2>10. QueuesOK'
        BY <1>2 DEF DispatchInv, QueuesOK, ReadyOnce, QueuesRise, QueuesApart, Rises
    <2>11. TakenOK'
        BY <1>2 DEF DispatchInv, TakenOK, MessagesAfter, EventsAfter
    <2> QED
        BY <2>3, <2>6, <2>7, <2>8, <2>9, <2>10, <2>11 DEF DispatchInv
<1> QED
    BY <1>2, <1>3, <1>4

-----------------------------------------------------------------------------
(* The invariant holds in every state, and says what the services promise. *)

LEMMA DispatchNext == ASSUME DispatchInv, [Dispatch!Next]_Dispatch!vars PROVE DispatchInv'
<1>1. CASE UNCHANGED Dispatch!vars
    <2>1. UNCHANGED <<tasks, ready, policies, messages, queues, channel, trapLog, signals, subscribers, busChannel,
                      published, events, emitted, taken, ended, handlers, stack>>
        BY <1>1 DEF Dispatch!vars, Dispatch!scheduler, Dispatch!ipc, Dispatch!signaling, Dispatch!bus,
                    Dispatch!runtime, Dispatch!history
    <2>2. DispatchTypes'
        BY <2>1 DEF DispatchInv, DispatchTypes, Dispatch!TypeOK
    <2>3. StackOnce' /\ \A kind, id : UnderWay(kind, id)' <=> UnderWay(kind, id)
        BY <2>1 DEF DispatchInv, StackOnce, UnderWay
    <2> QED
        BY <2>1, <2>2, <2>3, NoItemMoves
<1>2. CASE Dispatch!Next
    <2>1. CASE Dispatch!Returns
        BY <2>1, CallReturns
    <2>2. CASE Dispatch!Raises
        BY <2>2, CallRaises
    <2>3. CASE Dispatch!RunOnce
        BY <2>3, SchedulerRuns
    <2>4. CASE Dispatch!PolicyReturns
        BY <2>4, PolicyGoesOn
    <2>5. CASE Dispatch!Tick
        BY <2>5, EventTaken
    <2>6. CASE \E p \in Priorities : Dispatch!AddTask(p) \/ Dispatch!PolicyDrops(p)
        BY <2>6, TaskAdded, TasksDropped
    <2>7. CASE \E n \in Policies : Dispatch!AddPolicy(n)
        BY <2>7, PolicyAdded
    <2>8. CASE \E i \in DOMAIN tasks : Dispatch!PolicyBoosts(i)
        BY <2>8, PriorityBoosted
    <2>9. ASSUME NEW n \in Labels, Dispatch!CreateChannel(n) \/ Dispatch!Send(n) \/ Dispatch!DispatchMessage(n)
          PROVE  DispatchInv'
        BY <2>9, ChannelCreated, MessageSent, MessageTaken
    <2>10. ASSUME NEW n \in Labels, Dispatch!RaiseSignal(n) \/ Dispatch!CreateBusChannel(n) \/ Dispatch!Subscribe(n)
           PROVE  DispatchInv'
        BY <2>10, SignalRaised, BusChannelCreated, BusSubscribed
    <2>11. ASSUME NEW n \in Labels, Dispatch!Publish(n) \/ Dispatch!Emit(n) PROVE DispatchInv'
        BY <2>11, EventPublished, EventEmitted
    <2>12. ASSUME NEW n \in Labels, NEW kind \in DOMAIN handlers, Dispatch!RegisterHandler(kind, n) PROVE DispatchInv'
        <3>1. kind \in {"message", "signal", "event"}
            BY DispatchTypesFacts DEF DispatchInv
        <3> QED
            BY <2>12, <3>1, HandlerRegistered
    <2> QED
        BY <1>2, <2>1, <2>2, <2>3, <2>4, <2>5, <2>6, <2>7, <2>8, <2>9, <2>10, <2>11, <2>12 DEF Dispatch!Next
<1> QED
    BY <1>1, <1>2

LEMMA DispatchInvariance == Dispatch!Spec => []DispatchInv
<1>1. DispatchInv /\ [Dispatch!Next]_Dispatch!vars => DispatchInv'
    BY DispatchNext
<1> QED
    BY <1>1, DispatchInit, PTL DEF Dispatch!Spec

\* A set of which no two members differ has one or none.
LEMMA OneOrNone ==
    ASSUME NEW S, \A x, y \in S : x = y
    PROVE  Dispatch!Cardinality(S) = IF S = {} THEN 0 ELSE 1
<1>1. Dispatch!Cardinality(S) = Cardinality(S)
    BY DEF Dispatch!Cardinality, Cardinality
<1>2. CASE S = {}
    BY <1>1, <1>2, FS_EmptySet
<1>3. CASE S # {}
    <2>1. PICK x \in S : TRUE
        BY <1>3
    <2>2. S = {x}
        BY <2>1
    <2> QED
        BY <1>1, <1>3, <2>2, FS_Singleton
<1> QED
    BY <1>2, <1>3

LEMMA WaitsOnce ==
    ASSUME DispatchInv, NEW kind \in Dispatch!Kinds, NEW id
    PROVE  Dispatch!Waiting(kind, id) = IF Waits(kind, id) THEN 1 ELSE 0
<1>1. CASE kind = "task"
    <2>1. PICK W : W = Dispatch!Places(ready, id)
        OBVIOUS
    <2>2. \A x, y \in W : x = y
        BY <2>1 DEF Dispatch!Places, DispatchInv, QueuesOK, ReadyOnce
    <2>3. Waits(kind, id) <=> W # {}
        BY <1>1, <2>1 DEF Waits, Dispatch!Places
    <2>4. Dispatch!Waiting(kind, id) = Dispatch!Cardinality(W)
        BY <1>1, <2>1 DEF Dispatch!Waiting, Dispatch!InQueue
    <2> QED
        BY <2>2, <2>3, <2>4, OneOrNone
<1>2. CASE kind = "event"
    <2>1. PICK W : W = Dispatch!Places(events, id)
        OBVIOUS
    <2>2. \A x, y \in W : x = y
        <3>1. /\ events \in Seq(DOMAIN emitted) /\ Rises(events) /\ DOMAIN emitted \in SUBSET Nat
            <4>1. DOMAIN emitted = 1 .. Len(emitted) /\ events \in Seq(DOMAIN emitted)
                BY DispatchTypesFacts DEF DispatchInv
            <4>2. \A m : 1 .. m \in SUBSET Nat
                OBVIOUS
            <4> QED
                BY <4>1, <4>2 DEF DispatchInv, QueuesOK
        <3>2. \A j, k \in DOMAIN events : events[j] = events[k] => j = k
            BY <3>1, RisesOnce
        <3> QED
            BY <2>1, <3>2 DEF Dispatch!Places
    <2>3. Waits(kind, id) <=> W # {}
        BY <1>2, <2>1 DEF Waits, Dispatch!Places
    <2>4. Dispatch!Waiting(kind, id) = Dispatch!Cardinality(W)
        BY <1>2, <2>1 DEF Dispatch!Waiting, Dispatch!InQueue
    <2> QED
        BY <2>2, <2>3, <2>4, OneOrNone
<1>3. CASE kind = "message"
    <2>1. PICK W : W = UNION {{c} \X Dispatch!Places(queues[c], id) : c \in DOMAIN queues}
        OBVIOUS
    <2>2. \A x \in W : \E c \in DOMAIN queues : \E k \in DOMAIN queues[c] : x = <<c, k>> /\ queues[c][k] = id
        BY <2>1 DEF Dispatch!Places
    <2>3. \A c \in DOMAIN queues : \A k \in DOMAIN queues[c] : queues[c][k] = id => <<c, k>> \in W
        BY <2>1 DEF Dispatch!Places
    <2>4. \A c \in DOMAIN queues : \A j, k \in DOMAIN queues[c] : queues[c][j] = queues[c][k] => j = k
        <3> SUFFICES ASSUME NEW c \in DOMAIN queues
                     PROVE  \A j, k \in DOMAIN queues[c] : queues[c][j] = queues[c][k] => j = k
            OBVIOUS
        <3>1. /\ queues[c] \in Seq(DOMAIN messages) /\ Rises(queues[c]) /\ DOMAIN messages \in SUBSET Nat
            <4>1. DOMAIN messages = 1 .. Len(messages) /\ queues[c] \in Seq(DOMAIN messages)
                BY DispatchTypesFacts DEF DispatchInv
            <4>2. \A m : 1 .. m \in SUBSET Nat
                OBVIOUS
            <4> QED
                BY <4>1, <4>2 DEF DispatchInv, QueuesOK, QueuesRise
        <3> QED
            BY <3>1, RisesOnce
    <2>5. \A x, y \in W : x = y
        <3> SUFFICES ASSUME NEW x \in W, NEW y \in W PROVE x = y
            OBVIOUS
        <3>1. PICK c \in DOMAIN queues : \E k \in DOMAIN queues[c] : x = <<c, k>> /\ queues[c][k] = id
            BY <2>2
        <3>2. PICK d \in DOMAIN queues : \E k \in DOMAIN queues[d] : y = <<d, k>> /\ queues[d][k] = id
            BY <2>2
        <3>3. c = d
            BY <3>1, <3>2 DEF DispatchInv, QueuesOK, QueuesApart
        <3> QED
            BY <2>4, <3>1, <3>2, <3>3
    <2>6. Waits(kind, id) <=> W # {}
        BY <1>3, <2>2, <2>3 DEF Waits
    <2>7. Dispatch!Waiting(kind, id) = Dispatch!Cardinality(W)
        BY <1>3, <2>1 DEF Dispatch!Waiting, Dispatch!InQueue
    <2> QED
        BY <2>5, <2>6, <2>7, OneOrNone
<1>4. CASE kind \in {"signal", "publish"}
    <2>1. Dispatch!Waiting(kind, id) = Dispatch!Cardinality({}) /\ ~ Waits(kind, id)
        BY <1>4 DEF Dispatch!Waiting, Dispatch!InQueue, Waits
    <2> QED
        BY <2>1, OneOrNone
<1> QED
    BY <1>1, <1>2, <1>3, <1>4 DEF Dispatch!Kinds

\* An item waits, or its call is under way, or it is over: its one place.
LEMMA EachInOnePlace == ASSUME DispatchInv PROVE Dispatch!HandledOnce
<1> SUFFICES ASSUME NEW kind \in Dispatch!Kinds, NEW id \in 1 .. Dispatch!Born(kind)
             PROVE  /\ Dispatch!Waiting(kind, id) + Dispatch!UnderWay(kind, id)
                         + Dispatch!Cardinality(Dispatch!Outcomes(kind, id)) = 1
                    /\ kind = "task" => (tasks[id].completed <=> \E e \in Dispatch!Outcomes(kind, id) : e.how = "returned")
                    /\ kind = "signal" =>
                          Dispatch!Cardinality({k \in DOMAIN trapLog : trapLog[k] = id})
                            = Dispatch!Cardinality({e \in Dispatch!Outcomes(kind, id) : e.how # "raised"})
    BY DEF Dispatch!HandledOnce
<1>1. id \in Nat /\ IsBorn(kind, id)
    <2>1. \A m : \A x \in 1 .. m : x \in Nat
        OBVIOUS
    <2> QED
        BY <2>1 DEF IsBorn
<1>2. Dispatch!Waiting(kind, id) = IF Waits(kind, id) THEN 1 ELSE 0
    BY WaitsOnce
<1>3. Dispatch!UnderWay(kind, id) = IF UnderWay(kind, id) THEN 1 ELSE 0
    <2>1. PICK W : W = {k \in DOMAIN stack : stack[k].kind = kind /\ stack[k].id = id}
        OBVIOUS
    <2>2. kind # "policies"
        BY DEF Dispatch!Kinds
    <2>3. \A x, y \in W : x = y
        BY <2>1, <2>2 DEF DispatchInv, StackOnce
    <2>4. UnderWay(kind, id) <=> W # {}
        BY <2>1 DEF UnderWay
    <2>5. Dispatch!UnderWay(kind, id) = Dispatch!Cardinality(W)
        BY <2>1 DEF Dispatch!UnderWay
    <2> QED
        BY <2>3, <2>4, <2>5, OneOrNone
<1>4. Dispatch!Cardinality(Dispatch!Outcomes(kind, id)) = IF IsOver(kind, id) THEN 1 ELSE 0
    <2>1. PICK W : W = Dispatch!Outcomes(kind, id)
        OBVIOUS
    <2>2. \A x, y \in W : x = y
        BY <2>1 DEF Dispatch!Outcomes, DispatchInv, EndedOnce
    <2>3. IsOver(kind, id) <=> W # {}
        BY <2>1 DEF Dispatch!Outcomes, IsOver
    <2> QED
        BY <2>1, <2>2, <2>3, OneOrNone
<1>5. /\ Waits(kind, id) \/ UnderWay(kind, id) \/ IsOver(kind, id)
      /\ ~ (Waits(kind, id) /\ UnderWay(kind, id)) /\ ~ (Waits(kind, id) /\ IsOver(kind, id))
      /\ ~ (UnderWay(kind, id) /\ IsOver(kind, id))
    BY <1>1 DEF DispatchInv, ItemsOK
<1>6. Dispatch!Waiting(kind, id) + Dispatch!UnderWay(kind, id)
         + Dispatch!Cardinality(Dispatch!Outcomes(kind, id)) = 1
    BY <1>2, <1>3, <1>4, <1>5
<1>7. kind = "task" => (tasks[id].completed <=> \E e \in Dispatch!Outcomes(kind, id) : e.how = "returned")
    <2> SUFFICES ASSUME kind = "task" PROVE tasks[id].completed <=> \E e \in Dispatch!Outcomes(kind, id) : e.how = "returned"
        OBVIOUS
    <2>1. id \in DOMAIN tasks
        <3>1. DOMAIN tasks = 1 .. Len(tasks)
            BY DispatchTypesFacts DEF DispatchInv
        <3> QED
            BY <3>1 DEF Dispatch!Born
    <2>2. Returned(id) <=> \E e \in Dispatch!Outcomes(kind, id) : e.how = "returned"
        BY DEF Returned, Dispatch!Outcomes
    <2> QED
        BY <2>1, <2>2 DEF DispatchInv, TasksTell
<1>8. kind = "signal" =>
          Dispatch!Cardinality({k \in DOMAIN trapLog : trapLog[k] = id})
            = Dispatch!Cardinality({e \in Dispatch!Outcomes(kind, id) : e.how # "raised"})
    <2> SUFFICES ASSUME kind = "signal"
                 PROVE  Dispatch!Cardinality({k \in DOMAIN trapLog : trapLog[k] = id})
                          = Dispatch!Cardinality({e \in Dispatch!Outcomes(kind, id) : e.how # "raised"})
        OBVIOUS
    <2>1. PICK W : W = {k \in DOMAIN trapLog : trapLog[k] = id}
        OBVIOUS
    <2>2. PICK V : V = {e \in Dispatch!Outcomes(kind, id) : e.how # "raised"}
        OBVIOUS
    <2>3. \A x, y \in W : x = y
        BY <2>1 DEF DispatchInv, TrapsTell
    <2>4. \A x, y \in V : x = y
        BY <2>2 DEF Dispatch!Outcomes, DispatchInv, EndedOnce
    <2>5. W # {} <=> NotRaised(id)
        BY <1>1, <2>1 DEF DispatchInv, TrapsTell
    <2>6. V # {} <=> NotRaised(id)
        BY <2>2 DEF Dispatch!Outcomes, NotRaised
    <2> QED
        BY <2>1, <2>2, <2>3, <2>4, <2>5, <2>6, OneOrNone
<1> QED
    BY <1>6, <1>7, <1>8

LEMMA DispatchFacts ==
    ASSUME DispatchInv
    PROVE  Dispatch!TypeOK /\ Dispatch!HandledOnce /\ Dispatch!TakenInOrder
<1>1. Dispatch!TypeOK
    BY DEF DispatchInv, DispatchTypes
<1>2. Dispatch!HandledOnce
    BY EachInOnePlace
<1>3. Dispatch!TakenInOrder
    BY DEF DispatchInv, TakenOK, ReadySorted, Dispatch!TakenInOrder
<1> QED
    BY <1>1, <1>2, <1>3

\* The services through which the kernel's parts call each other, however the calls are
\* nested and whichever of them raise: every task, message, signal and event is handled
\* once, and messages, events and tasks are taken in their order.
THEOREM DispatchKept == Dispatch!Spec => [](Dispatch!TypeOK /\ Dispatch!HandledOnce /\ Dispatch!TakenInOrder)
<1>1. DispatchInv => Dispatch!TypeOK /\ Dispatch!HandledOnce /\ Dispatch!TakenInOrder
    BY DispatchFacts
<1> QED
    BY <1>1, DispatchInvariance, PTL

-----------------------------------------------------------------------------
(* The services together: each makes its own steps. *)

MCVars == <<under, dispatchVars, tableVars, memoryVars, zoneVars, engineVars, routingVars>>

LEMMA AllRest == UNCHANGED MCVars => UNCHANGED <<dispatchVars, tableVars, memoryVars, zoneVars, engineVars, routingVars>>
    BY DEF MCVars

LEMMA DispatchRests == UNCHANGED dispatchVars => UNCHANGED Dispatch!vars
    BY DEF dispatchVars, Dispatch!vars, Dispatch!scheduler, Dispatch!ipc, Dispatch!signaling, Dispatch!bus,
           Dispatch!runtime, Dispatch!history

LEMMA EnginesRest == UNCHANGED engineVars => UNCHANGED Engines!vars
    BY DEF engineVars, Engines!vars

LEMMA ZonesRest == UNCHANGED zoneVars => UNCHANGED Zones!vars
    BY DEF zoneVars, Zones!vars

LEMMA RoutingRests == UNCHANGED routingVars => UNCHANGED Routing!vars
    BY DEF routingVars, Routing!vars

LEMMA DispatchingSteps ==
    ASSUME DispatchInv, Dispatching
    PROVE  Dispatch!Next /\ UNCHANGED <<tableVars, memoryVars, zoneVars, engineVars, routingVars>>
<1>1. DOMAIN handlers = {"message", "signal", "event"}
    BY DispatchTypesFacts DEF DispatchInv
<1>2. UNCHANGED <<tableVars, memoryVars, zoneVars, engineVars, routingVars>>
    BY DEF Dispatching
<1>3. CASE Dispatch!Returns \/ Dispatch!Raises \/ Dispatch!RunOnce \/ Dispatch!PolicyReturns \/ Dispatch!Tick
    BY <1>2, <1>3 DEF Dispatch!Next
<1>4. CASE \E p \in Priorities : Dispatch!AddTask(p) \/ Dispatch!PolicyDrops(p)
    BY <1>2, <1>4 DEF Dispatch!Next
<1>5. CASE (\E n \in Policies : Dispatch!AddPolicy(n)) \/ (\E i \in DOMAIN tasks : Dispatch!PolicyBoosts(i))
    BY <1>2, <1>5 DEF Dispatch!Next
<1>6. ASSUME NEW n \in Labels,
             \/ Dispatch!CreateChannel(n) \/ Dispatch!Send(n) \/ Dispatch!DispatchMessage(n) \/ Dispatch!RaiseSignal(n)
             \/ Dispatch!CreateBusChannel(n) \/ Dispatch!Subscribe(n) \/ Dispatch!Publish(n) \/ Dispatch!Emit(n)
      PROVE  Dispatch!Next
    BY <1>6 DEF Dispatch!Next
<1>7. ASSUME NEW n \in Labels, NEW kind \in {"message", "signal", "event"}, Dispatch!RegisterHandler(kind, n)
      PROVE  Dispatch!Next
    BY <1>1, <1>7 DEF Dispatch!Next
<1> QED
    BY <1>2, <1>3, <1>4, <1>5, <1>6, <1>7 DEF Dispatching

LEMMA RunningSteps ==
    ASSUME Running
    PROVE  Engines!Next /\ UNCHANGED <<dispatchVars, tableVars, memoryVars, zoneVars, routingVars>>
<1>1. First \in Nodes
    BY NodesAssumption DEF First
<1>2. UNCHANGED <<dispatchVars, tableVars, memoryVars, zoneVars, routingVars>>
    BY DEF Running
<1>3. CASE \/ Engines!Step \/ Engines!RunFlow \/ Engines!RunPipeline \/ Engines!RunPhase \/ Engines!Execute
           \/ Engines!RunWorldTick \/ Engines!CreateSession \/ Engines!RunModelStep \/ Engines!RunFunction
           \/ Engines!InitializeModel
    BY <1>2, <1>3 DEF Engines!Next
<1>4. ASSUME NEW n \in Nodes, Engines!AddNode(n) \/ Engines!AddProcess(n) \/ Engines!AttachProcess(n) PROVE Engines!Next
    BY <1>4 DEF Engines!Next, Engines!Compose
<1>5. ASSUME NEW n \in Nodes, NEW m \in Nodes, Engines!AddLink(n, m) PROVE Engines!Next
    BY <1>5 DEF Engines!Next, Engines!Compose
<1>6. ASSUME NEW n \in Nodes, NEW k \in {"flow", "pipeline", "phase", "rules"}, Engines!AddItem(k, n) PROVE Engines!Next
    <2>1. k \in {"flow", "pipeline", "attached", "phase", "rules"} \ {"attached"}
        OBVIOUS
    <2> QED
        BY <1>6, <2>1 DEF Engines!Next, Engines!Compose
<1> QED
    BY <1>1, <1>2, <1>3, <1>4, <1>5, <1>6 DEF Running

\* Every service but one rests in a step.
LEMMA OneServiceSteps ==
    ASSUME DispatchInv, [MCNext]_MCVars
    PROVE  /\ [Dispatch!Next]_Dispatch!vars /\ [TableNext]_tableVars /\ [Next]_vars
           /\ [Zones!Next]_Zones!vars /\ [Engines!Next]_Engines!vars /\ [Routing!Next]_Routing!vars
<1>1. memoryVars' = memoryVars <=> UNCHANGED vars
    BY DEF memoryVars
<1>2. CASE UNCHANGED MCVars
    BY <1>1, <1>2, AllRest, DispatchRests, EnginesRest, ZonesRest, RoutingRests
<1>3. CASE Dispatching
    BY <1>1, <1>3, DispatchingSteps, EnginesRest, ZonesRest, RoutingRests
<1>4. CASE Running
    BY <1>1, <1>4, RunningSteps, DispatchRests, ZonesRest, RoutingRests
<1>5. CASE TableNext /\ UNCHANGED <<dispatchVars, memoryVars, zoneVars, engineVars, routingVars>>
    BY <1>1, <1>5, DispatchRests, EnginesRest, ZonesRest, RoutingRests
<1>6. CASE Next /\ UNCHANGED <<dispatchVars, tableVars, zoneVars, engineVars, routingVars>>
    BY <1>6, DispatchRests, EnginesRest, ZonesRest, RoutingRests
<1>7. CASE Zones!Next /\ UNCHANGED <<dispatchVars, tableVars, memoryVars, engineVars, routingVars>>
    BY <1>1, <1>7, DispatchRests, EnginesRest, RoutingRests
<1>8. CASE Routing!Next /\ UNCHANGED <<dispatchVars, tableVars, memoryVars, zoneVars, engineVars>>
    BY <1>1, <1>8, DispatchRests, EnginesRest, ZonesRest
<1> QED
    BY <1>2, <1>3, <1>4, <1>5, <1>6, <1>7, <1>8 DEF MCNext

LEMMA ServicesTogether ==
    MCSpec => []DispatchInv /\ TableSpec /\ Spec /\ Zones!Spec /\ Engines!Spec /\ Routing!Spec
<1>1. MCInit => DispatchInv /\ TableInit /\ Init /\ Zones!Init /\ Engines!Init /\ Routing!Init
    BY DispatchInit DEF MCInit
<1>2. DispatchInv /\ [MCNext]_MCVars =>
          /\ DispatchInv'
          /\ [TableNext]_tableVars /\ [Next]_vars
          /\ [Zones!Next]_Zones!vars /\ [Engines!Next]_Engines!vars /\ [Routing!Next]_Routing!vars
    BY OneServiceSteps, DispatchNext
<1>3. MCSpec <=> MCInit /\ [][MCNext]_MCVars
    BY DEF MCSpec, MCVars
<1> QED
    BY <1>1, <1>2, <1>3, PTL DEF TableSpec, Spec, Zones!Spec, Engines!Spec, Routing!Spec

LEMMA ServicesHold ==
    MCSpec => []( /\ DispatchInv /\ ProcessInv /\ MemoryInv /\ ZonesInv /\ EnginesInv /\ RoutingInv )
<1>1. Spec => []MemoryInv
    BY MemoryAssumption, MemoryInvariance
<1> QED
    BY <1>1, ServicesTogether, TableInvariance, ZonesInvariance, EnginesInvariance, RoutingInvariance, PTL

\* The types of all services; processes, memory, zones, sessions and routes are consistent.
THEOREM ServicesKept == MCSpec => []ServicesInv
<1>1. ASSUME DispatchInv, ProcessInv, MemoryInv, ZonesInv, EnginesInv, RoutingInv PROVE ServicesInv
    <2>1. TableTypeOK /\ RunningIsRunning /\ TypeOK /\ UsedExplained /\ WithinCapacity
        BY <1>1 DEF ProcessInv, MemoryInv
    <2>2. Dispatch!TypeOK
        BY <1>1, DispatchFacts
    <2>3. Zones!TypeOK /\ Zones!ZonesConsistent
        BY <1>1, ZonesFacts
    <2>4. Engines!TypeOK /\ Engines!SessionsTell /\ Engines!StepsKept
        BY <1>1, EnginesFacts
    <2>5. Routing!TypeOK /\ Routing!DispatchFollows
        BY <1>1, RoutingFacts DEF RoutingInv
    <2> QED
        BY <2>1, <2>2, <2>3, <2>4, <2>5 DEF ServicesInv
<1> QED
    BY <1>1, ServicesHold, PTL

\* scheduler, ipc, signals, event_bus and runtime: every item is handled once, whichever
\* calls are nested and raise.
THEOREM HandledOnceKept == MCSpec => []HandledOnce
<1>1. DispatchInv => HandledOnce
    BY DispatchFacts DEF HandledOnce
<1> QED
    BY <1>1, ServicesHold, PTL

\* The same services take messages, events and tasks in order.
THEOREM TakenInOrderKept == MCSpec => []TakenInOrder
<1>1. DispatchInv => TakenInOrder
    BY DispatchFacts DEF TakenInOrder
<1> QED
    BY <1>1, ServicesHold, PTL

\* orchestration, tec, build and sim: a run that returned executed its list.
THEOREM RunsCompleteKept == MCSpec => []RunsComplete
<1>1. EnginesInv => RunsComplete
    BY EnginesFacts DEF RunsComplete
<1> QED
    BY <1>1, ServicesHold, PTL
=============================================================================
