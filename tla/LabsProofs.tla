------------------------------- MODULE LabsProofs -------------------------------
(* Theorems about racecrash.c, the exercises on threads and the pairs of          *)
(* process/ipc, for any number of producers, any modulus of the register, any     *)
(* number of threads, iterations, tries, processes and messages: one invariant    *)
(* for each exercise, which the steps of the others leave alone.                  *)
EXTENDS MCLabs, Sequences, FiniteSetTheorems, WellFoundedInduction, TLAPS

-----------------------------------------------------------------------------
(* racecrash.c: with the lock on the read nobody touches memory that is not      *)
(* allocated, wherever realloc puts the array; without it the producers still     *)
(* do not, unless realloc has failed.                                             *)

Pushing == {"push", "write", "count"}
Reading == {"count", "data", "sum"}

\* The lock is held exactly by the producer that pushes, or the monitor that reads
\* in the fixed build.
LockInv ==
    /\ \A p \in Producers : lock = p <=> ppc[p] \in Pushing
    /\ lock = "monitor" <=> lockedRead /\ mpc \in Reading

\* The array has the size the store thinks it has, and room where a producer is
\* about to write; without an array a producer is about to find that out.
HeapInv ==
    /\ count <= capacity
    /\ data # "NULL" => size[data] = capacity
    /\ data = "NULL" => \E p \in Producers : ppc[p] = "write"
    /\ \A p \in Producers : ppc[p] = "write" => count < capacity
    /\ \A p \in Producers : ppc[p] = "count" => slot[p] = count /\ count < capacity

\* What the monitor of the fixed build has read is still so.
ReadInv ==
    lockedRead =>
        /\ mpc \in {"data", "sum"} => seen = count
        /\ mpc = "sum" => d = data

\* After a bad access the process has ended and nothing more is to be shown.
StoreInv ==
    /\ TypeOK
    /\ AccessesAreAllocated
    /\ Alive => LockInv /\ HeapInv /\ ReadInv

\* The initial state.
LEMMA StoreInit == ASSUME StoreAssumption, Init PROVE StoreInv
<1> USE DEF StoreAssumption, Init
<1>1. TypeOK
  BY DEF TypeOK
<1>2. LockInv
  BY DEF LockInv, Pushing, Reading
<1>3. HeapInv /\ ReadInv
  BY DEF HeapInv, ReadInv
<1>4. AccessesAreAllocated
  BY DEF AccessesAreAllocated
<1> QED  BY <1>1, <1>2, <1>3, <1>4 DEF StoreInv

\* The numbers and the functions to numbers.
LEMMA Numbers ==
    ASSUME TypeOK
    PROVE  /\ count \in Nat /\ capacity \in Nat /\ seen \in Nat /\ i \in Nat
           /\ size \in [Addresses -> Nat] /\ slot \in [Producers -> Nat]
           /\ pushed \in [Producers -> Nat] /\ data \in Addresses \cup {"NULL"}
  BY DEF TypeOK

\* Every step keeps the types.
LEMMA TypeStep == ASSUME StoreAssumption, TypeOK, [Next]_vars PROVE TypeOK'
<1> USE DEF store, monitor, At, MonitorAt
<1>1. ASSUME NEW p \in Producers, Push(p) \/ LeaveLoop(p) \/ NoGrowth(p)
      PROVE  TypeOK'
  BY <1>1 DEF Push, LeaveLoop, NoGrowth, Take, TypeOK
<1>2. ASSUME NEW p \in Producers, Grow(p)
      PROVE  TypeOK'
  <2>1. capacity' \in Nat
    BY <1>2, Numbers DEF Grow, StoreAssumption
  <2>2. /\ data' \in Addresses \cup {"NULL"}
        /\ size' \in [Addresses -> Nat]
    BY <1>2, <2>1, Numbers DEF Grow, Realloc
  <2>3. /\ ppc' = [ppc EXCEPT ![p] = "write"]
        /\ UNCHANGED <<lockedRead, running, lock, count, slot, pushed, mpc, seen, d, i, fault>>
    BY <1>2 DEF Grow
  <2> QED  BY <2>1, <2>2, <2>3 DEF TypeOK
<1>3. ASSUME NEW p \in Producers, Write(p)
      PROVE  TypeOK'
  BY <1>3 DEF Write, TypeOK
<1>4. ASSUME NEW p \in Producers, CountAndUnlock(p)
      PROVE  TypeOK'
  <2>1. count' \in Nat /\ pushed' \in [Producers -> Nat]
    BY <1>4, Numbers DEF CountAndUnlock
  <2>2. /\ ppc' = [ppc EXCEPT ![p] = "loop"] /\ lock' = "nobody"
        /\ UNCHANGED <<lockedRead, running, data, capacity, size, slot, mpc, seen, d, i, fault>>
    BY <1>4 DEF CountAndUnlock
  <2> QED  BY <2>1, <2>2 DEF TypeOK
<1>5. CASE BeginStats \/ ReadCount \/ ReadData \/ MonitorLeaves
  <2>1. /\ lock' \in {lock, "monitor"} /\ mpc' \in {"count", "data", "sum", "done"}
        /\ seen' \in {seen, count} /\ d' \in {d, data} /\ i' \in {i, 0}
        /\ UNCHANGED <<lockedRead, running, data, count, capacity, size, ppc, slot, pushed, fault>>
    BY <1>5 DEF BeginStats, ReadCount, ReadData, MonitorLeaves, LockToRead
  <2>2. seen' \in Nat /\ i' \in Nat
    BY <2>1, Numbers
  <2>3. d' \in Addresses \cup {"NULL"} /\ lock' \in Producers \cup {"monitor", "nobody"}
    BY <2>1 DEF TypeOK
  <2> QED  BY <2>1, <2>2, <2>3 DEF TypeOK
<1>6. CASE Sum
  <2>1. i' = i + 1
    BY <1>6 DEF Sum
  <2>2. i' \in Nat
    BY <2>1, Numbers
  <2>3. /\ fault' \in {"none", "bad read"} /\ mpc' = "sum"
        /\ UNCHANGED <<lockedRead, running, lock, data, count, capacity, size, ppc, slot, pushed,
                       seen, d>>
    BY <1>6 DEF Sum
  <2> QED  BY <2>2, <2>3 DEF TypeOK
<1>7. CASE EndStats
  <2>1. /\ lock' \in {lock, "nobody"} /\ mpc' = "loop"
        /\ UNCHANGED <<lockedRead, running, data, count, capacity, size, ppc, slot, pushed,
                       seen, d, i, fault>>
    BY <1>7 DEF EndStats
  <2> QED  BY <2>1 DEF TypeOK
<1>8. CASE Stop \/ UNCHANGED vars
  BY <1>8 DEF Stop, vars, TypeOK
<1> QED  BY <1>1, <1>2, <1>3, <1>4, <1>5, <1>6, <1>7, <1>8 DEF Next, Producer, Monitor, Ended

-----------------------------------------------------------------------------
(* The producers.                                                            *)

\* The step of one producer moves its control point and no other.
LEMMA OneMoves ==
    ASSUME TypeOK, NEW p \in Producers, NEW from, NEW to, At(p, from, to)
    PROVE  /\ Alive /\ ppc[p] = from /\ ppc'[p] = to
           /\ \A q \in Producers : q # p => ppc'[q] = ppc[q]
  BY DEF At, TypeOK

\* A producer inside excludes the others and the monitor of the fixed build.
LEMMA Alone ==
    ASSUME StoreAssumption, LockInv, NEW p \in Producers, ppc[p] \in Pushing
    PROVE  /\ lock = p
           /\ \A q \in Producers : q # p => ppc[q] \notin Pushing
           /\ ~(lockedRead /\ mpc \in Reading)
  BY DEF StoreAssumption, LockInv

\* The steps of a producer.
LEMMA ProducerKeeps ==
    ASSUME StoreAssumption, StoreInv, NEW p \in Producers, Producer(p)
    PROVE  AccessesAreAllocated' /\ (Alive' => LockInv' /\ HeapInv' /\ ReadInv')
<1> USE DEF StoreInv
<1>1. Alive /\ LockInv /\ HeapInv /\ ReadInv
  BY DEF Producer, Push, LeaveLoop, Grow, NoGrowth, Write, CountAndUnlock, At
<1>2. CASE Push(p)
  <2>1. /\ ppc'[p] = "push" /\ ppc[p] = "loop" /\ \A q \in Producers : q # p => ppc'[q] = ppc[q]
        /\ lock = "nobody" /\ lock' = p
        /\ UNCHANGED <<lockedRead, data, count, capacity, size, slot, mpc, seen, d, i, fault>>
    BY <1>2, OneMoves DEF Push, Take, store, monitor
  <2>2. LockInv'
    BY <1>1, <2>1 DEF LockInv, Pushing, Reading, StoreAssumption
  <2>3. HeapInv'
    BY <1>1, <2>1 DEF HeapInv
  <2>4. ReadInv' /\ AccessesAreAllocated'
    BY <1>1, <2>1 DEF ReadInv, AccessesAreAllocated
  <2> QED  BY <2>2, <2>3, <2>4
<1>3. CASE LeaveLoop(p) \/ NoGrowth(p)
  <2>1. /\ \/ ppc[p] = "loop" /\ ppc'[p] = "done"
           \/ ppc[p] = "push" /\ ppc'[p] = "write" /\ count # capacity
        /\ \A q \in Producers : q # p => ppc'[q] = ppc[q]
        /\ UNCHANGED <<lockedRead, lock, data, count, capacity, size, slot, mpc, seen, d, i, fault>>
    BY <1>3, OneMoves DEF LeaveLoop, NoGrowth, NeedsRoom, store, monitor
  <2>2. LockInv'
    BY <1>1, <2>1 DEF LockInv, Pushing, Reading
  <2>3. count \in Nat /\ capacity \in Nat
    BY Numbers DEF StoreInv
  <2>4. HeapInv'
    BY <1>1, <2>1, <2>3 DEF HeapInv
  <2>5. ReadInv' /\ AccessesAreAllocated'
    BY <1>1, <2>1 DEF ReadInv, AccessesAreAllocated
  <2> QED  BY <2>2, <2>4, <2>5
<1>4. CASE Grow(p)
  <2>1. /\ ppc[p] = "push" /\ ppc'[p] = "write"
        /\ \A q \in Producers : q # p => ppc'[q] = ppc[q]
        /\ count = capacity /\ capacity' = capacity + GrowthChunk
        /\ UNCHANGED <<lockedRead, lock, count, slot, mpc, seen, d, i, fault>>
    BY <1>4, OneMoves DEF Grow, NeedsRoom, monitor
  <2>2. data' # "NULL" => data' \in Addresses /\ size'[data'] = capacity'
    <3>1. PICK a \in Addresses \cup {"NULL"} : Realloc(a)
      BY <1>4 DEF Grow
    <3>2. data' = a
      BY <3>1 DEF Realloc
    <3>3. a \in Addresses => size'[a] = capacity'
      BY <3>1 DEF Realloc
    <3> QED  BY <3>2, <3>3
  <2>3. /\ \A q \in Producers : q # p => ppc[q] \notin Pushing
        /\ ~(lockedRead /\ mpc \in Reading)
    BY <1>1, <2>1, Alone DEF Pushing
  <2>4. LockInv'
    BY <1>1, <2>1 DEF LockInv, Pushing, Reading
  <2>5. count < capacity' /\ count <= capacity'
    BY <2>1, Numbers DEF StoreAssumption, StoreInv
  <2>6. HeapInv'
    BY <2>1, <2>2, <2>3, <2>5 DEF HeapInv, Pushing
  <2>7. ReadInv' /\ AccessesAreAllocated'
    BY <1>1, <2>1, <2>3 DEF ReadInv, AccessesAreAllocated, Reading, Alive
  <2> QED  BY <2>4, <2>6, <2>7
<1>5. CASE Write(p)
  <2>1. /\ ppc[p] = "write" /\ ppc'[p] = "count"
        /\ \A q \in Producers : q # p => ppc'[q] = ppc[q]
        /\ slot' = [slot EXCEPT ![p] = count]
        /\ fault' = IF data # "NULL" /\ count < size[data] THEN "none" ELSE "bad write"
        /\ UNCHANGED <<lockedRead, lock, data, count, capacity, size, mpc, seen, d, i>>
    BY <1>5, OneMoves DEF Write, store, monitor
  <2>2. \A q \in Producers : q # p => ppc[q] \notin Pushing
    BY <1>1, <2>1, Alone DEF Pushing
  <2>3. count < capacity /\ (data # "NULL" => size[data] = capacity)
    BY <1>1, <2>1 DEF HeapInv
  <2>4. LockInv'
    BY <1>1, <2>1 DEF LockInv, Pushing, Reading
  <2>5. slot'[p] = count
    BY <2>1 DEF TypeOK
  <2>6. Alive' => HeapInv'
    BY <1>1, <2>1, <2>2, <2>3, <2>5 DEF HeapInv, Alive, Pushing
  <2>7. ReadInv'
    BY <1>1, <2>1 DEF ReadInv
  <2>8. AccessesAreAllocated'
    BY <2>1, <2>3 DEF AccessesAreAllocated
  <2> QED  BY <2>4, <2>6, <2>7, <2>8
<1>6. CASE CountAndUnlock(p)
  <2>1. /\ ppc[p] = "count" /\ ppc'[p] = "loop"
        /\ \A q \in Producers : q # p => ppc'[q] = ppc[q]
        /\ count' = slot[p] + 1 /\ lock' = "nobody"
        /\ UNCHANGED <<lockedRead, data, capacity, size, slot, mpc, seen, d, i, fault>>
    BY <1>6, OneMoves DEF CountAndUnlock, monitor
  <2>2. /\ \A q \in Producers : q # p => ppc[q] \notin Pushing
        /\ ~(lockedRead /\ mpc \in Reading) /\ lock = p
    BY <1>1, <2>1, Alone DEF Pushing
  <2>3. LockInv'
    BY <2>1, <2>2 DEF LockInv, Pushing, Reading, StoreAssumption
  <2>4. slot[p] = count /\ count < capacity /\ count \in Nat /\ capacity \in Nat
    BY <1>1, <2>1, Numbers DEF HeapInv, StoreInv
  <2>5. count' <= capacity
    BY <2>1, <2>4
  <2>6. data # "NULL"
    BY <1>1, <2>1, <2>2 DEF HeapInv, Pushing
  <2>7. HeapInv'
    BY <1>1, <2>1, <2>2, <2>5, <2>6 DEF HeapInv, Pushing
  <2>8. ReadInv' /\ AccessesAreAllocated'
    BY <1>1, <2>1, <2>2 DEF ReadInv, AccessesAreAllocated, Reading, Alive
  <2> QED  BY <2>3, <2>7, <2>8
<1> QED  BY <1>2, <1>3, <1>4, <1>5, <1>6 DEF Producer

-----------------------------------------------------------------------------
(* The monitor.                                                              *)

\* The steps of the monitor, in both builds.
LEMMA MonitorKeeps ==
    ASSUME StoreAssumption, StoreInv, Monitor
    PROVE  AccessesAreAllocated' /\ (Alive' => LockInv' /\ HeapInv' /\ ReadInv')
<1> USE DEF StoreInv, store
<1>1. Alive /\ LockInv /\ HeapInv /\ ReadInv
  BY DEF Monitor, BeginStats, ReadCount, ReadData, Sum, EndStats, MonitorLeaves, MonitorAt
<1>2. UNCHANGED <<lockedRead, data, count, capacity, size, ppc, slot>>
  BY DEF Monitor, BeginStats, ReadCount, ReadData, Sum, EndStats, MonitorLeaves
<1>3. HeapInv'
  BY <1>1, <1>2 DEF HeapInv
<1>4. LockInv'
  BY <1>1, <1>2 DEF Monitor, BeginStats, ReadCount, ReadData, Sum, EndStats, MonitorLeaves,
                    MonitorAt, LockToRead, LockInv, Reading, StoreAssumption
<1>5. ReadInv'
  BY <1>1, <1>2 DEF Monitor, BeginStats, ReadCount, ReadData, Sum, EndStats, MonitorLeaves,
                    MonitorAt, ReadInv
<1>6. AccessesAreAllocated'
  <2>1. CASE Sum
    <3>0. fault' \in {"none", "bad read"}
      BY <2>1 DEF Sum
    <3> SUFFICES ASSUME lockedRead
                 PROVE  fault' = "none"
      BY <1>2, <3>0 DEF AccessesAreAllocated
    <3>1. mpc = "sum" /\ i < seen /\ seen = count /\ d = data
      BY <1>1, <2>1 DEF Sum, MonitorAt, ReadInv
    <3>2. lock = "monitor"
      BY <1>1, <3>1 DEF LockInv, Reading
    <3>3. \A p \in Producers : ppc[p] # "write"
      BY <1>1, <3>2 DEF LockInv, Pushing, StoreAssumption
    <3>4. data # "NULL" /\ size[data] = capacity /\ count <= capacity
      BY <1>1, <3>3 DEF HeapInv
    <3>5. i < size[d]
      BY <3>1, <3>4, Numbers DEF StoreInv
    <3> QED  BY <2>1, <3>1, <3>4, <3>5 DEF Sum
  <2>2. CASE BeginStats \/ ReadCount \/ ReadData \/ EndStats \/ MonitorLeaves
    BY <1>2, <2>2 DEF BeginStats, ReadCount, ReadData, EndStats, MonitorLeaves, AccessesAreAllocated
  <2> QED  BY <2>1, <2>2 DEF Monitor
<1> QED  BY <1>3, <1>4, <1>5, <1>6

\* The invariant over every step.
LEMMA StoreStep == ASSUME StoreAssumption, StoreInv, [Next]_vars PROVE StoreInv'
<1>1. TypeOK'
  BY TypeStep DEF StoreInv
<1>2. ASSUME NEW p \in Producers, Producer(p)
      PROVE  StoreInv'
  BY <1>1, <1>2, ProducerKeeps DEF StoreInv
<1>3. CASE Monitor
  BY <1>1, <1>3, MonitorKeeps DEF StoreInv
<1>4. CASE Stop \/ UNCHANGED vars
  <2>1. UNCHANGED <<lockedRead, lock, data, count, capacity, size, ppc, slot, mpc, seen, d, fault>>
    BY <1>4 DEF Stop, vars, store, monitor
  <2>2. AccessesAreAllocated' /\ (Alive' => Alive)
    BY <2>1 DEF StoreInv, AccessesAreAllocated, Alive
  <2>3. /\ LockInv => LockInv'
        /\ HeapInv => HeapInv'
        /\ ReadInv => ReadInv'
    BY <2>1 DEF LockInv, HeapInv, ReadInv
  <2> QED  BY <1>1, <2>2, <2>3 DEF StoreInv
<1> QED  BY <1>2, <1>3, <1>4 DEF Next, Ended

\* The fixed build of racecrash.c never reads memory that is not allocated, and no
\* build writes outside the array unless a realloc has failed: for any number of
\* producers, any growth and any placement of the array.
THEOREM NoUseAfterFree == StoreAssumption => (Spec => []AccessesAreAllocated)
<1> SUFFICES ASSUME StoreAssumption
             PROVE  Spec => []AccessesAreAllocated
  OBVIOUS
<1>1. Init => StoreInv
  BY StoreInit
<1>2. StoreInv /\ [Next]_vars => StoreInv'
  BY StoreStep
<1>3. StoreInv => AccessesAreAllocated
  BY DEF StoreInv
<1> QED  BY <1>1, <1>2, <1>3, PTL DEF Spec

-----------------------------------------------------------------------------
(* Sums over a finite set.  The provers take no induction over sets; a least *)
(* counterexample, which WFMin gives for a set of numbers, does as well.     *)

\* Every set of numbers has a least one: induction in the form the provers can use.
LEMMA LeastNumber ==
    ASSUME NEW W, W \subseteq Nat, W # {}
    PROVE  \E n \in W : \A m \in W : n <= m
  <1>1. PICK n \in W : \A m \in W : ~ (<<m, n>> \in OpToRel(<, Nat))
    BY NatLessThanWellFounded, WFMin
  <1>2. \A m \in W : ~(m < n)
    BY <1>1 DEF OpToRel
  <1> QED  BY <1>2

\* The sum of f over S, as NoSampleLost has it, and the member that the fold takes first.
Total(f, S) == MapThenSumSet(LAMBDA p : f[p], S)
Pick(T) == CHOOSE x \in T : TRUE

\* g adds f up over every set of at most n members of S, as the fold does.
Adds(f, S, n, g) ==
    \A T \in SUBSET S : Cardinality(T) <= n =>
        /\ g[T] \in Nat
        /\ g[T] = IF T = {} THEN 0 ELSE f[Pick(T)] + g[T \ {Pick(T)}]

\* A set without the member that is taken first is smaller by one.
LEMMA WithoutOne ==
    ASSUME NEW S, IsFiniteSet(S), NEW T \in SUBSET S, T # {}
    PROVE  /\ Pick(T) \in T /\ Pick(T) \in S
           /\ T \ {Pick(T)} \in SUBSET S
           /\ Cardinality(T) \in Nat
           /\ Cardinality(T) > 0
           /\ Cardinality(T \ {Pick(T)}) = Cardinality(T) - 1
  <1>1. Pick(T) \in T /\ Pick(T) \in S
    BY DEF Pick
  <1>2. IsFiniteSet(T)
    BY FS_Subset
  <1>3. Cardinality(T) \in Nat /\ Cardinality(T \ {Pick(T)}) = Cardinality(T) - 1
    BY <1>1, <1>2, FS_RemoveElement, FS_CardinalityType
  <1>4. Cardinality(T \ {Pick(T)}) \in Nat
    BY <1>2, FS_Subset, FS_CardinalityType
  <1> QED  BY <1>1, <1>3, <1>4

\* Such a g exists for every size, by the least size for which there is none.
LEMMA SumsExist ==
    ASSUME NEW S, IsFiniteSet(S), NEW f \in [S -> Nat], NEW n \in Nat
    PROVE  \E g \in [SUBSET S -> Nat] : Adds(f, S, n, g)
  <1> DEFINE W == {k \in Nat : ~ \E g \in [SUBSET S -> Nat] : Adds(f, S, k, g)}
  <1>1. SUFFICES ASSUME W # {} PROVE FALSE
    OBVIOUS
  <1>2. PICK k \in W : \A m \in W : k <= m
    BY <1>1, LeastNumber
  <1>3. ASSUME k = 0 PROVE FALSE
    <2> DEFINE g == [T \in SUBSET S |-> 0]
    <2>1. ASSUME NEW T \in SUBSET S, Cardinality(T) <= 0 PROVE T = {}
      <3>1. SUFFICES ASSUME T # {} PROVE FALSE
        OBVIOUS
      <3>2. Cardinality(T) \in Nat /\ Cardinality(T) > 0
        BY <3>1, WithoutOne
      <3> QED  BY <2>1, <3>2
    <2>2. Adds(f, S, 0, g)
      BY <2>1 DEF Adds
    <2> QED  BY <1>2, <1>3, <2>2
  <1>4. ASSUME k # 0 PROVE FALSE
    <2>1. k \in Nat /\ k - 1 \in Nat /\ k - 1 \notin W
      <3>1. k \in Nat
        BY <1>2
      <3> HIDE DEF W
      <3>2. k - 1 \in Nat /\ ~(k <= k - 1)
        BY <1>4, <3>1
      <3> QED  BY <1>2, <3>1, <3>2
    <2>2. PICK h \in [SUBSET S -> Nat] : Adds(f, S, k - 1, h)
      BY <2>1
    <2> DEFINE g == [T \in SUBSET S |-> IF T = {} THEN 0 ELSE f[Pick(T)] + h[T \ {Pick(T)}]]
    <2>3. g \in [SUBSET S -> Nat]
      <3>1. ASSUME NEW T \in SUBSET S, T # {} PROVE f[Pick(T)] + h[T \ {Pick(T)}] \in Nat
        <4>1. f[Pick(T)] \in Nat /\ h[T \ {Pick(T)}] \in Nat
          BY <3>1, WithoutOne
        <4> QED  BY <4>1
      <3> QED  BY <3>1
    <2>4. ASSUME NEW T \in SUBSET S, Cardinality(T) <= k
          PROVE  g[T] = IF T = {} THEN 0 ELSE f[Pick(T)] + g[T \ {Pick(T)}]
      <3>1. CASE T = {}
        BY <3>1
      <3>2. CASE T # {}
        <4> DEFINE R == T \ {Pick(T)}
        <4>1. R \in SUBSET S /\ Cardinality(R) <= k - 1
          <5>1. /\ R \in SUBSET S /\ Cardinality(T) \in Nat
                /\ Cardinality(R) = Cardinality(T) - 1
            BY <3>2, WithoutOne
          <5> HIDE DEF R
          <5>2. k \in Nat /\ Cardinality(T) <= k
            BY <2>1, <2>4
          <5> QED  BY <5>1, <5>2
        <4>2. h[R] = IF R = {} THEN 0 ELSE f[Pick(R)] + h[R \ {Pick(R)}]
          BY <2>2, <4>1 DEF Adds
        <4>3. g[R] = h[R]
          BY <4>1, <4>2
        <4> QED  BY <3>2, <4>3
      <3> QED  BY <3>1, <3>2
    <2>5. Adds(f, S, k, g)
      BY <2>3, <2>4 DEF Adds
    <2> QED  BY <1>2, <2>3, <2>5
  <1> QED  BY <1>3, <1>4

\* g is a function that the recursive definition inside the fold may stand for.
Solves(f, S, g) ==
    g = [T \in SUBSET S |-> IF T = {} THEN 0 ELSE f[Pick(T)] + g[T \ {Pick(T)}]]

\* Whatever the definition stands for, its values are numbers.
LEMMA SolutionsAreNumbers ==
    ASSUME NEW S, IsFiniteSet(S), NEW f \in [S -> Nat], NEW g, Solves(f, S, g)
    PROVE  \A T \in SUBSET S : g[T] \in Nat
  <1> DEFINE W == {n \in Nat : \E T \in SUBSET S : Cardinality(T) = n /\ g[T] \notin Nat}
  <1>0. ASSUME NEW T \in SUBSET S PROVE Cardinality(T) \in Nat
    BY FS_Subset, FS_CardinalityType
  <1>1. SUFFICES ASSUME W # {} PROVE FALSE
    BY <1>0
  <1>2. PICK k \in W : \A m \in W : k <= m
    BY <1>1, LeastNumber
  <1>3. PICK T \in SUBSET S : Cardinality(T) = k /\ g[T] \notin Nat
    BY <1>2
  <1>4. g[T] = IF T = {} THEN 0 ELSE f[Pick(T)] + g[T \ {Pick(T)}]
    BY DEF Solves
  <1>5. T # {}
    BY <1>3, <1>4
  <1> DEFINE R == T \ {Pick(T)}
  <1>6. /\ R \in SUBSET S /\ Pick(T) \in S
        /\ Cardinality(T) \in Nat /\ Cardinality(T) > 0 /\ Cardinality(R) = Cardinality(T) - 1
    BY <1>5, WithoutOne
  <1>7. g[R] \in Nat
    <2>1. SUFFICES ASSUME g[R] \notin Nat PROVE FALSE
      OBVIOUS
    <2> HIDE DEF R
    <2>2. Cardinality(R) \in W
      BY <1>6, <1>0, <2>1
    <2> HIDE DEF W
    <2>3. k <= Cardinality(R)
      BY <1>2, <2>2
    <2> QED  BY <1>3, <1>6, <2>3
  <1> QED  BY <1>3, <1>4, <1>5, <1>6, <1>7

\* g has the sum over every part of S.
SumsUp(f, S, g) ==
    \A T \in SUBSET S :
        /\ g[T] \in Nat
        /\ g[T] = IF T = {} THEN 0 ELSE f[Pick(T)] + g[T \ {Pick(T)}]

\* The fold satisfies the equation it is defined by.
LEMMA TotalEquation ==
    ASSUME NEW S, IsFiniteSet(S), NEW f \in [S -> Nat]
    PROVE  \E g : Total(f, S) = g[S] /\ SumsUp(f, S, g)
  <1>1. \A T \in SUBSET S : Cardinality(T) <= Cardinality(S)
    BY FS_Subset
  <1>2. Cardinality(S) \in Nat
    BY FS_CardinalityType
  <1>3. PICK h \in [SUBSET S -> Nat] : Adds(f, S, Cardinality(S), h)
    BY <1>2, SumsExist
  <1>4. Solves(f, S, h)
    <2>1. h = [T \in SUBSET S |-> h[T]]
      OBVIOUS
    <2>2. \A T \in SUBSET S : h[T] = IF T = {} THEN 0 ELSE f[Pick(T)] + h[T \ {Pick(T)}]
      BY <1>1, <1>3 DEF Adds
    <2> QED  BY <2>1, <2>2 DEF Solves
  <1> DEFINE s == CHOOSE g : Solves(f, S, g)
  <1>5. Solves(f, S, s)
    BY <1>4
  <1>6. Total(f, S) = s[S]
    BY DEF Total, MapThenSumSet, MapThenFoldSet, Pick, Solves
  <1> HIDE DEF s
  <1>7. \A T \in SUBSET S : s[T] \in Nat
    BY <1>5, SolutionsAreNumbers
  <1>8. \A T \in SUBSET S : s[T] = IF T = {} THEN 0 ELSE f[Pick(T)] + s[T \ {Pick(T)}]
    BY <1>5 DEF Solves
  <1>9. SumsUp(f, S, s)
    BY <1>7, <1>8 DEF SumsUp
  <1> QED  BY <1>6, <1>9

\* If h is f with more at p, its sums are that much more where p is summed.
LEMMA SumsDiffer ==
    ASSUME NEW S, IsFiniteSet(S), NEW f \in [S -> Nat], NEW p \in S,
           NEW more \in Nat,
           NEW h, \A x \in S : h[x] = IF x = p THEN f[x] + more ELSE f[x],
           NEW s, SumsUp(f, S, s), NEW t, SumsUp(h, S, t)
    PROVE  \A T \in SUBSET S : t[T] = s[T] + (IF p \in T THEN more ELSE 0)
  <1> DEFINE Good(T) == t[T] = s[T] + (IF p \in T THEN more ELSE 0)
             W == {n \in Nat : \E T \in SUBSET S : Cardinality(T) = n /\ ~Good(T)}
  <1>1. ASSUME NEW T \in SUBSET S PROVE Cardinality(T) \in Nat
    BY FS_Subset, FS_CardinalityType
  <1>2. SUFFICES ASSUME W # {} PROVE FALSE
    BY <1>1
  <1>3. PICK k \in W : \A m \in W : k <= m
    BY <1>2, LeastNumber
  <1>4. PICK T \in SUBSET S : Cardinality(T) = k /\ ~Good(T)
    BY <1>3
  <1>5. T # {}
    <2>1. ASSUME T = {} PROVE s[T] = 0 /\ t[T] = 0 /\ p \notin T
      BY <2>1 DEF SumsUp
    <2> QED  BY <1>4, <2>1
  <1> DEFINE x == Pick(T)
             R == T \ {x}
  <1>6. /\ R \in SUBSET S /\ x \in S /\ x \in T
        /\ Cardinality(T) \in Nat /\ Cardinality(T) > 0 /\ Cardinality(R) = Cardinality(T) - 1
    BY <1>5, WithoutOne
  <1>7. s[T] = f[x] + s[R] /\ t[T] = h[x] + t[R] /\ s[R] \in Nat /\ t[R] \in Nat
    BY <1>5, <1>6 DEF SumsUp
  <1>8. p \in T <=> x = p \/ p \in R
    BY <1>6
  <1>9. p \in R => x # p
    OBVIOUS
  <1>10. f[x] \in Nat /\ h[x] = IF x = p THEN f[x] + more ELSE f[x]
    BY <1>6
  <1>11. Good(R)
    <2>1. SUFFICES ASSUME ~Good(R) PROVE FALSE
      OBVIOUS
    <2>2. Cardinality(R) \in W
      BY <1>6, <1>1, <2>1
    <2> HIDE DEF W, R
    <2>3. k <= Cardinality(R)
      BY <1>3, <2>2
    <2> QED  BY <1>4, <1>6, <2>3
  <1> HIDE DEF x, R
  <1> QED  BY <1>4, <1>7, <1>8, <1>9, <1>10, <1>11

\* More at one place is that much more in all.
LEMMA TotalPlus ==
    ASSUME NEW S, IsFiniteSet(S), NEW f \in [S -> Nat], NEW p \in S, NEW more \in Nat
    PROVE  Total([f EXCEPT ![p] = @ + more], S) = Total(f, S) + more
  <1> DEFINE h == [f EXCEPT ![p] = @ + more]
  <1>1. h \in [S -> Nat]
    OBVIOUS
  <1>2. PICK s : Total(f, S) = s[S] /\ SumsUp(f, S, s)
    BY TotalEquation
  <1>3. PICK t : Total(h, S) = t[S] /\ SumsUp(h, S, t)
    BY <1>1, TotalEquation
  <1>4. t[S] = s[S] + (IF p \in S THEN more ELSE 0)
    <2>1. \A x \in S : h[x] = IF x = p THEN f[x] + more ELSE f[x]
      OBVIOUS
    <2>2. SumsUp(f, S, s) /\ SumsUp(h, S, t)
      BY <1>2, <1>3
    <2> HIDE DEF h
    <2>3. \A T \in SUBSET S : t[T] = s[T] + (IF p \in T THEN more ELSE 0)
      BY <2>1, <2>2, SumsDiffer
    <2> QED  BY <2>3
  <1> QED  BY <1>2, <1>3, <1>4

\* A sum is a number.
LEMMA TotalIsANumber ==
    ASSUME NEW S, IsFiniteSet(S), NEW f \in [S -> Nat]
    PROVE  Total(f, S) \in Nat
  <1>1. PICK s : Total(f, S) = s[S] /\ SumsUp(f, S, s)
    BY TotalEquation
  <1> QED  BY <1>1 DEF SumsUp

\* The same everywhere is a product.
LEMMA TotalOfConstant ==
    ASSUME NEW S, IsFiniteSet(S), NEW k \in Nat
    PROVE  Total([p \in S |-> k], S) = Cardinality(S) * k
  <1> DEFINE f == [p \in S |-> k]
             Good(s, T) == s[T] = Cardinality(T) * k
  <1>1. f \in [S -> Nat]
    OBVIOUS
  <1>2. PICK s : Total(f, S) = s[S] /\ SumsUp(f, S, s)
    BY <1>1, TotalEquation
  <1> DEFINE W == {n \in Nat : \E T \in SUBSET S : Cardinality(T) = n /\ ~Good(s, T)}
  <1>3. ASSUME NEW T \in SUBSET S PROVE Cardinality(T) \in Nat
    BY FS_Subset, FS_CardinalityType
  <1>4. ASSUME W # {} PROVE FALSE
    <2>1. PICK n \in W : \A m \in W : n <= m
      BY <1>4, LeastNumber
    <2>2. PICK T \in SUBSET S : Cardinality(T) = n /\ ~Good(s, T)
      BY <2>1
    <2>3. T # {}
      <3>1. ASSUME T = {} PROVE s[T] = 0 /\ Cardinality(T) = 0
        BY <1>2, <3>1, FS_EmptySet DEF SumsUp
      <3> QED  BY <2>2, <3>1
    <2> DEFINE R == T \ {Pick(T)}
    <2>4. /\ R \in SUBSET S /\ Pick(T) \in S
          /\ Cardinality(T) \in Nat /\ Cardinality(T) > 0 /\ Cardinality(R) = Cardinality(T) - 1
      BY <2>3, WithoutOne
    <2>5. s[R] = (Cardinality(T) - 1) * k
      <3>1. SUFFICES ASSUME ~Good(s, R) PROVE FALSE
        BY <2>4
      <3>2. Cardinality(R) \in W
        BY <1>3, <2>4, <3>1
      <3> HIDE DEF W, R
      <3>3. n <= Cardinality(R)
        BY <2>1, <3>2
      <3> QED  BY <2>2, <2>4, <3>3
    <2>6. s[T] = f[Pick(T)] + s[R]
      BY <1>2, <2>3 DEF SumsUp
    <2>7. f[Pick(T)] = k
      BY <2>4
    <2> HIDE DEF R, f
    <2>8. ASSUME NEW c \in Nat PROVE k + (c - 1) * k = c * k
      OBVIOUS
    <2> QED  BY <2>2, <2>4, <2>5, <2>6, <2>7, <2>8
  <1> QED  BY <1>2, <1>3, <1>4

\* Nothing is nothing in all.
LEMMA TotalOfZeros ==
    ASSUME NEW S, IsFiniteSet(S)
    PROVE  Total([p \in S |-> 0], S) = 0
  <1>1. Total([p \in S |-> 0], S) = Cardinality(S) * 0
    BY TotalOfConstant
  <1>2. Cardinality(S) \in Nat
    BY FS_CardinalityType
  <1> QED  BY <1>1, <1>2

-----------------------------------------------------------------------------
(* The samples are counted.                                                  *)

\* CountAndUnlock, the only step that returns from store_push, counts the sample it
\* has written and not one that another producer has counted since.
LEMMA CountStep ==
    ASSUME StoreAssumption, StoreInv, NoSampleLost, [Next]_vars
    PROVE  NoSampleLost'
<1>1. IsFiniteSet(Producers)
  BY DEF StoreAssumption
<1>2. count = Total(pushed, Producers)
  BY DEF NoSampleLost, Total
<1>3. CASE \E p \in Producers : CountAndUnlock(p)
  <2>1. PICK p \in Producers : CountAndUnlock(p)
    BY <1>3
  <2>2. /\ ppc[p] = "count" /\ Alive
        /\ count' = slot[p] + 1 /\ pushed' = [pushed EXCEPT ![p] = @ + 1]
    BY <2>1 DEF CountAndUnlock, At
  <2>3. slot[p] = count
    BY <2>2 DEF StoreInv, HeapInv
  <2>4. pushed \in [Producers -> Nat]
    BY Numbers DEF StoreInv
  <2>5. Total(pushed', Producers) = Total(pushed, Producers) + 1
    BY <1>1, <2>2, <2>4, TotalPlus
  <2>6. count' = Total(pushed', Producers)
    BY <1>2, <2>2, <2>3, <2>5
  <2>7. NoSampleLost' <=> count' = Total(pushed', Producers)
    BY DEF NoSampleLost, Total, MapThenSumSet, MapThenFoldSet
  <2> QED  BY <2>6, <2>7
<1>4. CASE ~ \E p \in Producers : CountAndUnlock(p)
  <2>1. UNCHANGED <<count, pushed>>
    BY <1>4 DEF Next, Producer, Push, LeaveLoop, Grow, NoGrowth, Write, Monitor, BeginStats, ReadCount,
       ReadData, Sum, EndStats, MonitorLeaves, Stop, Ended, vars, store
  <2> QED  BY <2>1 DEF NoSampleLost, MapThenSumSet, MapThenFoldSet
<1> QED  BY <1>3, <1>4

\* NoSampleLost: at every moment the store has counted exactly the calls of store_push
\* that have returned, by any number of producers and in both builds, although each
\* producer reads count and writes it back two steps later.
THEOREM SamplesAreCounted == StoreAssumption => (Spec => []NoSampleLost)
<1> SUFFICES ASSUME StoreAssumption
             PROVE  Spec => []NoSampleLost
  OBVIOUS
<1>1. Init => StoreInv /\ NoSampleLost
  <2>1. ASSUME Init PROVE NoSampleLost
    <3>1. Total([p \in Producers |-> 0], Producers) = 0
      BY TotalOfZeros DEF StoreAssumption
    <3> QED  BY <2>1, <3>1 DEF Init, NoSampleLost, Total
  <2> QED  BY <2>1, StoreInit
<1>2. StoreInv /\ NoSampleLost /\ [Next]_vars => StoreInv' /\ NoSampleLost'
  BY StoreStep, CountStep
<1> QED  BY <1>1, <1>2, PTL DEF Spec

-----------------------------------------------------------------------------
(* The register.                                                             *)

RegisterPoints ==
    {"loop", "bare", "lock", "test", "fall asleep", "waiting", "woken", "check", "done"}
RegisterInside == {"test", "fall asleep", "check"}

\* A thread of producer_consumer2 is between its lock and its unlock exactly when it has
\* the mutex, and what it has read of the flags is still so; the flag of SIGINT only falls.
HandshakeInv ==
    handshake =>
         /\ mutex = "producer" <=> txpc \in RegisterInside
         /\ mutex = "consumer" <=> rxpc \in RegisterInside
         /\ txpc # "bare" /\ rxpc # "bare"
         /\ txpc = "check" /\ regRunning => TXE = 1
         /\ rxpc = "check" /\ regRunning => TXE = 0

\* The threads of producer_consumer1 have one point between two tests and no mutex.
BareInv == ~handshake => {txpc, rxpc} \subseteq {"loop", "bare", "done"}

RegisterInv == Register!TypeOK /\ HandshakeInv /\ BareInv

\* The next word is a word.
LEMMA NextWordIsAWord ==
    ASSUME Register!WordsAssumption, NEW n \in Register!Words
    PROVE  (n + 1) % Modulus \in Register!Words
  <1>1. Modulus \in Nat \ {0} /\ n + 1 \in Nat
    BY DEF Register!WordsAssumption, Register!Words
  <1>2. \A k \in Nat : k % Modulus \in 0 .. Modulus - 1
    BY <1>1
  <1> QED  BY <1>1, <1>2 DEF Register!Words

\* The register at the start.
LEMMA RegisterInit == ASSUME Register!WordsAssumption, Register!Init PROVE RegisterInv
  <1>1. 0 \in Register!Words /\ Modulus - 1 \in Register!Words
    BY DEF Register!WordsAssumption, Register!Words
  <1>2. Register!TypeOK
    <2>1. /\ handshake \in BOOLEAN /\ regRunning \in BOOLEAN /\ joined \in BOOLEAN
      BY DEF Register!Init
    <2>2. TXE \in {0, 1} /\ RXNE = 1 - TXE
      BY DEF Register!Init
    <2>3. /\ mutex \in {"nobody", "producer", "consumer"} /\ {txpc, rxpc} \subseteq RegisterPoints
          /\ hpc \in {"idle", "wake producer", "wake consumer"}
      BY DEF Register!Init, RegisterPoints
    <2>4. data_reg \in Register!Words /\ item \in Register!Words /\ received \in Register!Words
      BY <1>1 DEF Register!Init
    <2> QED  BY <2>1, <2>2, <2>3, <2>4 DEF Register!TypeOK, RegisterPoints
  <1>3. HandshakeInv /\ BareInv
    BY DEF Register!Init, HandshakeInv, BareInv, RegisterInside
  <1> QED  BY <1>2, <1>3 DEF RegisterInv

\* The flags are set together, each to the opposite of the other.
LEMMA FlagsAreOpposite ==
    ASSUME NEW t \in {0, 1}, NEW r, r = 1 - t, NEW u, NEW q,
           \/ u = t /\ q = r
           \/ u = 0 /\ q = 1
           \/ u = 1 /\ q = 0
    PROVE  u \in {0, 1} /\ q = 1 - u
  OBVIOUS

\* The types, from what a step does to each variable.
LEMMA RegisterTypes ==
    ASSUME Register!TypeOK, UNCHANGED handshake,
           regRunning' = regRunning \/ regRunning' = FALSE,
           joined' = joined \/ joined' = TRUE,
           mutex' \in {"nobody", "producer", "consumer"},
           data_reg' \in Register!Words, item' \in Register!Words, received' \in Register!Words,
           \/ UNCHANGED <<TXE, RXNE>>
           \/ TXE' = 0 /\ RXNE' = 1
           \/ TXE' = 1 /\ RXNE' = 0,
           txpc' \in RegisterPoints, rxpc' \in RegisterPoints,
           hpc' \in {"idle", "wake producer", "wake consumer"}
    PROVE  Register!TypeOK'
  <1>1. handshake' \in BOOLEAN /\ regRunning' \in BOOLEAN /\ joined' \in BOOLEAN
    <2>1. handshake \in BOOLEAN /\ regRunning \in BOOLEAN /\ joined \in BOOLEAN
      BY DEF Register!TypeOK
    <2> QED  BY <2>1
  <1>2. TXE' \in {0, 1} /\ RXNE' = 1 - TXE'
    <2>1. TXE \in {0, 1} /\ RXNE = 1 - TXE
      BY DEF Register!TypeOK
    <2>2. \/ TXE' = TXE /\ RXNE' = RXNE
          \/ TXE' = 0 /\ RXNE' = 1
          \/ TXE' = 1 /\ RXNE' = 0
      OBVIOUS
    <2> QED  BY <2>1, <2>2, FlagsAreOpposite
  <1> QED  BY <1>1, <1>2 DEF Register!TypeOK, RegisterPoints

\* What the steps of the transmitter keep.
LEMMA TransmitterStep ==
    ASSUME Register!WordsAssumption, RegisterInv, Register!ProducerStep
    PROVE  RegisterInv'
  <1> USE DEF Register!ProducerUnchanged, Register!register, Register!Lock, Register!Unlock,
              Register!MayWrite, Register!SignalRxne,
              Register!ProducerLoop, Register!ProducerLock, Register!ProducerTest,
              Register!ProducerWait, Register!ProducerSpurious, Register!ProducerExit,
              Register!ProducerWrite, Register!BareWrite
  <1>1. Register!TypeOK /\ HandshakeInv /\ BareInv
    BY DEF RegisterInv
  <1>2. UNCHANGED <<handshake, regRunning, received, hpc, joined>>
    BY DEF Register!ProducerStep
  <1>3. (handshake' <=> handshake) /\ (regRunning' <=> regRunning)
    BY <1>2
  <1>4. /\ mutex' \in {"nobody", "producer", "consumer"}
        /\ txpc' \in RegisterPoints /\ rxpc' \in RegisterPoints
        /\ UNCHANGED <<TXE, RXNE>> \/ (TXE' = 0 /\ RXNE' = 1)
    BY <1>1 DEF Register!ProducerStep, RegisterPoints, Register!TypeOK
  <1>5. data_reg' \in Register!Words /\ item' \in Register!Words
    BY <1>1, NextWordIsAWord DEF Register!ProducerStep, Register!NextWord, Register!TypeOK
  <1>6. Register!TypeOK'
    <2>1. received' \in Register!Words /\ hpc' \in {"idle", "wake producer", "wake consumer"}
      BY <1>1, <1>2 DEF Register!TypeOK
    <2> QED  BY <1>1, <1>2, <1>4, <1>5, <2>1, RegisterTypes
  <1>7. HandshakeInv'
    <2>1. CASE handshake
      BY <1>1, <1>3, <2>1 DEF Register!ProducerStep, HandshakeInv, RegisterInside
    <2>2. CASE ~handshake
      BY <1>3, <2>2 DEF HandshakeInv
    <2> QED  BY <2>1, <2>2
  <1>8. BareInv'
    <2>1. CASE ~handshake
      BY <1>1, <1>3, <2>1 DEF Register!ProducerStep, BareInv
    <2>2. CASE handshake
      BY <1>3, <2>2 DEF BareInv
    <2> QED  BY <2>1, <2>2
  <1> QED  BY <1>6, <1>7, <1>8 DEF RegisterInv

\* What the steps of the receiver keep.
LEMMA ReceiverStep ==
    ASSUME RegisterInv, Register!ConsumerStep
    PROVE  RegisterInv'
  <1> USE DEF Register!ConsumerUnchanged, Register!register, Register!Lock, Register!Unlock,
              Register!MarkRead, Register!SignalTxe,
              Register!ConsumerLoop, Register!ConsumerLock, Register!ConsumerTest,
              Register!ConsumerWait, Register!ConsumerSpurious, Register!ConsumerExit,
              Register!ConsumerRead, Register!BareRead
  <1>1. Register!TypeOK /\ HandshakeInv /\ BareInv
    BY DEF RegisterInv
  <1>2. UNCHANGED <<handshake, regRunning, data_reg, item, hpc, joined>>
    BY DEF Register!ConsumerStep
  <1>3. (handshake' <=> handshake) /\ (regRunning' <=> regRunning)
    BY <1>2
  <1>4. /\ mutex' \in {"nobody", "producer", "consumer"}
        /\ txpc' \in RegisterPoints /\ rxpc' \in RegisterPoints
        /\ UNCHANGED <<TXE, RXNE>> \/ (TXE' = 1 /\ RXNE' = 0)
        /\ received' = received \/ received' = data_reg
    BY <1>1 DEF Register!ConsumerStep, RegisterPoints, Register!TypeOK
  <1>5. Register!TypeOK'
    <2>1. /\ received' \in Register!Words /\ hpc' \in {"idle", "wake producer", "wake consumer"}
          /\ data_reg' \in Register!Words /\ item' \in Register!Words
      BY <1>1, <1>2, <1>4 DEF Register!TypeOK
    <2> QED  BY <1>1, <1>2, <1>4, <2>1, RegisterTypes
  <1>6. TXE \in {0, 1} /\ RXNE = 1 - TXE
    BY <1>1 DEF Register!TypeOK
  <1>7. (RXNE = 0 <=> TXE = 1) /\ (TXE = 0 \/ TXE = 1)
    BY <1>6
  <1>8. HandshakeInv'
    <2>1. CASE handshake
      BY <1>1, <1>3, <1>7, <2>1 DEF Register!ConsumerStep, HandshakeInv, RegisterInside
    <2>2. CASE ~handshake
      BY <1>3, <2>2 DEF HandshakeInv
    <2> QED  BY <2>1, <2>2
  <1>9. BareInv'
    <2>1. CASE ~handshake
      BY <1>1, <1>3, <2>1 DEF Register!ConsumerStep, BareInv
    <2>2. CASE handshake
      BY <1>3, <2>2 DEF BareInv
    <2> QED  BY <2>1, <2>2
  <1> QED  BY <1>5, <1>8, <1>9 DEF RegisterInv

\* The handler, without the mutex, and main keep it.
LEMMA RegisterOthersStep ==
    ASSUME RegisterInv,
           \/ Register!Sigint \/ Register!WakeProducer \/ Register!WakeConsumer \/ Register!Join
           \/ UNCHANGED Register!vars
    PROVE  RegisterInv'
  <1> USE DEF Register!OthersUnchanged, Register!register, Register!vars,
              Register!Sigint, Register!WakeProducer, Register!WakeConsumer, Register!Join,
              Register!SignalTxe, Register!SignalRxne
  <1>1. Register!TypeOK /\ HandshakeInv /\ BareInv
    BY DEF RegisterInv
  <1>2. UNCHANGED <<handshake, mutex, data_reg, TXE, RXNE, item, received>>
    OBVIOUS
  <1>3. regRunning' = regRunning \/ regRunning' = FALSE
    OBVIOUS
  <1>4. (handshake' <=> handshake) /\ (regRunning' => regRunning)
    <2>1. handshake' = handshake
      BY <1>2
    <2>2. regRunning' => regRunning
      BY <1>3
    <2> QED  BY <2>1, <2>2
  <1>5. /\ txpc' = txpc \/ (txpc = "waiting" /\ txpc' = "woken")
        /\ rxpc' = rxpc \/ (rxpc = "waiting" /\ rxpc' = "woken")
    OBVIOUS
  <1>6. /\ hpc' \in {"idle", "wake producer", "wake consumer"}
        /\ joined' = joined \/ joined' = TRUE
    BY <1>1 DEF Register!TypeOK
  <1>7. Register!TypeOK'
    <2>1. txpc' \in RegisterPoints /\ rxpc' \in RegisterPoints
      BY <1>1, <1>5 DEF Register!TypeOK, RegisterPoints
    <2>2. /\ received' \in Register!Words /\ mutex' \in {"nobody", "producer", "consumer"}
          /\ data_reg' \in Register!Words /\ item' \in Register!Words
      BY <1>1, <1>2 DEF Register!TypeOK
    <2> QED  BY <1>1, <1>2, <1>3, <1>6, <2>1, <2>2, RegisterTypes
  <1> HIDE DEF Register!vars, Register!Sigint, Register!WakeProducer, Register!WakeConsumer,
               Register!Join
  <1>8. HandshakeInv'
    <2>1. UNCHANGED <<mutex, TXE>>
      BY <1>2
    <2> QED  BY <1>1, <1>4, <1>5, <2>1 DEF HandshakeInv, RegisterInside
  <1>9. BareInv'
    BY <1>1, <1>4, <1>5 DEF BareInv
  <1> QED  BY <1>7, <1>8, <1>9 DEF RegisterInv

\* The invariant over every step of the programs on the register.
LEMMA RegisterStep ==
    ASSUME Register!WordsAssumption, RegisterInv, Register!Next \/ UNCHANGED Register!vars
    PROVE  RegisterInv'
  BY TransmitterStep, ReceiverStep, RegisterOthersStep DEF Register!Next, Register!Terminated

\* In producer_consumer2 a write puts a word, a read gets it, and nothing else
\* touches what has been put and got.
LEMMA RegisterIsAChannel ==
    ASSUME RegisterInv, Register!Next \/ UNCHANGED Register!vars, handshake
    PROVE  Register!Stream!Next \/ UNCHANGED Register!Stream!vars
  <1>1. Register!TypeOK /\ HandshakeInv
    BY DEF RegisterInv
  <1>2. TXE \in {0, 1} /\ RXNE = 1 - TXE
    BY <1>1 DEF Register!TypeOK
  <1>3. CASE Register!ProducerWrite
    <2>1. TXE = 1
      BY <1>1, <1>3 DEF HandshakeInv, Register!ProducerWrite
    <2>2. RXNE = 0
      BY <1>2, <2>1
    <2>3. RXNE' = 1 /\ data_reg' = item /\ item' = (item + 1) % Modulus /\ received' = received
      BY <1>3 DEF Register!ProducerWrite, Register!NextWord
    <2>4. Append(<<>>, item) = <<item>> /\ Len(<<>>) = 0
      OBVIOUS
    <2> QED  BY <2>2, <2>3, <2>4 DEF Register!Stream!Next, Register!Stream!Put
  <1>4. CASE Register!ConsumerRead
    <2>1. TXE = 0
      BY <1>1, <1>4 DEF HandshakeInv, Register!ConsumerRead
    <2>2. RXNE = 1
      BY <1>2, <2>1
    <2>3. RXNE' = 0 /\ received' = data_reg /\ item' = item
      BY <1>4 DEF Register!ConsumerRead, Register!MarkRead
    <2>4. Head(<<data_reg>>) = data_reg /\ Tail(<<data_reg>>) = <<>> /\ <<data_reg>> # <<>>
      OBVIOUS
    <2> QED  BY <2>2, <2>3, <2>4 DEF Register!Stream!Next, Register!Stream!Get
  <1>5. CASE ~Register!ProducerWrite /\ ~Register!ConsumerRead
    <2>1. txpc # "bare" /\ rxpc # "bare"
      BY <1>1 DEF HandshakeInv
    <2>2. UNCHANGED <<data_reg, RXNE, item, received>>
      BY <1>5, <2>1 DEF Register!Next, Register!ProducerStep, Register!ProducerLoop, Register!ProducerLock,
         Register!ProducerTest, Register!ProducerWait, Register!ProducerSpurious,
         Register!ProducerExit, Register!BareWrite, Register!ProducerUnchanged,
         Register!ConsumerStep, Register!ConsumerLoop, Register!ConsumerLock, Register!ConsumerTest,
         Register!ConsumerWait, Register!ConsumerSpurious, Register!ConsumerExit,
         Register!BareRead, Register!ConsumerUnchanged, Register!register,
         Register!Sigint, Register!WakeProducer, Register!WakeConsumer, Register!Join,
         Register!OthersUnchanged, Register!Terminated, Register!vars
    <2> QED  BY <2>2 DEF Register!Stream!vars
  <1> QED  BY <1>3, <1>4, <1>5

-----------------------------------------------------------------------------
(* The counter.                                                              *)

\* The iterations that all threads together have before them.
Todo == Total(left, CounterThreads)

\* Only lab21 has its iterations added up; a burst is one iteration or all.
BurstInv ==
    /\ lab # "lab21" => burst = 1
    /\ burst = 1 \/ \A t \in CounterThreads : left[t] \in {0, Iterations}

\* What is left at each control point; the joins have waited for all.
PointsInv ==
    /\ \A t \in CounterThreads :
           /\ tpc[t] = "store" => left[t] > 0
           /\ tpc[t] = "done" => left[t] = 0
           /\ lab = "lab24" => tpc[t] \notin {"store", "unlock"}
    /\ mainpc = "printed" => \A t \in CounterThreads : tpc[t] = "done"

\* lab21: additions are lost and none is invented; a thread that has added before has
\* read at least one, so that the last addition of all comes to two.
RaceInv ==
    lab = "lab21" =>
        /\ counter + Todo <= Counter!All
        /\ \A t \in CounterThreads : tpc[t] = "store" =>
               /\ loaded[t] + Todo <= Counter!All
               /\ left[t] < Iterations => loaded[t] > 0
        /\ (\E t \in CounterThreads : left[t] < Iterations) => counter > 0
        /\ (\A t \in CounterThreads : left[t] = 0) => counter > 1

\* lab22: what has been read is still so, and nothing is lost.
CounterMutexInv ==
    lab = "lab22" =>
        /\ \A t \in CounterThreads : tpc[t] \in {"store", "unlock"} => counterLock = t
        /\ \A t \in CounterThreads : tpc[t] = "store" => loaded[t] = counter
        /\ counter + Todo = Counter!All

\* lab23: the first thread that takes the spinlock adds once, and no other does.
SpinInv ==
    lab = "lab23" =>
        \A t \in CounterThreads :
            /\ tpc[t] \in {"store", "unlock"} => counterLock = t
            /\ left[t] \in {Iterations, Iterations - 1}
            /\ tpc[t] = "store" => left[t] = Iterations
            /\ left[t] # Iterations => counterLock = t

AtomicInv == lab = "lab24" => counter + Todo = Counter!All

CounterInv ==
    /\ Counter!TypeOK /\ BurstInv /\ PointsInv
    /\ RaceInv /\ CounterMutexInv /\ SpinInv /\ AtomicInv

\* The instance of SharedCounter counts as its reader does.
LEMMA CounterSets ==
    ASSUME NEW S
    PROVE  /\ Counter!IsFiniteSet(S) <=> IsFiniteSet(S)
           /\ Counter!Cardinality(S) = Cardinality(S)
  BY DEF Counter!IsFiniteSet, IsFiniteSet, Counter!Cardinality, Cardinality

\* The constants and what is typed by them.
LEMMA CounterNumbers ==
    ASSUME Counter!CounterAssumption, Counter!TypeOK
    PROVE  /\ IsFiniteSet(CounterThreads) /\ CounterThreads # {}
           /\ Iterations \in Nat /\ Iterations > 1 /\ Counter!All \in Nat
           /\ "nobody" \notin CounterThreads
           /\ burst \in {1, Iterations} /\ counter \in Nat
           /\ left \in [CounterThreads -> 0 .. Iterations] /\ loaded \in [CounterThreads -> Nat]
           /\ tpc \in [CounterThreads -> {"loop", "store", "unlock", "done"}]
           /\ left \in [CounterThreads -> Nat] /\ Todo \in Nat
  <1>1. /\ IsFiniteSet(CounterThreads) /\ Cardinality(CounterThreads) > 1
        /\ Iterations \in Nat /\ Iterations > 1 /\ "nobody" \notin CounterThreads
    BY CounterSets DEF Counter!CounterAssumption
  <1>2. Cardinality(CounterThreads) \in Nat
    BY <1>1, FS_CardinalityType
  <1>3. CounterThreads # {}
    BY <1>1, FS_EmptySet
  <1>4. Counter!All \in Nat
    <2>1. \A a, b \in Nat : a * b \in Nat
      OBVIOUS
    <2> QED  BY <1>1, <1>2, <2>1, CounterSets DEF Counter!All
  <1>5. /\ burst \in {1, Iterations} /\ counter \in Nat
        /\ left \in [CounterThreads -> 0 .. Iterations] /\ loaded \in [CounterThreads -> Nat]
        /\ tpc \in [CounterThreads -> {"loop", "store", "unlock", "done"}]
    BY DEF Counter!TypeOK
  <1>6. left \in [CounterThreads -> Nat]
    BY <1>1, <1>5
  <1>7. Todo \in Nat
    BY <1>1, <1>6, TotalIsANumber DEF Todo
  <1> QED  BY <1>1, <1>3, <1>4, <1>5, <1>6, <1>7

\* The counter at the start: all there is to do is before the threads.
LEMMA CounterInit ==
    ASSUME Counter!CounterAssumption, Counter!Init
    PROVE  CounterInv
  <1>1. /\ IsFiniteSet(CounterThreads) /\ Cardinality(CounterThreads) > 1
        /\ Iterations \in Nat /\ Iterations > 1
    BY CounterSets DEF Counter!CounterAssumption
  <1>2. Counter!TypeOK
    <2>1. burst \in {1, Iterations} /\ left \in [CounterThreads -> 0 .. Iterations]
      BY <1>1 DEF Counter!Init
    <2> QED  BY <2>1 DEF Counter!Init, Counter!TypeOK
  <1>3. Todo = Counter!All
    BY <1>1, TotalOfConstant, CounterSets DEF Counter!Init, Todo, Counter!All
  <1>4. \A t \in CounterThreads : left[t] = Iterations /\ tpc[t] = "loop"
    BY DEF Counter!Init
  <1>5. BurstInv /\ PointsInv /\ SpinInv
    BY <1>1, <1>4 DEF Counter!Init, BurstInv, PointsInv, SpinInv
  <1>6. counter = 0 /\ CounterThreads # {} /\ Counter!All \in Nat
    BY <1>2, CounterNumbers DEF Counter!Init
  <1>7. RaceInv /\ CounterMutexInv /\ AtomicInv
    BY <1>1, <1>3, <1>4, <1>6 DEF RaceInv, CounterMutexInv, AtomicInv
  <1> QED  BY <1>2, <1>5, <1>7 DEF CounterInv

\* An addition takes from what is left what it adds.
LEMMA LessToDo ==
    ASSUME Counter!CounterAssumption, Counter!TypeOK, NEW t \in CounterThreads,
           NEW n \in Nat, left[t] >= n, left' = [left EXCEPT ![t] = @ - n]
    PROVE  /\ Todo' \in Nat /\ Todo = Todo' + n
           /\ left' \in [CounterThreads -> 0 .. Iterations]
           /\ left'[t] = left[t] - n
           /\ \A u \in CounterThreads : u # t => left'[u] = left[u]
  <1>1. /\ IsFiniteSet(CounterThreads) /\ Iterations \in Nat
        /\ left \in [CounterThreads -> 0 .. Iterations]
    BY CounterNumbers
  <1>2. left[t] - n \in 0 .. Iterations
    BY <1>1
  <1>3. left' \in [CounterThreads -> 0 .. Iterations] /\ left'[t] = left[t] - n
    BY <1>1, <1>2
  <1>4. left' \in [CounterThreads -> Nat]
    BY <1>1, <1>3
  <1>5. left = [left' EXCEPT ![t] = @ + n]
    <2>1. left'[t] + n = left[t]
      BY <1>1, <1>3
    <2> QED  BY <1>1, <1>3, <2>1
  <1> DEFINE l == left'
  <1>6. Total([l EXCEPT ![t] = @ + n], CounterThreads) = Total(l, CounterThreads) + n
    <2> HIDE DEF l
    <2> QED  BY <1>1, <1>4, TotalPlus DEF l
  <1>7. Total(l, CounterThreads) \in Nat
    BY <1>1, <1>4, TotalIsANumber
  <1>8. Todo' = Total(left', CounterThreads)
    BY DEF Todo
  <1>9. Todo = Total(left', CounterThreads) + n
    BY <1>5, <1>6 DEF Todo
  <1> QED  BY <1>1, <1>3, <1>7, <1>8, <1>9


\* What is added to the counter is taken from what is left.
LEMMA Regroup ==
    ASSUME NEW a \in Nat, NEW b \in Nat, NEW e \in Nat
    PROVE  a + (b + e) = (a + e) + b
  OBVIOUS

\* The step of one thread moves its control point and no other.
LEMMA CounterMoves ==
    ASSUME Counter!TypeOK, NEW t \in CounterThreads, NEW from,
           NEW to \in {"loop", "store", "unlock", "done"}, Counter!At(t, from, to)
    PROVE  /\ tpc[t] = from /\ tpc'[t] = to /\ mainpc # "ended"
           /\ tpc' \in [CounterThreads -> {"loop", "store", "unlock", "done"}]
           /\ \A u \in CounterThreads : u # t => tpc'[u] = tpc[u]
  BY DEF Counter!At, Counter!TypeOK

\* The steps of a thread that add nothing.
LEMMA NoAddition ==
    ASSUME Counter!CounterAssumption, CounterInv, NEW t \in CounterThreads,
           Counter!Unlock(t) \/ Counter!Return(t)
    PROVE  CounterInv'
  <1> USE DEF CounterInv
  <1>1. /\ tpc' \in [CounterThreads -> {"loop", "store", "unlock", "done"}]
        /\ \A u \in CounterThreads : u # t => tpc'[u] = tpc[u]
        /\ \/ tpc[t] = "unlock" /\ tpc'[t] = "loop"
              /\ counterLock' = (IF lab = "lab22" THEN "nobody" ELSE counterLock)
           \/ tpc[t] = "loop" /\ tpc'[t] = "done" /\ left[t] = 0 /\ counterLock' = counterLock
        /\ UNCHANGED <<lab, burst, counter, left, loaded, started, mainpc>>
    BY CounterMoves DEF Counter!Unlock, Counter!Return
  <1>2. Todo' = Todo
    BY <1>1 DEF Todo
  <1>3. Counter!TypeOK'
    BY <1>1 DEF Counter!TypeOK
  <1>4. BurstInv'
    BY <1>1 DEF BurstInv
  <1>5. PointsInv'
    BY <1>1 DEF PointsInv
  <1>6. RaceInv'
    BY <1>1, <1>2 DEF RaceInv
  <1>7. CounterMutexInv'
    BY <1>1, <1>2 DEF CounterMutexInv
  <1>8. SpinInv'
    BY <1>1 DEF SpinInv
  <1>9. AtomicInv'
    BY <1>1, <1>2 DEF AtomicInv
  <1> QED  BY <1>3, <1>4, <1>5, <1>6, <1>7, <1>8, <1>9

\* A thread reads the counter, with the lock where there is one.
LEMMA LoadStep ==
    ASSUME Counter!CounterAssumption, CounterInv, NEW t \in CounterThreads, Counter!Load(t)
    PROVE  CounterInv'
  <1> USE DEF CounterInv
  <1>1. /\ tpc[t] = "loop" /\ tpc'[t] = "store" /\ left[t] > 0 /\ lab # "lab24"
        /\ tpc' \in [CounterThreads -> {"loop", "store", "unlock", "done"}]
        /\ \A u \in CounterThreads : u # t => tpc'[u] = tpc[u]
        /\ IF lab \in {"lab22", "lab23"} THEN counterLock = "nobody" /\ counterLock' = t
           ELSE counterLock' = counterLock
        /\ loaded' = [loaded EXCEPT ![t] = counter]
        /\ UNCHANGED <<lab, burst, counter, left, started, mainpc>>
    BY CounterMoves DEF Counter!Load, Counter!Enter, Counter!Locks
  <1>2. Todo' = Todo
    BY <1>1 DEF Todo
  <1>3. /\ Iterations \in Nat /\ Iterations > 1 /\ "nobody" \notin CounterThreads
        /\ counter \in Nat /\ loaded \in [CounterThreads -> Nat]
        /\ left \in [CounterThreads -> 0 .. Iterations]
    BY CounterNumbers
  <1>4. /\ loaded' \in [CounterThreads -> Nat] /\ loaded'[t] = counter
        /\ \A u \in CounterThreads : u # t => loaded'[u] = loaded[u]
    BY <1>1, <1>3
  <1>5. Counter!TypeOK'
    BY <1>1, <1>4 DEF Counter!TypeOK
  <1>6. BurstInv'
    BY <1>1 DEF BurstInv
  <1>7. PointsInv'
    BY <1>1 DEF PointsInv
  <1>8. RaceInv'
    BY <1>1, <1>2, <1>3, <1>4 DEF RaceInv
  <1>9. CounterMutexInv'
    BY <1>1, <1>2, <1>3, <1>4 DEF CounterMutexInv
  <1>10. SpinInv'
    BY <1>1, <1>3 DEF SpinInv
  <1>11. AtomicInv'
    BY <1>1 DEF AtomicInv
  <1> QED  BY <1>5, <1>6, <1>7, <1>8, <1>9, <1>10, <1>11

\* A thread writes back what it has read and a burst more.
LEMMA StoreStepInv ==
    ASSUME Counter!CounterAssumption, CounterInv, NEW t \in CounterThreads, Counter!Store(t)
    PROVE  CounterInv'
  <1> USE DEF CounterInv
  <1>1. /\ tpc[t] = "store" /\ tpc'[t] = "unlock"
        /\ tpc' \in [CounterThreads -> {"loop", "store", "unlock", "done"}]
        /\ \A u \in CounterThreads : u # t => tpc'[u] = tpc[u]
        /\ counter' = loaded[t] + burst
        /\ left' = [left EXCEPT ![t] = @ - burst]
        /\ UNCHANGED <<lab, burst, counterLock, loaded, started, mainpc>>
    BY CounterMoves DEF Counter!Store
  <1>2. /\ Iterations \in Nat /\ Iterations > 1 /\ "nobody" \notin CounterThreads
        /\ counter \in Nat /\ loaded \in [CounterThreads -> Nat] /\ burst \in {1, Iterations}
        /\ left \in [CounterThreads -> 0 .. Iterations] /\ Todo \in Nat /\ Counter!All \in Nat
    BY CounterNumbers
  <1>3. left[t] > 0 /\ lab # "lab24"
    BY <1>1 DEF PointsInv, Counter!TypeOK
  <1>4. left[t] >= burst /\ burst \in Nat /\ burst > 0
    <2>1. CASE burst = 1
      BY <1>2, <1>3, <2>1
    <2>2. CASE burst # 1
      <3>1. burst = Iterations /\ left[t] \in {0, Iterations}
        BY <1>2, <2>2 DEF BurstInv
      <3> QED  BY <1>2, <1>3, <3>1
    <2> QED  BY <2>1, <2>2
  <1>5. /\ Todo' \in Nat /\ Todo = Todo' + burst
        /\ left' \in [CounterThreads -> 0 .. Iterations]
        /\ left'[t] = left[t] - burst
        /\ \A u \in CounterThreads : u # t => left'[u] = left[u]
    BY <1>1, <1>4, LessToDo
  <1>6. loaded[t] \in Nat /\ counter' \in Nat /\ counter' > 0
    <2>1. loaded[t] \in Nat
      BY <1>2
    <2> QED  BY <1>1, <1>4, <2>1
  <1>7. Counter!TypeOK'
    BY <1>1, <1>5, <1>6 DEF Counter!TypeOK
  <1>8. BurstInv'
    <2>1. CASE burst = 1
      BY <1>1, <2>1 DEF BurstInv
    <2>2. CASE burst # 1
      <3>1. burst = Iterations /\ \A u \in CounterThreads : left[u] \in {0, Iterations}
        BY <1>2, <2>2 DEF BurstInv
      <3>2. left'[t] = 0
        BY <1>2, <1>3, <1>5, <3>1
      <3> QED  BY <1>1, <1>5, <3>1, <3>2 DEF BurstInv
    <2> QED  BY <2>1, <2>2
  <1>9. PointsInv'
    BY <1>1, <1>3, <1>5 DEF PointsInv
  <1>10. RaceInv'
    <2>1. SUFFICES ASSUME lab = "lab21" PROVE RaceInv'
      BY <1>1 DEF RaceInv
    <2>2. /\ loaded[t] + Todo <= Counter!All
          /\ left[t] < Iterations => loaded[t] > 0
      BY <1>1, <2>1 DEF RaceInv
    <2>3. counter' + Todo' <= Counter!All'
      <3>1. counter' + Todo' <= Counter!All
        BY <1>1, <1>2, <1>4, <1>5, <1>6, <2>2
      <3> QED  BY <3>1 DEF Counter!All
    <2>4. ASSUME NEW u \in CounterThreads, tpc'[u] = "store"
          PROVE  loaded'[u] + Todo' <= Counter!All' /\ (left'[u] < Iterations => loaded'[u] > 0)
      <3>1. u # t /\ tpc[u] = "store" /\ left'[u] = left[u] /\ loaded'[u] = loaded[u]
        BY <1>1, <1>5, <2>4
      <3>2. loaded[u] + Todo <= Counter!All /\ (left[u] < Iterations => loaded[u] > 0)
        BY <2>1, <3>1 DEF RaceInv
      <3>3. loaded[u] \in Nat
        BY <1>2
      <3>4. loaded[u] + Todo' <= Counter!All
        BY <1>2, <1>4, <1>5, <3>2, <3>3
      <3> QED  BY <3>1, <3>2, <3>4 DEF Counter!All
    <2>5. ASSUME \A u \in CounterThreads : left'[u] = 0 PROVE counter' > 1
      <3>1. left'[t] = 0
        BY <2>5
      <3>2. left[t] = burst
        <4>1. left[t] \in Nat
          BY <1>2
        <4> QED  BY <1>4, <1>5, <3>1, <4>1
      <3>3. CASE burst = 1
        BY <1>1, <1>2, <1>6, <2>2, <3>2, <3>3
      <3>4. CASE burst = Iterations
        BY <1>1, <1>2, <1>6, <3>4
      <3> QED  BY <1>2, <3>3, <3>4
    <2> QED  BY <1>1, <1>6, <2>3, <2>4, <2>5 DEF RaceInv
  <1>11. CounterMutexInv'
    <2>1. SUFFICES ASSUME lab = "lab22" PROVE CounterMutexInv'
      BY <1>1 DEF CounterMutexInv
    <2>2. loaded[t] = counter /\ counter + Todo = Counter!All
      BY <1>1, <2>1 DEF CounterMutexInv
    <2>3. \A u \in CounterThreads : u # t => tpc[u] \notin {"store", "unlock"}
      BY <1>1, <2>1 DEF CounterMutexInv
    <2>4. \A u \in CounterThreads : tpc'[u] \in {"store", "unlock"} => u = t
      BY <1>1, <2>3
    <2>5. counterLock' = t
      BY <1>1, <2>1 DEF CounterMutexInv
    <2>6. counter' + Todo' = Counter!All
      <3>1. counter' = counter + burst
        BY <1>1, <2>2
      <3>2. counter + (Todo' + burst) = Counter!All
        BY <1>5, <2>2
      <3>3. counter + (Todo' + burst) = (counter + burst) + Todo'
        BY <1>2, <1>4, <1>5, Regroup
      <3> QED  BY <3>1, <3>2, <3>3
    <2> QED  BY <1>1, <2>4, <2>5, <2>6 DEF CounterMutexInv, Counter!All
  <1>12. SpinInv'
    <2>1. SUFFICES ASSUME lab = "lab23" PROVE SpinInv'
      BY <1>1 DEF SpinInv
    <2>2. burst = 1 /\ left[t] = Iterations /\ counterLock = t
      BY <1>1, <2>1 DEF SpinInv, BurstInv
    <2> QED  BY <1>1, <1>5, <2>1, <2>2 DEF SpinInv
  <1>13. AtomicInv'
    BY <1>1, <1>3 DEF AtomicInv
  <1> QED  BY <1>7, <1>8, <1>9, <1>10, <1>11, <1>12, <1>13

\* The atomic addition.
LEMMA FetchAddStep ==
    ASSUME Counter!CounterAssumption, CounterInv, NEW t \in CounterThreads, Counter!FetchAdd(t)
    PROVE  CounterInv'
  <1> USE DEF CounterInv
  <1>1. /\ tpc[t] = "loop" /\ tpc'[t] = "loop" /\ lab = "lab24" /\ left[t] > 0
        /\ tpc' \in [CounterThreads -> {"loop", "store", "unlock", "done"}]
        /\ \A u \in CounterThreads : u # t => tpc'[u] = tpc[u]
        /\ counter' = counter + 1
        /\ left' = [left EXCEPT ![t] = @ - 1]
        /\ UNCHANGED <<lab, burst, counterLock, loaded, started, mainpc>>
    BY CounterMoves DEF Counter!FetchAdd
  <1>2. /\ counter \in Nat /\ left \in [CounterThreads -> 0 .. Iterations] /\ Iterations \in Nat
    BY CounterNumbers
  <1>3. /\ Todo' \in Nat /\ Todo = Todo' + 1
        /\ left' \in [CounterThreads -> 0 .. Iterations]
        /\ left'[t] = left[t] - 1
        /\ \A u \in CounterThreads : u # t => left'[u] = left[u]
    <2>1. left[t] >= 1
      BY <1>1, <1>2
    <2> QED  BY <1>1, <2>1, LessToDo
  <1>4. counter' \in Nat
    BY <1>1, <1>2
  <1>5. Counter!TypeOK'
    BY <1>1, <1>3, <1>4 DEF Counter!TypeOK
  <1>6. BurstInv'
    BY <1>1 DEF BurstInv
  <1>7. PointsInv'
    BY <1>1, <1>3 DEF PointsInv
  <1>8. AtomicInv'
    <2>1. counter + Todo = Counter!All
      BY <1>1 DEF AtomicInv
    <2>2. counter' + Todo' = Counter!All
      BY <1>1, <1>2, <1>3, <2>1
    <2> QED  BY <2>2 DEF AtomicInv, Counter!All
  <1> QED  BY <1>1, <1>5, <1>6, <1>7, <1>8 DEF RaceInv, CounterMutexInv, SpinInv

\* The steps of main.
LEMMA CounterMainStep ==
    ASSUME CounterInv,
           \/ \E t \in CounterThreads : Counter!Create(t)
           \/ Counter!CreateFails \/ Counter!JoinAndPrint \/ UNCHANGED Counter!vars
    PROVE  CounterInv'
  <1> USE DEF CounterInv, Counter!Create, Counter!CreateFails, Counter!JoinAndPrint, Counter!vars
  <1>1. UNCHANGED <<lab, burst, counterLock, counter, left, tpc, loaded>>
    OBVIOUS
  <1>2. /\ started' \in SUBSET CounterThreads
        /\ mainpc' \in {"create", "printed", "ended"}
        /\ mainpc' = "printed" => mainpc = "printed" \/ \A t \in CounterThreads : tpc[t] = "done"
    BY DEF Counter!TypeOK
  <1> HIDE DEF Counter!Create, Counter!CreateFails, Counter!JoinAndPrint, Counter!vars
  <1>3. Counter!TypeOK'
    BY <1>1, <1>2 DEF Counter!TypeOK
  <1>4. Todo' = Todo
    BY <1>1 DEF Todo
  <1>5. BurstInv' /\ PointsInv' /\ SpinInv'
    BY <1>1, <1>2 DEF BurstInv, PointsInv, SpinInv
  <1>6. RaceInv' /\ CounterMutexInv' /\ AtomicInv'
    BY <1>1, <1>4 DEF RaceInv, CounterMutexInv, AtomicInv
  <1> QED  BY <1>3, <1>5, <1>6

\* The invariant over every step of labs 21 to 24.
LEMMA CounterStep ==
    ASSUME Counter!CounterAssumption, CounterInv, Counter!Next \/ UNCHANGED Counter!vars
    PROVE  CounterInv'
  BY NoAddition, LoadStep, StoreStepInv, FetchAddStep, CounterMainStep
     DEF Counter!Next, Counter!Thread, Counter!Stopped

\* What main prints follows from what is left when all have returned.
LEMMA CounterIsFinal ==
    ASSUME Counter!CounterAssumption, CounterInv
    PROVE  Counter!FinalCounter
  <1> USE DEF CounterInv
  <1>1. /\ IsFiniteSet(CounterThreads) /\ CounterThreads # {} /\ counter \in Nat
        /\ Iterations \in Nat /\ Iterations > 1 /\ Counter!All \in Nat
        /\ left \in [CounterThreads -> 0 .. Iterations]
    BY CounterNumbers
  <1>2. SUFFICES ASSUME mainpc = "printed"
                 PROVE  CASE lab = "lab21" -> counter \in 2 .. Counter!All
                          [] lab = "lab23" -> Counter!All = 1
                          [] OTHER         -> counter = Counter!All
    BY DEF Counter!FinalCounter
  <1>3. \A t \in CounterThreads : left[t] = 0
    BY <1>2 DEF PointsInv
  <1>4. Todo = 0
    <2>1. left = [t \in CounterThreads |-> 0]
      BY <1>1, <1>3
    <2> QED  BY <1>1, <2>1, TotalOfZeros DEF Todo
  <1>5. CASE lab = "lab21"
    <2>1. counter + Todo <= Counter!All /\ counter > 1
      BY <1>3, <1>5 DEF RaceInv
    <2> QED  BY <1>1, <1>4, <1>5, <2>1
  <1>6. CASE lab = "lab22" \/ lab = "lab24"
    <2>1. counter + Todo = Counter!All
      BY <1>6 DEF CounterMutexInv, AtomicInv
    <2> QED  BY <1>1, <1>4, <1>6, <2>1
  <1>7. CASE lab = "lab23"
    <2>1. PICK t \in CounterThreads : left[t] \in {Iterations, Iterations - 1}
      BY <1>1, <1>7 DEF SpinInv
    <2> QED  BY <1>1, <1>3, <2>1
  <1> QED  BY <1>5, <1>6, <1>7 DEF Counter!TypeOK

-----------------------------------------------------------------------------
(* Labs 25 to 32.                                                            *)

\* lab27: the updater has written 39 before it takes the mutex, and stops at 44.
UpdaterInv ==
    program = "lab27" /\ pc[2] \in {"lock", "update"} => value \in 39 .. 43

\* lab32: a thread past its store has it in memory or in its buffer, past its load in
\* memory, where a thread that loads later finds it.
FenceInv ==
    program = "lab32" =>
        /\ \A t \in 1 .. 2 :
               /\ pc[t] \in {"begin", "load", "returned"}
               /\ pc[t] = "load" => buffered[t] \/ mem[t] = 1
               /\ pc[t] = "returned" => ~buffered[t] /\ mem[t] = 1
        /\ pc[1] = "returned" /\ pc[2] = "returned" => reg[1] = 1 \/ reg[2] = 1

ThreadsInv == Threads!Outcomes /\ UpdaterInv /\ FenceInv

\* The ranges that the types of the threads bring.
LEMMA ThreadTypes ==
    ASSUME Threads!TriesAssumption, Threads!TypeOK
    PROVE  /\ Tries \in Nat
           /\ pc \in [1 .. 3 -> Threads!Points]
           /\ holder \in [1 .. 2 -> 0 .. 3] /\ tries \in [1 .. 3 -> 0 .. Tries]
           /\ value \in {0} \cup 39 .. 44 /\ tested \in {0} \cup 39 .. 44
           /\ killed \in BOOLEAN /\ races \in BOOLEAN
           /\ buffered \in [1 .. 2 -> BOOLEAN]
           /\ mem \in [1 .. 2 -> 0 .. 1] /\ reg \in [1 .. 2 -> 0 .. 1]
  BY DEF Threads!TriesAssumption, Threads!TypeOK

\* The threads at the start.
LEMMA ThreadsInit ==
    ASSUME Threads!TriesAssumption, Threads!Init
    PROVE  ThreadsInv
  <1> USE DEF Threads!Init, Threads!TriesAssumption
  <1>1. Threads!TypeOK
    <2>1. pc \in [1 .. 3 -> Threads!Points]
      BY DEF Threads!Points
    <2>2. holder \in [1 .. 2 -> 0 .. 3]
      BY DEF Threads!Free
    <2>3. tries \in [1 .. 3 -> 0 .. Tries]
      OBVIOUS
    <2>4. {value, tested} \subseteq {0} \cup 39 .. 44
      OBVIOUS
    <2>5. mem \in [1 .. 2 -> 0 .. 1] /\ reg \in [1 .. 2 -> 0 .. 1]
      OBVIOUS
    <2>6. killed \in BOOLEAN /\ races \in BOOLEAN /\ buffered \in [1 .. 2 -> BOOLEAN]
      OBVIOUS
    <2> HIDE DEF Threads!Init, Threads!TriesAssumption
    <2> QED  BY <2>1, <2>2, <2>3, <2>4, <2>5, <2>6 DEF Threads!TypeOK
  <1>2. \A t \in 1 .. 3 : pc[t] = "begin"
    OBVIOUS
  <1>3. Threads!Outcomes
    BY <1>1, <1>2 DEF Threads!Outcomes
  <1>4. UpdaterInv /\ FenceInv
    BY <1>2 DEF UpdaterInv, FenceInv
  <1> QED  BY <1>3, <1>4 DEF ThreadsInv

\* The control points by name.
LEMMA PointNames ==
    /\ "begin" \in Threads!Points /\ "lock" \in Threads!Points /\ "test" \in Threads!Points
    /\ "asleep" \in Threads!Points /\ "awake" \in Threads!Points
    /\ "update" \in Threads!Points /\ "load" \in Threads!Points
    /\ "returned" \in Threads!Points
  BY DEF Threads!Points

\* A step of one thread moves its control point and no other.
LEMMA ThreadMoves ==
    ASSUME Threads!TypeOK, NEW t \in 1 .. 3, NEW from, NEW to \in Threads!Points,
           Threads!Go(t, from, to)
    PROVE  /\ pc[t] = from /\ pc'[t] = to
           /\ pc' \in [1 .. 3 -> Threads!Points]
           /\ \A u \in 1 .. 3 : u # t => pc'[u] = pc[u]
  BY DEF Threads!Go, Threads!TypeOK

\* lab25, lab26 and lab29: mutexes, tries and the barrier.
LEMMA MutexLabsStep ==
    ASSUME Threads!TriesAssumption, ThreadsInv, NEW t \in Threads!Threads,
           Threads!Deadlock25(t) \/ Threads!Trylock26(t) \/ Threads!Barrier29(t)
    PROVE  ThreadsInv'
  <1>0. /\ program \in {"lab25", "lab26", "lab29"}
        /\ program = "lab25" <=> Threads!Deadlock25(t)
        /\ UNCHANGED <<program, value, tested, killed, Threads!weak>>
    BY DEF Threads!Deadlock25, Threads!LockFirst, Threads!LockSecond, Threads!UnlockSecond,
       Threads!UnlockFirst, Threads!Trylock26, Threads!TryLock, Threads!GiveUp,
       Threads!WorkAndUnlock, Threads!Barrier29, Threads!In
  <1>1. /\ Threads!TypeOK /\ t \in 1 .. 3
        /\ program = "lab25" => t \in 1 .. 2
        /\ UNCHANGED <<program, value, tested, killed, mem, buffered, reg, races>>
    BY <1>0 DEF ThreadsInv, Threads!Outcomes, Threads!weak, Threads!Threads
  <1>2. pc' \in [1 .. 3 -> Threads!Points]
    BY <1>1 DEF Threads!TypeOK, Threads!Deadlock25, Threads!LockFirst, Threads!LockSecond,
       Threads!UnlockSecond, Threads!UnlockFirst, Threads!Trylock26, Threads!TryLock,
       Threads!GiveUp, Threads!WorkAndUnlock, Threads!Barrier29, Threads!Arrive, Threads!Pass,
       Threads!Go, Threads!Points
  <1>3. holder' \in [1 .. 2 -> 0 .. 3]
    <2>1. holder \in [1 .. 2 -> 0 .. 3]
      BY <1>1 DEF Threads!TypeOK
    <2>2. CASE Threads!Deadlock25(t)
      <3>1. t \in 1 .. 2 /\ Threads!Other(t) \in 1 .. 2
        BY <1>0, <1>1, <2>2 DEF Threads!Other
      <3>2. \E m \in 1 .. 2, v \in {t, 0} : holder' = [holder EXCEPT ![m] = v]
        BY <2>2, <3>1 DEF Threads!Deadlock25, Threads!LockFirst, Threads!LockSecond,
           Threads!UnlockSecond, Threads!UnlockFirst, Threads!Lock, Threads!Unlock, Threads!Free
      <3> QED  BY <2>1, <3>1, <3>2
    <2>3. CASE Threads!Trylock26(t) \/ Threads!Barrier29(t)
      <3>1. holder' = holder \/ \E v \in {t, 0} : holder' = [holder EXCEPT ![1] = v]
        BY <2>3 DEF Threads!Trylock26, Threads!TryLock, Threads!GiveUp, Threads!WorkAndUnlock,
           Threads!Barrier29, Threads!Lock, Threads!Unlock, Threads!Free
      <3> QED  BY <1>1, <2>1, <3>1
    <2> QED  BY <2>2, <2>3
  <1>4. tries' \in [1 .. 3 -> 0 .. Tries]
    <2>1. tries \in [1 .. 3 -> 0 .. Tries] /\ Tries \in Nat
      BY <1>1, ThreadTypes
    <2>2. tries' = tries \/ (tries[t] < Tries /\ tries' = [tries EXCEPT ![t] = @ + 1])
      BY DEF Threads!Deadlock25, Threads!Trylock26, Threads!TryLock, Threads!GiveUp,
         Threads!WorkAndUnlock, Threads!Barrier29
    <2>3. tries[t] < Tries => tries[t] + 1 \in 0 .. Tries
      BY <1>1, <2>1
    <2> QED  BY <2>1, <2>2, <2>3
  <1>5. Threads!TypeOK'
    BY <1>1, <1>2, <1>3, <1>4 DEF Threads!TypeOK
  <1> QED  BY <1>0, <1>1, <1>5 DEF ThreadsInv, Threads!Outcomes, UpdaterInv, FenceInv

\* lab27: the condition variable.
LEMMA ConditionStep ==
    ASSUME Threads!TriesAssumption, ThreadsInv,
           \/ Threads!Cond27(Threads!Waiter) \/ Threads!Cond27(Threads!Updater)
           \/ Threads!Cond27(Threads!Spurious)
    PROVE  ThreadsInv'
  <1>0. /\ Threads!Waiter \/ Threads!Updater \/ Threads!Spurious
        /\ program = "lab27"
        /\ UNCHANGED <<program, tries, killed, Threads!weak>>
    BY DEF Threads!Cond27, Threads!In
  <1>1. /\ Threads!TypeOK /\ program = "lab27" /\ UpdaterInv
        /\ pc[1] = "asleep" => value \in {tested, 39}
        /\ UNCHANGED <<program, tries, killed, mem, buffered, reg, races>>
    BY <1>0 DEF ThreadsInv, Threads!Outcomes, Threads!weak
  <1>2. /\ pc \in [1 .. 3 -> Threads!Points] /\ holder \in [1 .. 2 -> 0 .. 3]
        /\ value \in {0} \cup 39 .. 44 /\ tested \in {0} \cup 39 .. 44
    BY <1>1, ThreadTypes
  <1>3. holder' \in [1 .. 2 -> 0 .. 3]
    <2>1. holder' = holder \/ \E v \in 0 .. 3 : holder' = [holder EXCEPT ![1] = v]
      BY <1>0 DEF Threads!Waiter, Threads!WaiterLock, Threads!WaiterTest, Threads!Updater,
         Threads!Prepare, Threads!UpdaterLock, Threads!Update, Threads!Spurious,
         Threads!Lock, Threads!Unlock, Threads!Free
    <2> QED  BY <1>2, <2>1
  <1>4. ASSUME /\ pc' \in [1 .. 3 -> Threads!Points]
               /\ value' \in {0} \cup 39 .. 44 /\ tested' \in {0} \cup 39 .. 44
               /\ pc'[1] = "asleep" => value' \in {tested', 39}
               /\ pc'[2] \in {"lock", "update"} => value' \in 39 .. 43
        PROVE  ThreadsInv'
    <2>1. Threads!TypeOK'
      BY <1>1, <1>3, <1>4 DEF Threads!TypeOK
    <2> QED  BY <1>1, <1>4, <2>1 DEF ThreadsInv, Threads!Outcomes, UpdaterInv, FenceInv
  <1>5. CASE Threads!WaiterLock
    <2>1. /\ pc' = [pc EXCEPT ![1] = "test"] /\ UNCHANGED <<value, tested>>
      BY <1>5 DEF Threads!WaiterLock
    <2>2. pc' \in [1 .. 3 -> Threads!Points] /\ pc'[1] = "test" /\ pc'[2] = pc[2]
      BY <1>2, <2>1, PointNames
    <2> QED  BY <1>1, <1>2, <1>4, <2>1, <2>2 DEF UpdaterInv
  <1>6. CASE Threads!WaiterTest
    <2>1. /\ pc' = [pc EXCEPT ![1] = IF value = 42 THEN "returned" ELSE "asleep"]
          /\ tested' = value /\ value' = value
      BY <1>6 DEF Threads!WaiterTest
    <2>2. pc' \in [1 .. 3 -> Threads!Points] /\ pc'[2] = pc[2]
      BY <1>2, <2>1, PointNames
    <2> QED  BY <1>1, <1>2, <1>4, <2>1, <2>2 DEF UpdaterInv
  <1>7. CASE Threads!Spurious
    <2>1. Threads!Go(1, "asleep", "awake") /\ UNCHANGED <<value, tested>>
      BY <1>7 DEF Threads!Spurious
    <2>2. pc' \in [1 .. 3 -> Threads!Points] /\ pc'[1] = "awake" /\ pc'[2] = pc[2]
      BY <1>1, <2>1, ThreadMoves, PointNames
    <2> QED  BY <1>1, <1>2, <1>4, <2>1, <2>2 DEF UpdaterInv
  <1>8. CASE Threads!Prepare
    <2>1. Threads!Go(2, "begin", "lock") /\ value' = 39 /\ tested' = tested
      BY <1>8 DEF Threads!Prepare
    <2>2. pc' \in [1 .. 3 -> Threads!Points]
      BY <1>1, <2>1, ThreadMoves, PointNames
    <2> QED  BY <1>2, <1>4, <2>1, <2>2
  <1>9. CASE Threads!UpdaterLock
    <2>1. Threads!Go(2, "lock", "update") /\ UNCHANGED <<value, tested>>
      BY <1>9 DEF Threads!UpdaterLock
    <2>2. pc' \in [1 .. 3 -> Threads!Points] /\ pc[2] = "lock" /\ pc'[1] = pc[1]
      BY <1>1, <2>1, ThreadMoves, PointNames
    <2> QED  BY <1>1, <1>2, <1>4, <2>1, <2>2 DEF UpdaterInv
  <1>10. CASE Threads!Update
    <2>1. /\ pc[2] = "update" /\ value' = value + 1 /\ tested' = tested
          /\ pc' = [Threads!Signalled EXCEPT
                        ![2] = IF value + 1 = Threads!LastValue THEN "returned" ELSE "lock"]
      BY <1>10 DEF Threads!Update
    <2>2. /\ Threads!Signalled \in [1 .. 3 -> Threads!Points]
          /\ Threads!Signalled[1] # "asleep"
      BY <1>2, PointNames DEF Threads!Signalled
    <2>3. /\ pc' \in [1 .. 3 -> Threads!Points] /\ pc'[1] # "asleep"
          /\ pc'[2] = IF value + 1 = Threads!LastValue THEN "returned" ELSE "lock"
      BY <2>1, <2>2, PointNames
    <2>4. value \in 39 .. 43 /\ Threads!LastValue = 44
      BY <1>1, <2>1 DEF UpdaterInv, Threads!LastValue
    <2>5. value' \in 39 .. 44 /\ (value' # 44 => value' \in 39 .. 43)
      BY <2>1, <2>4
    <2> QED  BY <1>2, <1>4, <2>1, <2>3, <2>4, <2>5
  <1> QED  BY <1>5, <1>6, <1>7, <1>0, <1>8, <1>9, <1>10 DEF Threads!Waiter, Threads!Updater

\* lab28: the signal and its handler.
LEMMA SignalStep ==
    ASSUME Threads!TriesAssumption, ThreadsInv,
           \/ Threads!Signal28(Threads!Install) \/ Threads!Signal28(Threads!Sleep)
           \/ Threads!Signal28(Threads!WakeUp) \/ Threads!Signal28(Threads!Kill)
    PROVE  ThreadsInv'
  <1>1. /\ Threads!TypeOK /\ program = "lab28"
        /\ UNCHANGED <<program, holder, tries, value, tested, mem, buffered, reg, races>>
    BY DEF ThreadsInv, Threads!Outcomes, Threads!Signal28, Threads!In, Threads!weak
  <1>2. killed' \in BOOLEAN
    BY <1>1 DEF Threads!TypeOK, Threads!Signal28, Threads!Install, Threads!Sleep,
       Threads!WakeUp, Threads!Kill
  <1>3. pc' \in [1 .. 3 -> Threads!Points]
    BY <1>1 DEF Threads!TypeOK, Threads!Signal28, Threads!Install, Threads!Sleep,
       Threads!WakeUp, Threads!Kill, Threads!Go, Threads!Points
  <1>4. Threads!TypeOK'
    BY <1>1, <1>2, <1>3 DEF Threads!TypeOK
  <1> QED  BY <1>1, <1>4 DEF ThreadsInv, Threads!Outcomes, UpdaterInv, FenceInv

\* lab31 and lab32: the stores and loads of two threads.
LEMMA MemoryStep ==
    ASSUME Threads!TriesAssumption, ThreadsInv,
           \/ \E t \in Threads!Threads :
                  \/ Threads!Memory31(Threads!WriteOwn(t)) \/ Threads!Memory31(Threads!Flush(t))
                  \/ Threads!Memory31(Threads!ReadOther(t))
           \/ Threads!Memory31(Threads!NextRun)
    PROVE  ThreadsInv'
  <1>0. /\ \/ \E t \in Threads!Threads :
                 Threads!WriteOwn(t) \/ Threads!Flush(t) \/ Threads!ReadOther(t)
           \/ Threads!NextRun
        /\ program \in {"lab31", "lab32"}
        /\ UNCHANGED <<program, holder, tries, value, tested, killed>>
    BY DEF Threads!Memory31, Threads!In
  <1>1. /\ Threads!TypeOK /\ program \in {"lab31", "lab32"} /\ FenceInv
        /\ program = "lab32" => ~races
        /\ Threads!Threads = 1 .. 2
        /\ UNCHANGED <<program, holder, tries, value, tested, killed>>
    BY <1>0 DEF ThreadsInv, Threads!Outcomes, Threads!Threads
  <1>2. /\ pc \in [1 .. 3 -> Threads!Points] /\ buffered \in [1 .. 2 -> BOOLEAN]
        /\ mem \in [1 .. 2 -> 0 .. 1] /\ reg \in [1 .. 2 -> 0 .. 1] /\ races \in BOOLEAN
    BY <1>1, ThreadTypes
  <1>3. ASSUME /\ pc' \in [1 .. 3 -> Threads!Points] /\ buffered' \in [1 .. 2 -> BOOLEAN]
               /\ mem' \in [1 .. 2 -> 0 .. 1] /\ reg' \in [1 .. 2 -> 0 .. 1]
               /\ races' \in BOOLEAN /\ (program = "lab32" => ~races') /\ FenceInv'
        PROVE  ThreadsInv'
    <2>1. Threads!TypeOK'
      BY <1>1, <1>3 DEF Threads!TypeOK
    <2> QED  BY <1>1, <1>3, <2>1 DEF ThreadsInv, Threads!Outcomes, UpdaterInv
  <1>4. ASSUME NEW t \in 1 .. 2, Threads!WriteOwn(t)
        PROVE  ThreadsInv'
    <2>1. /\ Threads!Go(t, "begin", "load") /\ buffered' = [buffered EXCEPT ![t] = TRUE]
          /\ UNCHANGED <<mem, reg, races>>
      BY <1>4 DEF Threads!WriteOwn
    <2>2. /\ pc' \in [1 .. 3 -> Threads!Points] /\ pc[t] = "begin" /\ pc'[t] = "load"
          /\ \A u \in 1 .. 3 : u # t => pc'[u] = pc[u]
      BY <1>1, <2>1, ThreadMoves, PointNames
    <2>3. /\ buffered' \in [1 .. 2 -> BOOLEAN] /\ buffered'[t]
          /\ \A u \in 1 .. 2 : u # t => buffered'[u] = buffered[u]
      BY <1>2, <2>1
    <2>4. FenceInv'
      BY <1>1, <2>1, <2>2, <2>3 DEF FenceInv
    <2> QED  BY <1>1, <1>2, <1>3, <2>1, <2>2, <2>3, <2>4
  <1>5. ASSUME NEW t \in 1 .. 2, Threads!Flush(t)
        PROVE  ThreadsInv'
    <2>1. /\ buffered[t] /\ buffered' = [buffered EXCEPT ![t] = FALSE]
          /\ mem' = [mem EXCEPT ![t] = 1] /\ UNCHANGED <<pc, reg, races>>
      BY <1>5 DEF Threads!Flush
    <2>2. /\ buffered' \in [1 .. 2 -> BOOLEAN] /\ mem' \in [1 .. 2 -> 0 .. 1]
          /\ buffered'[t] = FALSE /\ mem'[t] = 1
          /\ \A u \in 1 .. 2 : u # t => buffered'[u] = buffered[u] /\ mem'[u] = mem[u]
      <3>1. /\ buffered' \in [1 .. 2 -> BOOLEAN] /\ buffered'[t] = FALSE
            /\ \A u \in 1 .. 2 : u # t => buffered'[u] = buffered[u]
        BY <1>2, <2>1
      <3>2. /\ mem' \in [1 .. 2 -> 0 .. 1] /\ mem'[t] = 1
            /\ \A u \in 1 .. 2 : u # t => mem'[u] = mem[u]
        BY <1>2, <2>1
      <3> QED  BY <3>1, <3>2
    <2>3. FenceInv'
      BY <1>1, <2>1, <2>2 DEF FenceInv
    <2> QED  BY <1>1, <1>2, <1>3, <2>1, <2>2, <2>3
  <1>6. ASSUME NEW t \in 1 .. 2, Threads!ReadOther(t)
        PROVE  ThreadsInv'
    <2> DEFINE o == Threads!Other(t)
    <2>0. o \in 1 .. 2 /\ o # t /\ \A u \in 1 .. 2 : u = t \/ u = o
      BY DEF Threads!Other
    <2> HIDE DEF o
    <2>1. /\ Threads!Go(t, "load", "returned") /\ reg' = [reg EXCEPT ![t] = mem[o]]
          /\ program = "lab32" => ~buffered[t]
          /\ UNCHANGED <<mem, buffered, races>>
      BY <1>6 DEF Threads!ReadOther, Threads!Fenced, o
    <2>2. /\ pc' \in [1 .. 3 -> Threads!Points] /\ pc[t] = "load" /\ pc'[t] = "returned"
          /\ \A u \in 1 .. 3 : u # t => pc'[u] = pc[u]
      BY <1>1, <2>1, ThreadMoves, PointNames
    <2>3. reg' \in [1 .. 2 -> 0 .. 1] /\ reg'[t] = mem[o]
      BY <1>2, <2>0, <2>1
    <2>4. FenceInv'
      <3>1. SUFFICES ASSUME program = "lab32" PROVE FenceInv'
        BY <1>1 DEF FenceInv
      <3>2. \A u \in 1 .. 2 :
                /\ pc'[u] \in {"begin", "load", "returned"}
                /\ pc'[u] = "load" => buffered'[u] \/ mem'[u] = 1
                /\ pc'[u] = "returned" => ~buffered'[u] /\ mem'[u] = 1
        BY <1>1, <2>1, <2>2, <3>1 DEF FenceInv
      <3>3. pc'[o] = "returned" => reg'[t] = 1
        <4>1. mem' = mem
          BY <2>1
        <4>2. pc'[o] = "returned" => mem'[o] = 1
          BY <2>0, <3>2
        <4> QED  BY <2>3, <4>1, <4>2
      <3>4. pc'[1] = "returned" /\ pc'[2] = "returned" => reg'[1] = 1 \/ reg'[2] = 1
        BY <2>0, <3>3
      <3>5. program' = "lab32"
        BY <1>1, <3>1
      <3> QED  BY <3>2, <3>4, <3>5 DEF FenceInv
    <2> QED  BY <1>1, <1>2, <1>3, <2>1, <2>2, <2>3, <2>4
  <1>7. CASE Threads!NextRun
    <2>1. /\ pc[1] = "returned" /\ pc[2] = "returned"
          /\ races' = (races \/ (reg[1] = 0 /\ reg[2] = 0))
          /\ pc' = [pc EXCEPT ![1] = "begin", ![2] = "begin"]
          /\ mem' = [t \in 1 .. 2 |-> 0] /\ reg' = mem' /\ buffered' = buffered
      BY <1>1, <1>7 DEF Threads!NextRun, Threads!AllReturned
    <2>2. /\ pc' \in [1 .. 3 -> Threads!Points] /\ pc'[1] = "begin" /\ pc'[2] = "begin"
      BY <1>2, <2>1, PointNames
    <2>3. program = "lab32" => ~races'
      <3>1. program = "lab32" => ~(reg[1] = 0 /\ reg[2] = 0)
        BY <1>1, <2>1 DEF FenceInv
      <3>2. races' => races \/ (reg[1] = 0 /\ reg[2] = 0)
        BY <2>1
      <3> QED  BY <1>1, <3>1, <3>2
    <2>4. FenceInv'
      BY <2>2 DEF FenceInv
    <2>5. races' \in BOOLEAN
      BY <1>2, <2>1
    <2>6. mem' \in [1 .. 2 -> 0 .. 1] /\ reg' \in [1 .. 2 -> 0 .. 1]
      BY <2>1
    <2> QED  BY <1>2, <1>3, <2>1, <2>2, <2>3, <2>4, <2>5, <2>6
  <1> QED  BY <1>0, <1>1, <1>4, <1>5, <1>6, <1>7

\* The invariant over every step of labs 25 to 32.
LEMMA ThreadsStep ==
    ASSUME Threads!TriesAssumption, ThreadsInv, Threads!Next \/ UNCHANGED Threads!vars
    PROVE  ThreadsInv'
  <1>1. CASE UNCHANGED Threads!vars
    BY <1>1 DEF Threads!vars, ThreadsInv, Threads!Outcomes, Threads!TypeOK, UpdaterInv, FenceInv
  <1> QED  BY <1>1, MutexLabsStep, ConditionStep, SignalStep, MemoryStep
           DEF Threads!Next, Threads!ThreadStep

-----------------------------------------------------------------------------
(* The pairs of programs of process/ipc.                                     *)

\* The makers that have an object open.
Havers == {m \in Makers : obj[m] # Ipc!None}

\* The points at which a process uses the object it has open.
Using ==
    {"send", "receive", "ftruncate", "read", "wait", "inside", "listen", "accept", "write"}

\* Each object was made by a maker that had none, so that there are no more than makers.
OpenInv ==
    /\ named <= made
    /\ \A p \in Ipc!Procs : /\ obj[p] <= made
                            /\ procpc[p] \in Using => obj[p] # Ipc!None
    /\ \A m \in Makers : procpc[m] \in {"begin", "bind"} => obj[m] = Ipc!None
    /\ made <= Cardinality(Havers)

\* A sender at mq_send has something to send.
SendersInv == \A m \in Makers : procpc[m] \in {"begin", "send"} => toSend[m] > 0

QueueInv == pair = "queue" => \A o \in Ipc!Objects : level[o] <= MaxMsg

\* lab15: an object without its size has the writer that has not given it one yet.
SizeInv ==
    pair = "shm" =>
        \A o \in 1 .. made : o \notin sized =>
            \E m \in Makers : obj[m] = o /\ procpc[m] \in {"ftruncate", "dead"}

\* lab16: those that have taken the permit, and still have it.
Inside == {m \in Makers : procpc[m] \in {"inside", "dead holding"}}

PermitInv ==
    pair = "sem" =>
        /\ made \in {0, 1} /\ named = made
        /\ made = 0 => Inside = {}
        /\ made = 1 => level[1] + Cardinality(Inside) = 1

IpcInv == Ipc!TypeOK /\ OpenInv /\ SendersInv /\ QueueInv /\ SizeInv /\ PermitInv

\* The instance of IpcLabs counts as its reader does.
LEMMA IpcSets ==
    ASSUME NEW S
    PROVE  /\ Ipc!IsFiniteSet(S) <=> IsFiniteSet(S)
           /\ Ipc!Cardinality(S) = Cardinality(S)
  BY DEF Ipc!IsFiniteSet, IsFiniteSet, Ipc!Cardinality, Cardinality

\* The constants and what is typed by them.
LEMMA IpcTypes ==
    ASSUME Ipc!IpcLabsAssumption, Ipc!TypeOK
    PROVE  /\ IsFiniteSet(Makers) /\ Cardinality(Makers) \in Nat /\ Makers \cap Users = {}
           /\ Ipc!None = 0 /\ Ipc!Objects = 1 .. Cardinality(Makers)
           /\ Burst \in Nat \ {0} /\ MaxMsg \in Nat \ {0}
           /\ obj \in [Ipc!Procs -> 0 .. Cardinality(Makers)]
           /\ named \in 0 .. Cardinality(Makers) /\ made \in 0 .. Cardinality(Makers)
           /\ level \in [Ipc!Objects -> Nat] /\ toSend \in [Makers -> 0 .. Burst]
           /\ sized \in SUBSET Ipc!Objects
           /\ Havers \in SUBSET Makers /\ IsFiniteSet(Havers) /\ Cardinality(Havers) \in Nat
           /\ Inside \in SUBSET Makers /\ IsFiniteSet(Inside) /\ Cardinality(Inside) \in Nat
  <1>1. /\ IsFiniteSet(Makers) /\ Makers \cap Users = {}
        /\ Burst \in Nat \ {0} /\ MaxMsg \in Nat \ {0}
    BY IpcSets DEF Ipc!IpcLabsAssumption
  <1>2. Cardinality(Makers) \in Nat
    BY <1>1, FS_CardinalityType
  <1>3. Ipc!None = 0 /\ Ipc!Objects = 1 .. Cardinality(Makers)
    BY IpcSets DEF Ipc!None, Ipc!Objects
  <1>4. (1 .. Cardinality(Makers)) \cup {0} = 0 .. Cardinality(Makers)
    BY <1>2
  <1>5. Havers \in SUBSET Makers /\ Inside \in SUBSET Makers
    BY DEF Havers, Inside
  <1>6. /\ IsFiniteSet(Havers) /\ Cardinality(Havers) \in Nat
        /\ IsFiniteSet(Inside) /\ Cardinality(Inside) \in Nat
    BY <1>1, <1>5, FS_Subset, FS_CardinalityType
  <1>7. /\ obj \in [Ipc!Procs -> 0 .. Cardinality(Makers)]
        /\ named \in 0 .. Cardinality(Makers) /\ made \in 0 .. Cardinality(Makers)
        /\ level \in [Ipc!Objects -> Nat] /\ toSend \in [Makers -> 0 .. Burst]
        /\ sized \in SUBSET Ipc!Objects
    BY <1>3, <1>4, IpcSets DEF Ipc!TypeOK
  <1> QED  BY <1>1, <1>2, <1>3, <1>5, <1>6, <1>7

\* The processes before any of them is started.
LEMMA IpcInit ==
    ASSUME Ipc!IpcLabsAssumption, Ipc!Init
    PROVE  IpcInv
  <1> USE DEF Ipc!Init
  <1>1. IsFiniteSet(Makers) /\ Burst \in Nat \ {0} /\ MaxMsg \in Nat \ {0}
    BY IpcSets DEF Ipc!IpcLabsAssumption
  <1>2. Cardinality(Makers) \in Nat
    BY <1>1, FS_CardinalityType
  <1>3. Ipc!TypeOK
    <2>1. /\ obj \in [Ipc!Procs -> Ipc!Objects \cup {Ipc!None}]
          /\ named \in Ipc!Objects \cup {Ipc!None} /\ level \in [Ipc!Objects -> Nat]
          /\ sized \subseteq Ipc!Objects
      OBVIOUS
    <2>2. made \in 0 .. Cardinality(Makers) /\ toSend \in [Makers -> 0 .. Burst]
      BY <1>1, <1>2
    <2> QED  BY <2>1, <2>2, IpcSets DEF Ipc!TypeOK
  <1>4. Makers \subseteq Ipc!Procs
    BY DEF Ipc!Procs
  <1>5. Havers = {} /\ Inside = {}
    BY <1>4 DEF Havers, Inside
  <1>6. OpenInv
    <2>1. Cardinality(Havers) = 0
      BY <1>5, FS_EmptySet
    <2> QED  BY <1>4, <2>1 DEF OpenInv, Using, Ipc!None
  <1>7. SendersInv
    BY <1>1 DEF SendersInv
  <1>8. QueueInv
    BY <1>1 DEF QueueInv
  <1>9. SizeInv /\ PermitInv
    BY <1>5 DEF SizeInv, PermitInv, Ipc!None
  <1> QED  BY <1>3, <1>6, <1>7, <1>8, <1>9 DEF IpcInv

\* A process moves; what it has open, the name and the number of objects stay, but for
\* a name that is taken away.
KeepsOpen(p, to) ==
    /\ procpc' = [procpc EXCEPT ![p] = to]
    /\ to \in Using => procpc[p] \in Using
    /\ p \in Makers /\ to \in {"begin", "bind"} => procpc[p] \in {"begin", "bind"}
    /\ obj' = obj /\ made' = made /\ named' \in {named, Ipc!None}

\* A process opens what bears the name.
OpensNamed(p, to) ==
    /\ procpc' = [procpc EXCEPT ![p] = to] /\ to \notin {"begin", "bind"}
    /\ named # Ipc!None /\ obj' = [obj EXCEPT ![p] = named] /\ UNCHANGED <<named, made>>

\* A maker that has nothing open makes an object.
Makes(p, to) ==
    /\ procpc' = [procpc EXCEPT ![p] = to] /\ to \notin {"begin", "bind"}
    /\ p \in Makers /\ procpc[p] \in {"begin", "bind"}
    /\ made' = made + 1 /\ named' = made + 1 /\ obj' = [obj EXCEPT ![p] = made + 1]

\* The control points.
IpcPoints ==
    Ipc!Ends \cup {"begin", "send", "receive", "unlink", "ftruncate", "read", "wait",
                   "inside", "bind", "listen", "accept", "write"}

\* What the three kinds of step leave true of the objects, and of their number.
LEMMA OpenKept ==
    ASSUME Ipc!IpcLabsAssumption, Ipc!TypeOK, OpenInv, NEW p \in Ipc!Procs, NEW to \in IpcPoints,
           KeepsOpen(p, to) \/ OpensNamed(p, to) \/ Makes(p, to)
    PROVE  /\ OpenInv'
           /\ procpc' \in [Ipc!Procs -> IpcPoints]
           /\ \A q \in Ipc!Procs : q # p => procpc'[q] = procpc[q] /\ obj'[q] = obj[q]
           /\ procpc'[p] = to
           /\ obj' \in [Ipc!Procs -> Ipc!Objects \cup {Ipc!None}]
           /\ named' \in Ipc!Objects \cup {Ipc!None} /\ made' \in 0 .. Cardinality(Makers)
  <1> DEFINE N == Cardinality(Makers)
  <1>1. /\ IsFiniteSet(Makers) /\ N \in Nat
        /\ Ipc!None = 0 /\ Ipc!Objects = 1 .. N
        /\ obj \in [Ipc!Procs -> 0 .. N]
        /\ named \in 0 .. N /\ made \in 0 .. N
        /\ Havers \in SUBSET Makers /\ IsFiniteSet(Havers) /\ Cardinality(Havers) \in Nat
    BY IpcTypes
  <1> HIDE DEF N
  <1>2. procpc \in [Ipc!Procs -> IpcPoints] /\ Makers \subseteq Ipc!Procs
    BY DEF Ipc!TypeOK, IpcPoints, Ipc!Procs
  <1>3. /\ procpc' \in [Ipc!Procs -> IpcPoints] /\ procpc'[p] = to
        /\ \A q \in Ipc!Procs : q # p => procpc'[q] = procpc[q]
    BY <1>2 DEF KeepsOpen, OpensNamed, Makes
  <1>4. /\ named <= made /\ made <= Cardinality(Havers)
        /\ \A q \in Ipc!Procs : obj[q] <= made /\ (procpc[q] \in Using => obj[q] # 0)
        /\ \A m \in Makers : procpc[m] \in {"begin", "bind"} => obj[m] = 0
    BY <1>1 DEF OpenInv
  <1>5. SUFFICES /\ obj' \in [Ipc!Procs -> 0 .. N] /\ named' \in 0 .. N /\ made' \in 0 .. N
                 /\ \A q \in Ipc!Procs : q # p => obj'[q] = obj[q]
                 /\ named' <= made' /\ made' <= Cardinality(Havers')
                 /\ \A q \in Ipc!Procs : obj'[q] <= made' /\ (procpc'[q] \in Using => obj'[q] # 0)
                 /\ \A m \in Makers : procpc'[m] \in {"begin", "bind"} => obj'[m] = 0
    <2>1. (1 .. N) \cup {0} = 0 .. N
      BY <1>1
    <2> QED  BY <1>1, <1>3, <2>1 DEF OpenInv, N, Ipc!None
  <1>6. CASE KeepsOpen(p, to)
    <2>1. Havers' = Havers
      BY <1>6 DEF KeepsOpen, Havers, Ipc!None
    <2>2. named' \in 0 .. N /\ named' <= made
      BY <1>1, <1>4, <1>6 DEF KeepsOpen
    <2>3. obj' = obj /\ made' = made
      BY <1>6 DEF KeepsOpen
    <2>4. \A q \in Ipc!Procs : procpc'[q] \in Using => procpc[q] \in Using
      BY <1>3, <1>6 DEF KeepsOpen
    <2>5. \A m \in Makers : procpc'[m] \in {"begin", "bind"} => procpc[m] \in {"begin", "bind"}
      BY <1>2, <1>3, <1>6 DEF KeepsOpen
    <2> QED  BY <1>1, <1>4, <2>1, <2>2, <2>3, <2>4, <2>5
  <1>7. CASE OpensNamed(p, to)
    <2>1. /\ obj' \in [Ipc!Procs -> 0 .. N] /\ obj'[p] = named
          /\ \A q \in Ipc!Procs : q # p => obj'[q] = obj[q]
          /\ named # 0 /\ named' = named /\ made' = made /\ to \notin {"begin", "bind"}
      BY <1>1, <1>7 DEF OpensNamed
    <2>2. Havers \in SUBSET Havers' /\ Havers' \in SUBSET Makers
      BY <1>1, <1>2, <2>1 DEF Havers, Ipc!None
    <2>3. IsFiniteSet(Havers') /\ Cardinality(Havers) <= Cardinality(Havers')
      BY <1>1, <2>2, FS_Subset
    <2>4. made' <= Cardinality(Havers')
      <3>1. Cardinality(Havers') \in Nat
        BY <2>3, FS_CardinalityType
      <3> QED  BY <1>1, <1>4, <2>1, <2>3, <3>1
    <2>5. \A q \in Ipc!Procs : obj'[q] <= made' /\ (procpc'[q] \in Using => obj'[q] # 0)
      BY <1>3, <1>4, <2>1
    <2>6. \A m \in Makers : procpc'[m] \in {"begin", "bind"} => obj'[m] = 0
      BY <1>2, <1>3, <1>4, <2>1
    <2> QED  BY <1>1, <1>4, <2>1, <2>4, <2>5, <2>6
  <1>8. CASE Makes(p, to)
    <2>1. /\ p \in Makers /\ obj[p] = 0 /\ to \notin {"begin", "bind"}
          /\ made' = made + 1 /\ named' = made + 1 /\ obj' = [obj EXCEPT ![p] = made + 1]
      BY <1>4, <1>8 DEF Makes
    <2>2. obj'[p] = made + 1 /\ \A q \in Ipc!Procs : q # p => obj'[q] = obj[q]
      BY <1>1, <2>1
    <2>3. Havers' = Havers \cup {p} /\ p \notin Havers /\ Havers \cup {p} \in SUBSET Makers
      <3>1. p \notin Havers
        BY <1>1, <2>1 DEF Havers
      <3>2. \A m \in Makers : obj'[m] # 0 <=> (obj[m] # 0 \/ m = p)
        BY <1>1, <1>2, <2>1, <2>2
      <3> QED  BY <1>1, <2>1, <3>1, <3>2 DEF Havers, Ipc!None
    <2>4. Cardinality(Havers') = Cardinality(Havers) + 1
      BY <1>1, <2>3, FS_AddElement
    <2>5. Cardinality(Havers') <= N
      BY <1>1, <2>3, FS_Subset DEF N
    <2>6. made' \in 0 .. N /\ named' \in 0 .. N /\ made' <= Cardinality(Havers')
      BY <1>1, <1>4, <2>1, <2>4, <2>5
    <2>7. obj' \in [Ipc!Procs -> 0 .. N]
      BY <1>1, <2>1, <2>6
    <2>8. \A q \in Ipc!Procs : obj'[q] <= made' /\ (procpc'[q] \in Using => obj'[q] # 0)
      <3>1. ASSUME NEW q \in Ipc!Procs, q # p
            PROVE  obj'[q] <= made' /\ (procpc'[q] \in Using => obj'[q] # 0)
        <4>1. obj[q] \in 0 .. N /\ obj[q] <= made /\ obj'[q] = obj[q] /\ procpc'[q] = procpc[q]
          BY <1>1, <1>3, <1>4, <2>2, <3>1
        <4> QED  BY <1>1, <1>4, <2>1, <4>1
      <3>2. obj'[p] <= made' /\ obj'[p] # 0
        BY <1>1, <2>1, <2>2
      <3> QED  BY <3>1, <3>2
    <2>9. \A m \in Makers : procpc'[m] \in {"begin", "bind"} => obj'[m] = 0
      BY <1>2, <1>3, <1>4, <2>1, <2>2
    <2>10. named' <= made'
      BY <1>1, <2>1
    <2> QED  BY <2>2, <2>6, <2>7, <2>8, <2>9, <2>10
  <1> QED  BY <1>6, <1>7, <1>8


\* The pair of lab14: the messages of a queue and those that are left to send.
LEMMA QueueStep ==
    ASSUME Ipc!IpcLabsAssumption, IpcInv, NEW p \in Ipc!Procs, Ipc!Queue(p)
    PROVE  IpcInv'
  <1>0. Ipc!TypeOK /\ OpenInv /\ SendersInv /\ QueueInv
    BY DEF IpcInv
  <1>1. pair = "queue" /\ UNCHANGED <<pair, sized, backlog>>
    BY DEF Ipc!Queue
  <1>2. /\ Ipc!None = 0 /\ Ipc!Objects = 1 .. Cardinality(Makers) /\ Cardinality(Makers) \in Nat
        /\ MaxMsg \in Nat \ {0} /\ Burst \in Nat \ {0} /\ Makers \cap Users = {}
        /\ level \in [Ipc!Objects -> Nat] /\ toSend \in [Makers -> 0 .. Burst]
        /\ obj \in [Ipc!Procs -> 0 .. Cardinality(Makers)] /\ sized \in SUBSET Ipc!Objects
    BY <1>0, IpcTypes
  <1>3. Makers \subseteq Ipc!Procs
    BY DEF Ipc!Procs
  <1>4. ASSUME NEW to \in IpcPoints, KeepsOpen(p, to) \/ OpensNamed(p, to) \/ Makes(p, to),
               level' \in [Ipc!Objects -> Nat], \A o \in Ipc!Objects : level'[o] <= MaxMsg,
               toSend' \in [Makers -> 0 .. Burst],
               \A m \in Makers : m # p => toSend'[m] = toSend[m],
               p \in Makers /\ to \in {"begin", "send"} => toSend'[p] > 0
        PROVE  IpcInv'
    <2>1. /\ OpenInv'
          /\ procpc' \in [Ipc!Procs -> IpcPoints] /\ procpc'[p] = to
          /\ \A q \in Ipc!Procs : q # p => procpc'[q] = procpc[q]
          /\ obj' \in [Ipc!Procs -> Ipc!Objects \cup {Ipc!None}]
          /\ named' \in Ipc!Objects \cup {Ipc!None} /\ made' \in 0 .. Cardinality(Makers)
      BY <1>0, <1>4, OpenKept
    <2>2. Ipc!TypeOK'
      BY <1>1, <1>2, <1>4, <2>1, IpcSets DEF Ipc!TypeOK, IpcPoints
    <2>3. SendersInv'
      BY <1>0, <1>3, <1>4, <2>1 DEF SendersInv
    <2>4. QueueInv'
      BY <1>4 DEF QueueInv, Ipc!Objects
    <2>5. SizeInv' /\ PermitInv'
      BY <1>1 DEF SizeInv, PermitInv
    <2> QED  BY <2>1, <2>2, <2>3, <2>4, <2>5 DEF IpcInv
  <1>5. \A o \in Ipc!Objects : level[o] <= MaxMsg
    BY <1>0, <1>1 DEF QueueInv
  <1>6. CASE p \in Makers /\ Ipc!OpenToSend(p)
    <2>1. /\ procpc[p] = "begin" /\ procpc' = [procpc EXCEPT ![p] = "send"]
          /\ Ipc!OpenOrCreate(p) /\ UNCHANGED <<level, toSend>>
      BY <1>6 DEF Ipc!OpenToSend, Ipc!Go
    <2>2. OpensNamed(p, "send") \/ Makes(p, "send")
      BY <1>6, <2>1 DEF OpensNamed, Makes, Ipc!OpenOrCreate, Ipc!Create, Ipc!Has
    <2>3. toSend'[p] > 0
      BY <1>0, <1>6, <2>1 DEF SendersInv
    <2>4. "send" \in IpcPoints
      BY DEF IpcPoints
    <2> QED  BY <1>2, <1>4, <1>5, <2>1, <2>2, <2>3, <2>4
  <1>7. CASE p \in Makers /\ Ipc!Send(p)
    <2> DEFINE to == IF toSend[p] = 1 THEN "done" ELSE "send"
    <2>1. /\ procpc[p] = "send" /\ procpc' = [procpc EXCEPT ![p] = to]
          /\ level[obj[p]] < MaxMsg /\ level' = [level EXCEPT ![obj[p]] = @ + 1]
          /\ toSend' = [toSend EXCEPT ![p] = @ - 1]
          /\ UNCHANGED <<obj, named, made>>
      BY <1>7 DEF Ipc!Send, Ipc!Go
    <2>2. KeepsOpen(p, to) /\ to \in IpcPoints
      BY <2>1 DEF KeepsOpen, Using, IpcPoints, Ipc!Ends
    <2>3. obj[p] \in Ipc!Objects
      BY <1>0, <1>2, <2>1 DEF OpenInv, Using
    <2>4. /\ level' \in [Ipc!Objects -> Nat] /\ \A o \in Ipc!Objects : level'[o] <= MaxMsg
      <3>1. level[obj[p]] + 1 \in Nat /\ level[obj[p]] + 1 <= MaxMsg
        BY <1>2, <2>1, <2>3
      <3> QED  BY <1>2, <1>5, <2>1, <2>3, <3>1
    <2>5. toSend[p] \in 1 .. Burst
      BY <1>0, <1>2, <1>7, <2>1 DEF SendersInv
    <2>6. /\ toSend' \in [Makers -> 0 .. Burst] /\ toSend'[p] = toSend[p] - 1
          /\ \A m \in Makers : m # p => toSend'[m] = toSend[m]
      BY <1>2, <1>7, <2>1, <2>5
    <2>7. to = "send" => toSend'[p] > 0
      BY <1>2, <2>5, <2>6
    <2>8. to \in {"begin", "send"} => toSend'[p] > 0
      BY <2>7
    <2> QED
      <3> HIDE DEF to
      <3> QED  BY <1>4, <2>2, <2>4, <2>6, <2>8
  <1>8. CASE p \in Users /\ Ipc!OpenToReceive(p)
    <2>1. /\ UNCHANGED <<named, made, level, toSend>>
          /\ \/ /\ named = Ipc!None /\ obj' = obj
                /\ procpc' = [procpc EXCEPT ![p] = "failed"]
             \/ /\ named # Ipc!None /\ obj' = [obj EXCEPT ![p] = named]
                /\ procpc' = [procpc EXCEPT ![p] = "receive"]
      BY <1>8 DEF Ipc!OpenToReceive, Ipc!Open, Ipc!Go, Ipc!Has
    <2>2. \E to \in {"failed", "receive"} : KeepsOpen(p, to) \/ OpensNamed(p, to)
      BY <1>8, <2>1 DEF KeepsOpen, OpensNamed, Using
    <2>3. {"failed", "receive"} \subseteq IpcPoints
      BY DEF IpcPoints, Ipc!Ends
    <2>4. p \notin Makers
      BY <1>2, <1>8
    <2> QED  BY <1>2, <1>4, <1>5, <2>1, <2>2, <2>3, <2>4
  <1>9. CASE p \in Users /\ Ipc!Receive(p)
    <2>1. /\ procpc[p] = "receive" /\ procpc' = [procpc EXCEPT ![p] = "unlink"]
          /\ level[obj[p]] > 0 /\ level' = [level EXCEPT ![obj[p]] = @ - 1]
          /\ UNCHANGED <<obj, named, made, toSend>>
      BY <1>9 DEF Ipc!Receive, Ipc!Go
    <2>2. KeepsOpen(p, "unlink") /\ "unlink" \in IpcPoints
      BY <2>1 DEF KeepsOpen, Using, IpcPoints
    <2>3. obj[p] \in Ipc!Objects
      BY <1>0, <1>2, <2>1 DEF OpenInv, Using
    <2>4. /\ level' \in [Ipc!Objects -> Nat] /\ \A o \in Ipc!Objects : level'[o] <= MaxMsg
      <3>1. level[obj[p]] - 1 \in Nat /\ level[obj[p]] - 1 <= MaxMsg
        BY <1>2, <1>5, <2>1, <2>3
      <3> QED  BY <1>2, <1>5, <2>1, <2>3, <3>1
    <2>5. p \notin Makers
      BY <1>2, <1>9
    <2> QED  BY <1>2, <1>4, <2>1, <2>2, <2>4, <2>5
  <1>10. CASE p \in Users /\ Ipc!Unlink(p)
    <2>1. /\ procpc' = [procpc EXCEPT ![p] = "done"] /\ named' = Ipc!None
          /\ UNCHANGED <<obj, made, level, toSend>>
      BY <1>10 DEF Ipc!Unlink, Ipc!Go
    <2>2. KeepsOpen(p, "done") /\ "done" \in IpcPoints
      BY <2>1 DEF KeepsOpen, Using, IpcPoints, Ipc!Ends
    <2> QED  BY <1>2, <1>4, <1>5, <2>1, <2>2
  <1> QED  BY <1>6, <1>7, <1>8, <1>9, <1>10 DEF Ipc!Queue

\* The pair of lab15: the size of the memory.
LEMMA ShmStep ==
    ASSUME Ipc!IpcLabsAssumption, IpcInv, NEW p \in Ipc!Procs, Ipc!Shm(p)
    PROVE  IpcInv'
  <1>0. Ipc!TypeOK /\ OpenInv /\ SendersInv /\ SizeInv
    BY DEF IpcInv
  <1>1. pair = "shm" /\ UNCHANGED <<pair, level, toSend, backlog>>
    BY DEF Ipc!Shm
  <1>2. /\ Ipc!None = 0 /\ Ipc!Objects = 1 .. Cardinality(Makers) /\ Cardinality(Makers) \in Nat
        /\ Makers \cap Users = {} /\ made \in 0 .. Cardinality(Makers)
        /\ level \in [Ipc!Objects -> Nat] /\ toSend \in [Makers -> 0 .. Burst]
        /\ obj \in [Ipc!Procs -> 0 .. Cardinality(Makers)] /\ sized \in SUBSET Ipc!Objects
    BY <1>0, IpcTypes
  <1>3. Makers \subseteq Ipc!Procs
    BY DEF Ipc!Procs
  <1>4. ASSUME NEW to \in IpcPoints, KeepsOpen(p, to) \/ OpensNamed(p, to) \/ Makes(p, to),
               to \notin {"begin", "send"}, sized' \in SUBSET Ipc!Objects, SizeInv'
        PROVE  IpcInv'
    <2>1. /\ OpenInv'
          /\ procpc' \in [Ipc!Procs -> IpcPoints] /\ procpc'[p] = to
          /\ \A q \in Ipc!Procs : q # p => procpc'[q] = procpc[q]
          /\ obj' \in [Ipc!Procs -> Ipc!Objects \cup {Ipc!None}]
          /\ named' \in Ipc!Objects \cup {Ipc!None} /\ made' \in 0 .. Cardinality(Makers)
      BY <1>0, <1>4, OpenKept
    <2>2. Ipc!TypeOK'
      BY <1>1, <1>2, <1>4, <2>1, IpcSets DEF Ipc!TypeOK, IpcPoints
    <2>3. SendersInv'
      BY <1>0, <1>1, <1>3, <1>4, <2>1 DEF SendersInv
    <2>4. QueueInv' /\ PermitInv'
      BY <1>1 DEF QueueInv, PermitInv
    <2> QED  BY <1>4, <2>1, <2>2, <2>3, <2>4 DEF IpcInv
  \* Who is neither before ftruncate nor dead does not matter to the sizes.
  <1>5. ASSUME NEW to \in IpcPoints, KeepsOpen(p, to) \/ OpensNamed(p, to),
               p \in Makers => procpc[p] \notin {"ftruncate", "dead"}, sized' = sized
        PROVE  SizeInv'
    <2>1. /\ made' = made
          /\ \A q \in Ipc!Procs : q # p => procpc'[q] = procpc[q] /\ obj'[q] = obj[q]
      BY <1>0, <1>5, OpenKept DEF KeepsOpen, OpensNamed
    <2>2. ASSUME NEW o \in 1 .. made', o \notin sized'
          PROVE  \E m \in Makers : obj'[m] = o /\ procpc'[m] \in {"ftruncate", "dead"}
      <3>1. o \in 1 .. made /\ o \notin sized
        BY <1>5, <2>1, <2>2
      <3>2. PICK m \in Makers : obj[m] = o /\ procpc[m] \in {"ftruncate", "dead"}
        BY <1>0, <1>1, <3>1 DEF SizeInv
      <3>3. m # p
        BY <1>5, <3>2
      <3> QED  BY <1>3, <2>1, <3>2, <3>3
    <2> QED  BY <2>2 DEF SizeInv
  <1>6. CASE p \in Makers /\ Ipc!OpenShm(p)
    <2>1. /\ procpc[p] = "begin" /\ procpc' = [procpc EXCEPT ![p] = "ftruncate"]
          /\ Ipc!OpenOrCreate(p) /\ sized' = sized
      BY <1>6 DEF Ipc!OpenShm, Ipc!Go
    <2>2. "ftruncate" \in IpcPoints
      BY DEF IpcPoints
    <2>3. CASE named # Ipc!None
      <3>1. OpensNamed(p, "ftruncate")
        BY <2>1, <2>3 DEF OpensNamed, Ipc!OpenOrCreate, Ipc!Has
      <3> QED  BY <1>2, <1>4, <1>5, <2>1, <2>2, <3>1
    <2>4. CASE named = Ipc!None
      <3>1. Makes(p, "ftruncate")
        BY <1>6, <2>1, <2>4 DEF Makes, Ipc!OpenOrCreate, Ipc!Create, Ipc!Has
      <3>2. /\ made' = made + 1 /\ obj'[p] = made + 1 /\ procpc'[p] = "ftruncate"
            /\ \A q \in Ipc!Procs : q # p => procpc'[q] = procpc[q] /\ obj'[q] = obj[q]
        BY <1>0, <1>2, <2>2, <3>1, OpenKept DEF Makes
      <3>3. SizeInv'
        <4>1. ASSUME NEW o \in 1 .. made', o \notin sized'
              PROVE  \E m \in Makers : obj'[m] = o /\ procpc'[m] \in {"ftruncate", "dead"}
          <5>1. CASE o = made + 1
            BY <1>6, <3>2, <5>1
          <5>2. CASE o # made + 1
            <6>1. o \in 1 .. made /\ o \notin sized
              BY <1>2, <2>1, <3>2, <4>1, <5>2
            <6>2. PICK m \in Makers : obj[m] = o /\ procpc[m] \in {"ftruncate", "dead"}
              BY <1>0, <1>1, <6>1 DEF SizeInv
            <6>3. m # p
              BY <2>1, <6>2
            <6> QED  BY <1>3, <3>2, <6>2, <6>3
          <5> QED  BY <5>1, <5>2
        <4> QED  BY <4>1 DEF SizeInv
      <3> QED  BY <1>2, <1>4, <2>1, <2>2, <3>1, <3>3
    <2> QED  BY <2>3, <2>4
  <1>7. CASE p \in Makers /\ Ipc!Ftruncate(p)
    <2>1. /\ procpc[p] = "ftruncate" /\ procpc' = [procpc EXCEPT ![p] = "unlink"]
          /\ sized' = sized \cup {obj[p]} /\ UNCHANGED <<obj, named, made>>
      BY <1>7 DEF Ipc!Ftruncate, Ipc!Go
    <2>2. KeepsOpen(p, "unlink") /\ "unlink" \in IpcPoints
      BY <2>1 DEF KeepsOpen, Using, IpcPoints
    <2>3. sized' \in SUBSET Ipc!Objects
      <3>1. obj[p] \in Ipc!Objects
        BY <1>0, <1>2, <2>1 DEF OpenInv, Using
      <3> QED  BY <1>2, <2>1, <3>1
    <2>4. \A q \in Ipc!Procs : q # p => procpc'[q] = procpc[q]
      BY <1>0, <2>2, OpenKept
    <2>5. SizeInv'
      <3>1. ASSUME NEW o \in 1 .. made', o \notin sized'
            PROVE  \E m \in Makers : obj'[m] = o /\ procpc'[m] \in {"ftruncate", "dead"}
        <4>1. o \in 1 .. made /\ o \notin sized /\ o # obj[p]
          BY <2>1, <3>1
        <4>2. PICK m \in Makers : obj[m] = o /\ procpc[m] \in {"ftruncate", "dead"}
          BY <1>0, <1>1, <4>1 DEF SizeInv
        <4> QED  BY <1>3, <2>1, <2>4, <4>1, <4>2
      <3> QED  BY <3>1 DEF SizeInv
    <2> QED  BY <1>4, <2>2, <2>3, <2>5
  <1>8. CASE p \in Makers /\ Ipc!UnlinkShm(p)
    <2>1. /\ procpc[p] = "unlink" /\ procpc' = [procpc EXCEPT ![p] = "done"]
          /\ named' = Ipc!None /\ UNCHANGED <<obj, made, sized>>
      BY <1>8 DEF Ipc!UnlinkShm, Ipc!Unlink, Ipc!Go
    <2>2. KeepsOpen(p, "done") /\ "done" \in IpcPoints
      BY <2>1 DEF KeepsOpen, Using, IpcPoints, Ipc!Ends
    <2> QED  BY <1>2, <1>4, <1>5, <2>1, <2>2
  <1>9. CASE p \in Users /\ Ipc!OpenToRead(p)
    <2>1. /\ UNCHANGED <<named, made, sized>>
          /\ \/ /\ named = Ipc!None /\ obj' = obj
                /\ procpc' = [procpc EXCEPT ![p] = "failed"]
             \/ /\ named # Ipc!None /\ obj' = [obj EXCEPT ![p] = named]
                /\ procpc' = [procpc EXCEPT ![p] = "read"]
      BY <1>9 DEF Ipc!OpenToRead, Ipc!Open, Ipc!Go, Ipc!Has
    <2>2. p \notin Makers
      BY <1>2, <1>9
    <2>3. \E to \in {"failed", "read"} : KeepsOpen(p, to) \/ OpensNamed(p, to)
      BY <2>1, <2>2 DEF KeepsOpen, OpensNamed, Using
    <2>4. {"failed", "read"} \subseteq IpcPoints
      BY DEF IpcPoints, Ipc!Ends
    <2> QED  BY <1>2, <1>4, <1>5, <2>1, <2>2, <2>3, <2>4
  <1>10. CASE p \in Users /\ Ipc!ReadShm(p)
    <2> DEFINE to == IF obj[p] \in sized THEN "done" ELSE "dead"
    <2>1. /\ procpc' = [procpc EXCEPT ![p] = to] /\ UNCHANGED <<obj, named, made, sized>>
      BY <1>10 DEF Ipc!ReadShm, Ipc!Go
    <2>2. KeepsOpen(p, to) /\ to \in IpcPoints /\ to \notin {"begin", "send"}
      BY <2>1 DEF KeepsOpen, Using, IpcPoints, Ipc!Ends
    <2>3. p \notin Makers
      BY <1>2, <1>10
    <2> HIDE DEF to
    <2> QED  BY <1>2, <1>4, <1>5, <2>1, <2>2, <2>3
  <1> QED  BY <1>6, <1>7, <1>8, <1>9, <1>10 DEF Ipc!Shm

\* The program of lab16: the permit of its semaphore.
LEMMA SemStep ==
    ASSUME Ipc!IpcLabsAssumption, IpcInv, NEW p \in Ipc!Procs, Ipc!Sem(p)
    PROVE  IpcInv'
  <1>0. Ipc!TypeOK /\ OpenInv /\ SendersInv /\ PermitInv
    BY DEF IpcInv
  <1>1. pair = "sem" /\ p \in Makers /\ UNCHANGED <<pair, toSend, sized, backlog>>
    BY DEF Ipc!Sem
  <1>2. /\ Ipc!None = 0 /\ Ipc!Objects = 1 .. Cardinality(Makers) /\ Cardinality(Makers) \in Nat
        /\ made \in 0 .. Cardinality(Makers)
        /\ level \in [Ipc!Objects -> Nat] /\ toSend \in [Makers -> 0 .. Burst]
        /\ obj \in [Ipc!Procs -> 0 .. Cardinality(Makers)] /\ sized \in SUBSET Ipc!Objects
        /\ Inside \in SUBSET Makers /\ IsFiniteSet(Inside) /\ Cardinality(Inside) \in Nat
    BY <1>0, IpcTypes
  <1>3. Makers \subseteq Ipc!Procs
    BY DEF Ipc!Procs
  <1>4. ASSUME NEW to \in IpcPoints, KeepsOpen(p, to) \/ OpensNamed(p, to) \/ Makes(p, to),
               to \notin {"begin", "send"}, level' \in [Ipc!Objects -> Nat], PermitInv'
        PROVE  IpcInv'
    <2>1. /\ OpenInv'
          /\ procpc' \in [Ipc!Procs -> IpcPoints] /\ procpc'[p] = to
          /\ \A q \in Ipc!Procs : q # p => procpc'[q] = procpc[q]
          /\ obj' \in [Ipc!Procs -> Ipc!Objects \cup {Ipc!None}]
          /\ named' \in Ipc!Objects \cup {Ipc!None} /\ made' \in 0 .. Cardinality(Makers)
      BY <1>0, <1>4, OpenKept
    <2>2. Ipc!TypeOK'
      BY <1>1, <1>2, <1>4, <2>1, IpcSets DEF Ipc!TypeOK, IpcPoints
    <2>3. SendersInv'
      BY <1>0, <1>1, <1>3, <1>4, <2>1 DEF SendersInv
    <2>4. QueueInv' /\ SizeInv'
      BY <1>1 DEF QueueInv, SizeInv
    <2> QED  BY <1>4, <2>1, <2>2, <2>3, <2>4 DEF IpcInv
  <1>5. /\ made \in {0, 1} /\ named = made
        /\ made = 0 => Inside = {}
        /\ made = 1 => level[1] + Cardinality(Inside) = 1
    BY <1>0, <1>1 DEF PermitInv
  <1>6. ASSUME made = 1 PROVE 1 \in Ipc!Objects
    BY <1>2, <1>6
  <1>7. ASSUME NEW to \in IpcPoints, KeepsOpen(p, to) \/ OpensNamed(p, to) \/ Makes(p, to)
        PROVE  /\ procpc' \in [Ipc!Procs -> IpcPoints] /\ procpc'[p] = to
               /\ \A q \in Ipc!Procs : q # p => procpc'[q] = procpc[q]
    BY <1>0, <1>7, OpenKept
  <1>8. CASE Ipc!OpenSem(p)
    <2>1. /\ procpc[p] = "begin" /\ procpc' = [procpc EXCEPT ![p] = "wait"]
          /\ Ipc!OpenOrCreate(p)
          /\ level' = IF named = Ipc!None THEN [level EXCEPT ![made + 1] = 1] ELSE level
      BY <1>8 DEF Ipc!OpenSem, Ipc!Go
    <2>2. OpensNamed(p, "wait") \/ Makes(p, "wait")
      BY <1>1, <2>1 DEF OpensNamed, Makes, Ipc!OpenOrCreate, Ipc!Create, Ipc!Has
    <2>3. "wait" \in IpcPoints
      BY DEF IpcPoints
    <2>4. Inside' = Inside
      <3>1. \A m \in Makers : procpc'[m] = procpc[m] \/ (procpc[m] = "begin" /\ procpc'[m] = "wait")
        BY <1>3, <1>7, <2>1, <2>2, <2>3
      <3> QED  BY <3>1 DEF Inside
    <2>5. CASE named # Ipc!None
      <3>1. made' = made /\ named' = named /\ level' = level
        BY <2>1, <2>5 DEF Ipc!OpenOrCreate
      <3>2. PermitInv'
        BY <1>5, <2>4, <3>1 DEF PermitInv
      <3> QED  BY <1>2, <1>4, <2>2, <2>3, <3>1, <3>2
    <2>6. CASE named = Ipc!None
      <3>1. made = 0 /\ Inside = {} /\ made' = 1 /\ named' = 1 /\ level' = [level EXCEPT ![1] = 1]
        BY <1>2, <1>5, <2>1, <2>6 DEF Ipc!OpenOrCreate, Ipc!Create
      <3>2. 1 \in Ipc!Objects
        <4>1. made' \in 0 .. Cardinality(Makers)
          BY <1>0, <2>2, <2>3, OpenKept
        <4> QED  BY <1>2, <3>1, <4>1
      <3>3. level' \in [Ipc!Objects -> Nat] /\ level'[1] = 1
        BY <1>2, <3>1, <3>2
      <3>4. Cardinality(Inside') = 0
        BY <2>4, <3>1, FS_EmptySet
      <3>5. level'[1] + Cardinality(Inside') = 1
        BY <3>3, <3>4
      <3>6. PermitInv'
        BY <3>1, <3>5 DEF PermitInv
      <3> QED  BY <1>4, <2>2, <2>3, <3>3, <3>6
    <2> QED  BY <2>5, <2>6
  \* Who waits for the semaphore, or has it, has it open: it was made, and there is one.
  <1>9. ASSUME procpc[p] \in {"wait", "inside"}
        PROVE  made = 1 /\ obj[p] = 1 /\ 1 \in Ipc!Objects
    <2>1. obj[p] # 0 /\ obj[p] <= made /\ obj[p] \in 0 .. Cardinality(Makers)
      BY <1>0, <1>2, <1>3, <1>1, <1>9 DEF OpenInv, Using
    <2> QED  BY <1>2, <1>5, <1>6, <2>1
  <1>10. CASE Ipc!WaitSem(p)
    <2>1. /\ procpc[p] = "wait" /\ procpc' = [procpc EXCEPT ![p] = "inside"]
          /\ level[obj[p]] > 0 /\ level' = [level EXCEPT ![obj[p]] = @ - 1]
          /\ UNCHANGED <<obj, named, made>>
      BY <1>10 DEF Ipc!WaitSem, Ipc!Go
    <2>2. KeepsOpen(p, "inside") /\ "inside" \in IpcPoints
      BY <2>1 DEF KeepsOpen, Using, IpcPoints
    <2>3. made = 1 /\ obj[p] = 1 /\ 1 \in Ipc!Objects
      BY <1>9, <2>1
    <2>4. level' \in [Ipc!Objects -> Nat] /\ level'[1] = level[1] - 1 /\ level[1] \in Nat
      <3>1. level[1] \in Nat /\ level[1] - 1 \in Nat
        BY <1>2, <2>1, <2>3
      <3> QED  BY <1>2, <2>1, <2>3, <3>1
    <2>5. Inside' = Inside \cup {p} /\ p \notin Inside
      <3>1. \A m \in Makers : m # p => procpc'[m] = procpc[m]
        BY <1>3, <1>7, <2>2
      <3>2. procpc'[p] = "inside"
        BY <1>7, <2>2
      <3> QED  BY <1>1, <2>1, <3>1, <3>2 DEF Inside
    <2>6. Cardinality(Inside') = Cardinality(Inside) + 1
      BY <1>2, <2>5, FS_AddElement
    <2>7. level'[1] + Cardinality(Inside') = 1
      BY <1>2, <1>5, <2>3, <2>4, <2>6
    <2>8. PermitInv'
      BY <1>5, <2>1, <2>3, <2>7 DEF PermitInv
    <2> QED  BY <1>4, <2>2, <2>4, <2>8
  <1>11. CASE Ipc!PostSem(p)
    <2>1. /\ procpc[p] = "inside" /\ procpc' = [procpc EXCEPT ![p] = "done"]
          /\ level' = [level EXCEPT ![obj[p]] = @ + 1]
          /\ UNCHANGED <<obj, named, made>>
      BY <1>11 DEF Ipc!PostSem, Ipc!Go
    <2>2. KeepsOpen(p, "done") /\ "done" \in IpcPoints
      BY <2>1 DEF KeepsOpen, Using, IpcPoints, Ipc!Ends
    <2>3. made = 1 /\ obj[p] = 1 /\ 1 \in Ipc!Objects
      BY <1>9, <2>1
    <2>4. level' \in [Ipc!Objects -> Nat] /\ level'[1] = level[1] + 1 /\ level[1] \in Nat
      <3>1. level[1] \in Nat /\ level[1] + 1 \in Nat
        BY <1>2, <2>3
      <3> QED  BY <1>2, <2>1, <2>3, <3>1
    <2>5. Inside' = Inside \ {p} /\ p \in Inside
      <3>1. \A m \in Makers : m # p => procpc'[m] = procpc[m]
        BY <1>3, <1>7, <2>2
      <3>2. procpc'[p] = "done"
        BY <1>7, <2>2
      <3> QED  BY <1>1, <2>1, <3>1, <3>2 DEF Inside
    <2>6. Cardinality(Inside') = Cardinality(Inside) - 1
      BY <1>2, <2>5, FS_RemoveElement
    <2>7. level'[1] + Cardinality(Inside') = 1
      BY <1>2, <1>5, <2>3, <2>4, <2>6
    <2>8. PermitInv'
      BY <1>5, <2>1, <2>3, <2>7 DEF PermitInv
    <2> QED  BY <1>4, <2>2, <2>4, <2>8
  <1> QED  BY <1>8, <1>10, <1>11 DEF Ipc!Sem

\* The pair of lab17: who has bound the path.
LEMMA SocketStep ==
    ASSUME Ipc!IpcLabsAssumption, IpcInv, NEW p \in Ipc!Procs, Ipc!Socket(p)
    PROVE  IpcInv'
  <1>0. Ipc!TypeOK /\ OpenInv /\ SendersInv
    BY DEF IpcInv
  <1>1. pair = "socket" /\ UNCHANGED <<pair, level, toSend, sized>>
    BY DEF Ipc!Socket
  <1>2. /\ Ipc!None = 0 /\ Makers \cap Users = {} /\ level \in [Ipc!Objects -> Nat]
        /\ toSend \in [Makers -> 0 .. Burst] /\ sized \in SUBSET Ipc!Objects
    BY <1>0, IpcTypes
  <1>3. Makers \subseteq Ipc!Procs
    BY DEF Ipc!Procs
  <1>4. ASSUME NEW to \in IpcPoints, KeepsOpen(p, to) \/ OpensNamed(p, to) \/ Makes(p, to),
               to \notin {"begin", "send"}
        PROVE  IpcInv'
    <2>1. /\ OpenInv'
          /\ procpc' \in [Ipc!Procs -> IpcPoints] /\ procpc'[p] = to
          /\ \A q \in Ipc!Procs : q # p => procpc'[q] = procpc[q]
          /\ obj' \in [Ipc!Procs -> Ipc!Objects \cup {Ipc!None}]
          /\ named' \in Ipc!Objects \cup {Ipc!None} /\ made' \in 0 .. Cardinality(Makers)
      BY <1>0, <1>4, OpenKept
    <2>2. Ipc!TypeOK'
      BY <1>1, <1>2, <2>1, IpcSets DEF Ipc!TypeOK, IpcPoints
    <2>3. SendersInv'
      BY <1>0, <1>1, <1>3, <1>4, <2>1 DEF SendersInv
    <2>4. QueueInv' /\ SizeInv' /\ PermitInv'
      BY <1>1 DEF QueueInv, SizeInv, PermitInv
    <2> QED  BY <2>1, <2>2, <2>3, <2>4 DEF IpcInv
  <1>5. {"bind", "listen", "failed", "accept", "read", "done", "write", "dead"} \subseteq IpcPoints
    BY DEF IpcPoints, Ipc!Ends
  <1>6. CASE p \in Makers /\ Ipc!UnlinkPath(p)
    <2>1. KeepsOpen(p, "bind")
      BY <1>6 DEF Ipc!UnlinkPath, Ipc!Go, KeepsOpen, Using
    <2> QED  BY <1>4, <1>5, <2>1
  <1>7. CASE p \in Makers /\ Ipc!Bind(p)
    <2>1. Makes(p, "listen") \/ KeepsOpen(p, "failed")
      BY <1>7 DEF Ipc!Bind, Ipc!Go, Ipc!Create, Ipc!Has, Makes, KeepsOpen, Using
    <2> QED  BY <1>4, <1>5, <2>1
  <1>8. CASE p \in Makers /\ (Ipc!Listen(p) \/ Ipc!Accept(p) \/ Ipc!ReadMessage(p))
    <2>1. \E to \in {"accept", "read", "done"} : KeepsOpen(p, to)
      BY <1>8 DEF Ipc!Listen, Ipc!Accept, Ipc!ReadMessage, Ipc!Go, KeepsOpen, Using
    <2> QED  BY <1>4, <1>5, <2>1
  <1>9. CASE p \in Users /\ Ipc!Connect(p)
    <2>1. OpensNamed(p, "write") \/ KeepsOpen(p, "failed")
      BY <1>2, <1>9 DEF Ipc!Connect, Ipc!Go, Ipc!Has, OpensNamed, KeepsOpen, Using
    <2> QED  BY <1>4, <1>5, <2>1
  <1>10. CASE p \in Users /\ Ipc!Write(p)
    <2>1. \E to \in {"done", "dead"} : KeepsOpen(p, to)
      BY <1>10 DEF Ipc!Write, Ipc!Go, KeepsOpen, Using
    <2> QED  BY <1>4, <1>5, <2>1
  <1> QED  BY <1>6, <1>7, <1>8, <1>9, <1>10 DEF Ipc!Socket

\* A process is killed: what it has taken stays taken, what it has begun stays begun.
LEMMA IpcDies ==
    ASSUME Ipc!IpcLabsAssumption, IpcInv, NEW p \in Ipc!Procs, Ipc!Dies(p)
    PROVE  IpcInv'
  <1>0. Ipc!TypeOK /\ OpenInv /\ SendersInv /\ QueueInv /\ SizeInv /\ PermitInv
    BY DEF IpcInv
  <1> DEFINE to == IF procpc[p] = "inside" THEN "dead holding" ELSE "dead"
  <1>1. /\ procpc' = [procpc EXCEPT ![p] = to]
        /\ procpc[p] \notin {"done", "failed", "dead", "dead holding", "begin"}
        /\ UNCHANGED <<pair, obj, named, made, level, toSend, sized, backlog>>
    BY DEF Ipc!Dies, Ipc!Running, Ipc!Ends
  <1>2. KeepsOpen(p, to) /\ to \in IpcPoints /\ to \notin {"begin", "send", "ftruncate"}
    BY <1>1 DEF KeepsOpen, Using, IpcPoints, Ipc!Ends
  <1>3. /\ OpenInv'
        /\ procpc' \in [Ipc!Procs -> IpcPoints] /\ procpc'[p] = to
        /\ \A q \in Ipc!Procs : q # p => procpc'[q] = procpc[q]
    <2> HIDE DEF to
    <2> QED  BY <1>0, <1>2, OpenKept
  <1>4. Makers \subseteq Ipc!Procs
    BY DEF Ipc!Procs
  <1>5. Ipc!TypeOK'
    BY <1>0, <1>1, <1>3 DEF Ipc!TypeOK, IpcPoints
  <1>6. SendersInv' /\ QueueInv'
    BY <1>0, <1>1, <1>3, <1>4 DEF SendersInv, QueueInv, Ipc!Objects
  <1>7. SizeInv'
    <2>1. ASSUME pair = "shm", NEW o \in 1 .. made, o \notin sized
          PROVE  \E m \in Makers : obj'[m] = o /\ procpc'[m] \in {"ftruncate", "dead"}
      <3>1. PICK m \in Makers : obj[m] = o /\ procpc[m] \in {"ftruncate", "dead"}
        BY <1>0, <2>1 DEF SizeInv
      <3> QED  BY <1>1, <1>3, <1>4, <3>1
    <2> QED  BY <1>1, <2>1 DEF SizeInv
  <1>8. Inside' = Inside
    <2>1. \A m \in Makers : procpc'[m] \in {"inside", "dead holding"}
                               <=> procpc[m] \in {"inside", "dead holding"}
      BY <1>1, <1>3, <1>4
    <2> QED  BY <2>1 DEF Inside
  <1>9. PermitInv'
    BY <1>0, <1>1, <1>8 DEF PermitInv
  <1> QED  BY <1>3, <1>5, <1>6, <1>7, <1>9 DEF IpcInv

\* The invariant over every step of the pairs.
LEMMA IpcStep ==
    ASSUME Ipc!IpcLabsAssumption, IpcInv, Ipc!Next \/ UNCHANGED Ipc!vars
    PROVE  IpcInv'
  <1>1. CASE UNCHANGED Ipc!vars
    <2>1. UNCHANGED <<pair, procpc, obj, named, made, level, toSend, sized, backlog>>
      BY <1>1 DEF Ipc!vars
    <2>2. Havers' = Havers /\ Inside' = Inside
      BY <2>1 DEF Havers, Inside
    <2> QED  BY <2>1, <2>2 DEF IpcInv, Ipc!TypeOK, OpenInv, SendersInv, QueueInv, SizeInv,
                PermitInv
  <1> QED  BY <1>1, QueueStep, ShmStep, SemStep, SocketStep, IpcDies DEF Ipc!Next, Ipc!Step

\* What the invariant says of the outcomes.
LEMMA IpcOutcomes ==
    ASSUME Ipc!IpcLabsAssumption, IpcInv
    PROVE  Ipc!Outcomes
  <1>1. Ipc!TypeOK /\ OpenInv /\ QueueInv /\ SizeInv /\ PermitInv
    BY DEF IpcInv
  <1>2. /\ Ipc!None = 0 /\ made \in 0 .. Cardinality(Makers) /\ Cardinality(Makers) \in Nat
        /\ obj \in [Ipc!Procs -> 0 .. Cardinality(Makers)]
    BY <1>1, IpcTypes
  <1>3. ASSUME pair = "shm", NEW u \in Users, procpc[u] = "read", obj[u] \notin sized
        PROVE  \E m \in Makers : obj[m] = obj[u] /\ procpc[m] \in {"ftruncate", "dead"}
    <2>1. obj[u] # 0 /\ obj[u] <= made /\ obj[u] \in 0 .. Cardinality(Makers)
      BY <1>1, <1>2, <1>3 DEF OpenInv, Using, Ipc!Procs
    <2>2. obj[u] \in 1 .. made
      BY <1>2, <2>1
    <2> QED  BY <1>1, <1>3, <2>2 DEF SizeInv
  <1>4. pair = "sem" /\ made > 0 => made = 1 /\ level[1] + Cardinality(Inside) = 1
    BY <1>1, <1>2 DEF PermitInv
  <1>5. pair = "sem" /\ made > 0 =>
            /\ made = 1
            /\ level[1] + Ipc!Cardinality({m \in Makers : procpc[m] \in {"inside", "dead holding"}}) = 1
    BY <1>4, IpcSets DEF Inside
  <1> QED  BY <1>1, <1>3, <1>5 DEF Ipc!Outcomes, QueueInv

-----------------------------------------------------------------------------
(* The exercises together: one runs and the others stay.                     *)

LabsInv == RegisterInv /\ CounterInv /\ ThreadsInv /\ IpcInv

labsVars == <<exercise, vars, registerVars, counterVars, threadVars, ipcVars>>

\* Every exercise starts with its own invariant.
LEMMA LabsStart == ASSUME LabsInit PROVE LabsInv
  BY LabsAssumption, RegisterInit, CounterInit, ThreadsInit, IpcInit
     DEF LabsAssumption, LabsInit, LabsInv

\* What a step of the exercises is to each of them.
LEMMA EachSteps ==
    ASSUME [LabsNext]_labsVars
    PROVE  /\ Register!Next \/ UNCHANGED Register!vars
           /\ Counter!Next \/ UNCHANGED Counter!vars
           /\ Threads!Next \/ UNCHANGED Threads!vars
           /\ Ipc!Next \/ UNCHANGED Ipc!vars
  <1>1. /\ Register!Next \/ UNCHANGED registerVars
        /\ Counter!Next \/ UNCHANGED counterVars
        /\ Threads!Next \/ UNCHANGED threadVars
        /\ Ipc!Next \/ UNCHANGED ipcVars
    BY DEF LabsNext, labsVars
  <1>2. UNCHANGED registerVars => UNCHANGED Register!vars
    BY DEF registerVars, Register!vars
  <1>3. UNCHANGED counterVars => UNCHANGED Counter!vars
    BY DEF counterVars, Counter!vars
  <1>4. UNCHANGED threadVars => UNCHANGED Threads!vars
    BY DEF threadVars, Threads!vars, Threads!weak
  <1>5. UNCHANGED ipcVars => UNCHANGED Ipc!vars
    BY DEF ipcVars, Ipc!vars
  <1> QED  BY <1>1, <1>2, <1>3, <1>4, <1>5

\* Every exercise keeps its own invariant.
LEMMA LabsStep == ASSUME LabsInv, [LabsNext]_labsVars PROVE LabsInv'
  BY LabsAssumption, EachSteps, RegisterStep, CounterStep, ThreadsStep, IpcStep
     DEF LabsAssumption, LabsInv

\* Outcomes: whatever exercise runs, with any number of threads, iterations, tries,
\* processes and messages.  The register and the counter keep their types; the counter
\* that labs 21 to 24 print lies in the range that its protection allows; the waiter of
\* lab27 sleeps through no update but the bare one, the fences of lab32 leave no race; the
\* queue of lab14 keeps to its limit, a reader of lab15 meets no memory without a size but
\* of a writer before ftruncate or dead, and there is one permit in lab16.
THEOREM LabsComeOut == LabsSpec => []Outcomes
  <1>1. LabsInit => LabsInv
    BY LabsStart
  <1>2. LabsInv /\ [LabsNext]_labsVars => LabsInv'
    BY LabsStep
  <1>3. LabsInv => Outcomes
    BY LabsAssumption, CounterIsFinal, IpcOutcomes
       DEF LabsAssumption, LabsInv, RegisterInv, CounterInv, ThreadsInv, Outcomes
  <1> QED  BY <1>1, <1>2, <1>3, PTL DEF LabsSpec, labsVars

\* PassesWordsOn: the handshake of producer_consumer2 makes its data register a channel
\* of one word: every word is read once and in the order of writing, for any modulus.
THEOREM RegisterPassesWordsOn == LabsSpec => PassesWordsOn
  <1>1. LabsInit => LabsInv /\ (handshake => Register!Stream!Init)
    <2>1. Register!Init => Register!Stream!Init
      BY DEF Register!Init, Register!Stream!Init
    <2> QED  BY <2>1, LabsStart DEF LabsInit
  <1>2. LabsInv /\ [LabsNext]_labsVars => LabsInv'
    BY LabsStep
  <1>3. LabsInv /\ [LabsNext]_labsVars => [handshake => Register!Stream!Next]_(Register!Stream!vars)
    BY EachSteps, RegisterIsAChannel DEF LabsInv
  <1> QED  BY <1>1, <1>2, <1>3, PTL DEF LabsSpec, labsVars, PassesWordsOn, Register!PassesWordsOn
================================================================================
