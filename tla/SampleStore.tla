------------------------------ MODULE SampleStore ------------------------------
(* seance6/racecrash/racecrash.c: producers append samples to an array that    *)
(* grows with realloc, under a lock; a monitor adds the samples up, with the   *)
(* lock in the fixed build (-DUSE_LOCK_ON_READ) and without it in the buggy one. *)
EXTENDS Integers, FiniteSets, FiniteSetsExt

CONSTANTS
    Producers,
    InitialCap, GrowthChunk,    \* INITIAL_CAP and GROWTH_CHUNK
    Addresses,                  \* where malloc and realloc may put the array
    MaxSamples                  \* bound: samples of one run (RUN_SECONDS in the code)

\* What is assumed of the constants; the modules that instantiate this one say so.
StoreAssumption ==
    /\ InitialCap \in Nat \ {0} /\ GrowthChunk \in Nat \ {0} /\ MaxSamples \in Nat
    /\ IsFiniteSet(Producers) /\ "monitor" \notin Producers /\ "nobody" \notin Producers
    /\ Addresses # {} /\ "NULL" \notin Addresses

VARIABLES
    lockedRead,  \* the build has USE_LOCK_ON_READ
    running,     \* g_running
    lock,        \* who holds g_store.lock
    data, count, capacity,      \* g_store
    size,        \* the heap: how many doubles are allocated at an address, 0 when it is free
    ppc, slot,   \* each producer: control point and the index it writes to
    pushed,      \* each producer: the calls of store_push that have returned
    mpc,         \* the monitor: control point,
    seen, d, i,  \* st.count, its copy of the pointer and the loop counter
    fault        \* the bad access that ended the process

vars == <<lockedRead, running, lock, data, count, capacity, size, ppc, slot, pushed,
          mpc, seen, d, i, fault>>
store == <<data, count, capacity, size>>
monitor == <<mpc, seen, d, i>>

Alive == fault = "none"

\* The first malloc succeeds.
Init ==
    /\ lockedRead \in BOOLEAN
    /\ running = TRUE
    /\ lock = "nobody"
    /\ data \in Addresses
    /\ count = 0
    /\ capacity = InitialCap
    /\ size = [a \in Addresses |-> IF a = data THEN InitialCap ELSE 0]
    /\ ppc = [p \in Producers |-> "loop"]
    /\ slot = [p \in Producers |-> 0]
    /\ pushed = [p \in Producers |-> 0]
    /\ mpc = "loop" /\ seen = 0 /\ d = data /\ i = 0
    /\ fault = "none"

-----------------------------------------------------------------------------
(* Producers.                                                                *)

At(p, from, to) == Alive /\ ppc[p] = from /\ ppc' = [ppc EXCEPT ![p] = to]

\* Mutant: store_push without its lock.
TakeNothing(p) == UNCHANGED lock

Take(p) == lock = "nobody" /\ lock' = p

Push(p) ==
    /\ At(p, "loop", "push")
    /\ running
    /\ count < MaxSamples
    /\ Take(p)
    /\ UNCHANGED <<lockedRead, running, store, slot, pushed, monitor, fault>>

LeaveLoop(p) ==
    /\ At(p, "loop", "done")
    /\ ~running
    /\ UNCHANGED <<lockedRead, running, lock, store, slot, pushed, monitor, fault>>

NeedsRoom == count = capacity

\* realloc grows the array where it is, or moves it and frees the old one, or
\* fails and leaves the old one; its result is not tested.
Realloc(a) ==
    /\ a = data \/ (a \in Addresses /\ size[a] = 0) \/ a = "NULL"
    /\ data' = a
    /\ size' = [x \in Addresses |-> IF x = a THEN capacity'
                                    ELSE IF x = data /\ a # "NULL" THEN 0 ELSE size[x]]

Grow(p) ==
    /\ At(p, "push", "write")
    /\ NeedsRoom
    /\ capacity' = capacity + GrowthChunk
    /\ \E a \in Addresses \cup {"NULL"} : Realloc(a)
    /\ UNCHANGED <<lockedRead, running, lock, count, slot, pushed, monitor, fault>>

NoGrowth(p) ==
    /\ At(p, "push", "write")
    /\ ~NeedsRoom
    /\ UNCHANGED <<lockedRead, running, lock, store, slot, pushed, monitor, fault>>

\* The write to data[count], which needs a place that is allocated.
Write(p) ==
    /\ At(p, "write", "count")
    /\ slot' = [slot EXCEPT ![p] = count]
    /\ fault' = IF data # "NULL" /\ count < size[data] THEN "none" ELSE "bad write"
    /\ UNCHANGED <<lockedRead, running, lock, store, pushed, monitor>>

CountAndUnlock(p) ==
    /\ At(p, "count", "loop")
    /\ count' = slot[p] + 1
    /\ pushed' = [pushed EXCEPT ![p] = @ + 1]
    /\ lock' = "nobody"
    /\ UNCHANGED <<lockedRead, running, data, capacity, size, slot, monitor, fault>>

Producer(p) ==
    Push(p) \/ LeaveLoop(p) \/ Grow(p) \/ NoGrowth(p) \/ Write(p) \/ CountAndUnlock(p)

-----------------------------------------------------------------------------
(* The monitor and main.                                                     *)

MonitorAt(from, to) == Alive /\ mpc = from /\ mpc' = to

\* Mutant: the reader of the fixed build does not lock.
ReadWithoutLock == UNCHANGED lock

\* store_stats_safe, or store_stats_unsafe at once.
LockToRead == IF lockedRead THEN lock = "nobody" /\ lock' = "monitor" ELSE UNCHANGED lock

BeginStats ==
    /\ MonitorAt("loop", "count")
    /\ running
    /\ LockToRead
    /\ UNCHANGED <<lockedRead, running, store, ppc, slot, pushed, seen, d, i, fault>>

\* Without the lock the compiler may read count and data in any order, and again;
\* what is claimed of that build does not depend on what its monitor reads.
ReadCount ==
    /\ MonitorAt("count", "data")
    /\ seen' = count
    /\ UNCHANGED <<lockedRead, running, lock, store, ppc, slot, pushed, d, i, fault>>

ReadData ==
    /\ MonitorAt("data", "sum")
    /\ d' = data
    /\ i' = 0
    /\ UNCHANGED <<lockedRead, running, lock, store, ppc, slot, pushed, seen, fault>>

\* sum += d[i], which needs a place that is still allocated.
Sum ==
    /\ MonitorAt("sum", "sum")
    /\ i < seen
    /\ i' = i + 1
    /\ fault' = IF d # "NULL" /\ i < size[d] THEN "none" ELSE "bad read"
    /\ UNCHANGED <<lockedRead, running, lock, store, ppc, slot, pushed, seen, d>>

EndStats ==
    /\ MonitorAt("sum", "loop")
    /\ i >= seen
    /\ lock' = IF lockedRead THEN "nobody" ELSE lock
    /\ UNCHANGED <<lockedRead, running, store, ppc, slot, pushed, seen, d, i, fault>>

MonitorLeaves ==
    /\ MonitorAt("loop", "done")
    /\ ~running
    /\ UNCHANGED <<lockedRead, running, lock, store, ppc, slot, pushed, seen, d, i, fault>>

Monitor == BeginStats \/ ReadCount \/ ReadData \/ Sum \/ EndStats \/ MonitorLeaves

\* main sleeps for RUN_SECONDS and clears g_running.
Stop ==
    /\ Alive
    /\ running
    /\ running' = FALSE
    /\ UNCHANGED <<lockedRead, lock, store, ppc, slot, pushed, monitor, fault>>

AllDone == mpc = "done" /\ \A p \in Producers : ppc[p] = "done"

\* The process has ended, after the joins or by a signal of the kernel.
Ended == (AllDone \/ ~Alive) /\ UNCHANGED vars

Next == (\E p \in Producers : Producer(p)) \/ Monitor \/ Stop \/ Ended

Spec == Init /\ [][Next]_vars

-----------------------------------------------------------------------------
(* Properties. *)

\* Types of the store, of the heap and of the threads.
TypeOK ==
    /\ lockedRead \in BOOLEAN
    /\ running \in BOOLEAN
    /\ lock \in Producers \cup {"monitor", "nobody"}
    /\ data \in Addresses \cup {"NULL"}
    /\ count \in Nat
    /\ capacity \in Nat
    /\ size \in [Addresses -> Nat]
    /\ ppc \in [Producers -> {"loop", "push", "write", "count", "done"}]
    /\ slot \in [Producers -> Nat]
    /\ pushed \in [Producers -> Nat]
    /\ mpc \in {"loop", "count", "data", "sum", "done"}
    /\ seen \in Nat
    /\ d \in Addresses \cup {"NULL"}
    /\ i \in Nat
    /\ fault \in {"none", "bad write", "bad read"}

\* The fixed build never reads memory that is not allocated, wherever realloc puts
\* the array and however it fails (racecrash.c:25-27); and in both builds a write
\* outside the array has a realloc that failed before it, and nothing else.
AccessesAreAllocated ==
    /\ lockedRead => fault # "bad read"
    /\ fault = "bad write" => data = "NULL"

\* No sample is lost or counted twice, although each producer reads and writes count.
NoSampleLost == count = MapThenSumSet(LAMBDA p : pushed[p], Producers)
==============================================================================
