----------------------------- MODULE SharedCounter -----------------------------
(* thread/lab21 to lab24: many threads add one to a counter many times, with    *)
(* nothing around the addition (lab21), a mutex (lab22), a spinlock that is     *)
(* taken and never released (lab23), or an atomic addition (lab24).             *)
EXTENDS Integers, FiniteSets

CONSTANTS
    Threads,        \* NUM_THREADS
    Iterations      \* the bound of the loop in increment_counter

\* What is assumed of the constants; the modules that instantiate this one say so.
CounterAssumption ==
    /\ Iterations \in Nat /\ Iterations > 1
    /\ IsFiniteSet(Threads) /\ Cardinality(Threads) > 1 /\ "nobody" \notin Threads

VARIABLES
    lab,        \* which of the four programs is running
    burst,      \* how many iterations the compiler has made one addition of (lab21)
    lock,       \* who holds mutex or spinlock
    counter,
    left,       \* each thread: the iterations it has before it
    tpc, loaded,    \* each thread: control point, and the value it has read
    started,    \* the threads main has created
    mainpc

vars == <<lab, burst, lock, counter, left, tpc, loaded, started, mainpc>>

Init ==
    /\ lab \in {"lab21", "lab22", "lab23", "lab24"}
    /\ burst \in IF lab = "lab21" THEN {1, Iterations} ELSE {1}
    /\ lock = "nobody"
    /\ counter = 0
    /\ left = [t \in Threads |-> Iterations]
    /\ tpc = [t \in Threads |-> "loop"]
    /\ loaded = [t \in Threads |-> 0]
    /\ started = {}
    /\ mainpc = "create"

-----------------------------------------------------------------------------
(* A thread.  The data race of lab21 lets the compiler add up its iterations. *)

At(t, from, to) ==
    /\ t \in started /\ mainpc # "ended"
    /\ tpc[t] = from
    /\ tpc' = [tpc EXCEPT ![t] = to]

Locks == lab \in {"lab22", "lab23"}

Enter(t) == IF Locks THEN lock = "nobody" /\ lock' = t ELSE UNCHANGED lock

Load(t) ==
    /\ At(t, "loop", "store")
    /\ lab # "lab24" /\ left[t] > 0
    /\ Enter(t)
    /\ loaded' = [loaded EXCEPT ![t] = counter]
    /\ UNCHANGED <<lab, burst, counter, left, started, mainpc>>

Store(t) ==
    /\ At(t, "store", "unlock")
    /\ counter' = loaded[t] + burst
    /\ left' = [left EXCEPT ![t] = @ - burst]
    /\ UNCHANGED <<lab, burst, lock, loaded, started, mainpc>>

\* In lab23 the call of pthread_spin_unlock is commented out.
Unlock(t) ==
    /\ At(t, "unlock", "loop")
    /\ lock' = IF lab = "lab22" THEN "nobody" ELSE lock
    /\ UNCHANGED <<lab, burst, counter, left, loaded, started, mainpc>>

FetchAdd(t) ==
    /\ At(t, "loop", "loop")
    /\ lab = "lab24" /\ left[t] > 0
    /\ counter' = counter + 1
    /\ left' = [left EXCEPT ![t] = @ - 1]
    /\ UNCHANGED <<lab, burst, lock, loaded, started, mainpc>>

Return(t) ==
    /\ At(t, "loop", "done")
    /\ left[t] = 0
    /\ UNCHANGED <<lab, burst, lock, counter, left, loaded, started, mainpc>>

Thread(t) == Load(t) \/ Store(t) \/ Unlock(t) \/ FetchAdd(t) \/ Return(t)

-----------------------------------------------------------------------------
(* main.                                                                     *)

Create(t) ==
    /\ mainpc = "create"
    /\ t \notin started
    /\ started' = started \cup {t}
    /\ UNCHANGED <<lab, burst, lock, counter, left, tpc, loaded, mainpc>>

\* main returns and ends the threads there are.
CreateFails ==
    /\ mainpc = "create" /\ started # Threads
    /\ mainpc' = "ended"
    /\ UNCHANGED <<lab, burst, lock, counter, left, tpc, loaded, started>>

\* All joins have returned and the counter is printed.
JoinAndPrint ==
    /\ mainpc = "create" /\ started = Threads
    /\ \A t \in Threads : tpc[t] = "done"
    /\ mainpc' = "printed"
    /\ UNCHANGED <<lab, burst, lock, counter, left, tpc, loaded, started>>

\* In lab23 every thread that has not finished spins.
Spinning == lab = "lab23" /\ lock # "nobody" /\ \A t \in Threads : tpc[t] \in {"loop", "done"}

Stopped ==
    /\ mainpc \in {"ended", "printed"} \/ (started = Threads /\ Spinning)
    /\ UNCHANGED vars

Next ==
    \/ \E t \in Threads : Thread(t) \/ Create(t)
    \/ CreateFails \/ JoinAndPrint \/ Stopped

Spec == Init /\ [][Next]_vars

-----------------------------------------------------------------------------
(* Properties. *)

\* Types of the counter and the threads.
TypeOK ==
    /\ lab \in {"lab21", "lab22", "lab23", "lab24"}
    /\ burst \in {1, Iterations}
    /\ lock \in Threads \cup {"nobody"}
    /\ counter \in Nat
    /\ left \in [Threads -> 0 .. Iterations]
    /\ tpc \in [Threads -> {"loop", "store", "unlock", "done"}]
    /\ loaded \in [Threads -> Nat]
    /\ started \in SUBSET Threads
    /\ mainpc \in {"create", "printed", "ended"}

All == Cardinality(Threads) * Iterations

\* What main prints.  With the mutex or the atomic addition nothing is lost; without
\* them all but two additions may be, and the last two cannot; with the spinlock one
\* thread adds once, and nothing is printed unless that was all there was to do.
FinalCounter ==
    mainpc = "printed" =>
        CASE lab = "lab21" -> counter \in 2 .. All
          [] lab = "lab23" -> All = 1
          [] OTHER         -> counter = All
==============================================================================
