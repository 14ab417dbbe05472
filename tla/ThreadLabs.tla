------------------------------- MODULE ThreadLabs -------------------------------
(* Small programs of src/thread whose outcome depends on the order of their  *)
(* threads:                                                                  *)
(*   lab25  two mutexes, taken in opposite orders;                           *)
(*   lab26  three threads that try one mutex, at most so many times;         *)
(*   lab27  a waiter for the value 42, which an updater passes through;      *)
(*   lab28  a signal for a thread that may not have its handler yet;         *)
(*   lab29  a barrier for one thread more than there are;                    *)
(*   lab31  each thread writes its own variable and reads the other's, and   *)
(*   lab32  the same with a fence between the two.                           *)
(* main creates the threads and joins them: it ends when all have returned.  *)
EXTENDS Integers, FiniteSets

CONSTANT Tries      \* the bound of the loop of lab26

\* What is assumed of it; the modules that instantiate this one say so.
TriesAssumption == Tries \in Nat \ {0}

VARIABLES
    lab,
    pc,         \* control point of each thread
    holder,     \* of each mutex
    tries,      \* retry_count of each thread (lab26)
    value,      \* shared_value (lab27)
    tested,     \* the value that the waiter has tested last (lab27)
    killed,     \* SIGUSR1 has ended the process (lab28)
    mem,        \* x, the variable of thread 1, and y, that of thread 2 (lab31, lab32)
    buffered,   \* the store of each thread is not in memory yet
    reg,        \* r1 and r2
    races       \* main has counted a run that ended with r1 = r2 = 0

vars == <<lab, pc, holder, tries, value, tested, killed, mem, buffered, reg, races>>
weak == <<mem, buffered, reg, races>>

Free == 0
Threads == IF lab \in {"lab26", "lab29"} THEN 1 .. 3 ELSE IF lab = "lab28" THEN {1} ELSE 1 .. 2
Other(t) == 3 - t
AllReturned == \A t \in Threads : pc[t] = "returned"
In(labs) == lab \in labs /\ ~killed
Go(t, from, to) == pc[t] = from /\ pc' = [pc EXCEPT ![t] = to]

Init ==
    /\ lab \in {"lab25", "lab26", "lab27", "lab28", "lab29", "lab31", "lab32"}
    /\ pc = [t \in 1 .. 3 |-> "begin"]
    /\ holder = [m \in 1 .. 2 |-> Free]
    /\ tries = [t \in 1 .. 3 |-> 0]
    /\ value = 0 /\ tested = 0
    /\ killed = FALSE
    /\ mem = [t \in 1 .. 2 |-> 0]
    /\ buffered = [t \in 1 .. 2 |-> FALSE]
    /\ reg = mem
    /\ races = FALSE

Lock(m, t) == holder[m] = Free /\ holder' = [holder EXCEPT ![m] = t]
Unlock(m) == holder' = [holder EXCEPT ![m] = Free]

-----------------------------------------------------------------------------
(* lab25: thread 1 takes mutex 1 first, thread 2 takes mutex 2 first.        *)

LockFirst(t) == In({"lab25"}) /\ Go(t, "begin", "has first") /\ Lock(t, t)
LockSecond(t) == In({"lab25"}) /\ Go(t, "has first", "has both") /\ Lock(Other(t), t)
UnlockSecond(t) == In({"lab25"}) /\ Go(t, "has both", "unlock first") /\ Unlock(Other(t))
UnlockFirst(t) == In({"lab25"}) /\ Go(t, "unlock first", "returned") /\ Unlock(t)

Deadlock25(t) ==
    /\ LockFirst(t) \/ LockSecond(t) \/ UnlockSecond(t) \/ UnlockFirst(t)
    /\ UNCHANGED <<lab, tries, value, tested, killed, weak>>

\* lab26: a thread works once, or gives up when the mutex was always busy.
TryLock(t) ==
    /\ In({"lab26"}) /\ tries[t] < Tries
    /\ IF holder[1] = Free
       THEN Go(t, "begin", "works") /\ Lock(1, t) /\ UNCHANGED tries
       ELSE /\ pc[t] = "begin" /\ tries' = [tries EXCEPT ![t] = @ + 1]
            /\ UNCHANGED <<pc, holder>>
GiveUp(t) ==
    /\ In({"lab26"}) /\ tries[t] = Tries
    /\ Go(t, "begin", "returned")
    /\ UNCHANGED <<holder, tries>>
WorkAndUnlock(t) ==
    In({"lab26"}) /\ Go(t, "works", "returned") /\ Unlock(1) /\ UNCHANGED tries

Trylock26(t) ==
    /\ TryLock(t) \/ GiveUp(t) \/ WorkAndUnlock(t)
    /\ UNCHANGED <<lab, value, tested, killed, weak>>

-----------------------------------------------------------------------------
(* lab27: thread 1 waits, thread 2 updates.                                  *)

\* pthread_mutex_lock, or the end of pthread_cond_wait
WaiterLock ==
    /\ pc[1] \in {"begin", "awake"} /\ pc' = [pc EXCEPT ![1] = "test"]
    /\ Lock(1, 1)
    /\ UNCHANGED <<value, tested>>
WaiterTest ==
    /\ pc[1] = "test"
    /\ tested' = value
    /\ pc' = [pc EXCEPT ![1] = IF value = 42 THEN "returned" ELSE "asleep"]
    /\ Unlock(1)
    /\ UNCHANGED value
Spurious == Go(1, "asleep", "awake") /\ UNCHANGED <<holder, value, tested>>

\* shared_value = 39, without the mutex
Prepare == Go(2, "begin", "lock") /\ value' = 39 /\ UNCHANGED <<holder, tested>>
UpdaterLock == Go(2, "lock", "update") /\ Lock(1, 2) /\ UNCHANGED <<value, tested>>

\* Mutants: one round less; the loop does not signal.
FourRounds == 39 + 4
Silent == pc

LastValue == 39 + 5
Signalled == [pc EXCEPT ![1] = IF @ = "asleep" THEN "awake" ELSE @]

\* shared_value++, pthread_cond_signal and unlock
Update ==
    /\ pc[2] = "update"
    /\ value' = value + 1
    /\ pc' = [Signalled EXCEPT ![2] = IF value + 1 = LastValue THEN "returned" ELSE "lock"]
    /\ Unlock(1)
    /\ UNCHANGED tested

Waiter == WaiterLock \/ WaiterTest
Updater == Prepare \/ UpdaterLock \/ Update
Cond27(step) == In({"lab27"}) /\ step /\ UNCHANGED <<lab, tries, killed, weak>>

-----------------------------------------------------------------------------
(* lab28: main sends SIGUSR1 a second after it created the thread; nothing   *)
(* but time orders that after the call of signal.                            *)

Install == Go(1, "begin", "has handler") /\ UNCHANGED killed
Sleep == Go(1, "has handler", "sleeps") /\ UNCHANGED killed
WakeUp == Go(1, "sleeps", "returned") /\ UNCHANGED killed
Kill ==
    /\ killed' = (pc[1] = "begin")
    /\ pc' = [pc EXCEPT ![2] = "returned", ![1] = IF @ = "sleeps" THEN "returned" ELSE @]
    /\ pc[2] = "begin"

Signal28(step) == In({"lab28"}) /\ step /\ UNCHANGED <<lab, holder, tries, value, tested, weak>>

\* lab29: pthread_barrier_wait returns when four threads have come; main has created
\* three, and never gets to join the fourth.
NUM_THREADS == 4
Arrive(t) == Go(t, "begin", "barrier")
Pass(t) ==
    /\ Cardinality({u \in Threads : pc[u] # "begin"}) = NUM_THREADS
    /\ Go(t, "barrier", "returned")
Barrier29(t) ==
    /\ In({"lab29"}) /\ (Arrive(t) \/ Pass(t))
    /\ UNCHANGED <<lab, holder, tries, value, tested, killed, weak>>

-----------------------------------------------------------------------------
(* lab31 and lab32: a store waits in the processor's buffer, so that the     *)
(* load that follows may be done before it; a fence empties the buffer.      *)

WriteOwn(t) ==
    Go(t, "begin", "load") /\ buffered' = [buffered EXCEPT ![t] = TRUE] /\ UNCHANGED <<mem, reg, races>>
Flush(t) ==
    /\ buffered[t]
    /\ buffered' = [buffered EXCEPT ![t] = FALSE]
    /\ mem' = [mem EXCEPT ![t] = 1]
    /\ UNCHANGED <<pc, reg, races>>
Fenced(t) == lab = "lab32" => ~buffered[t]
ReadOther(t) ==
    /\ Fenced(t)
    /\ Go(t, "load", "returned")
    /\ reg' = [reg EXCEPT ![t] = mem[Other(t)]]
    /\ UNCHANGED <<mem, buffered, races>>

\* main joins both, counts, and begins again with everything at 0.
NextRun ==
    /\ AllReturned /\ \A t \in Threads : ~buffered[t]
    /\ races' = (races \/ (reg[1] = 0 /\ reg[2] = 0))
    /\ pc' = [pc EXCEPT ![1] = "begin", ![2] = "begin"]
    /\ mem' = [t \in 1 .. 2 |-> 0] /\ reg' = mem'
    /\ UNCHANGED buffered
Memory31(step) ==
    In({"lab31", "lab32"}) /\ step /\ UNCHANGED <<lab, holder, tries, value, tested, killed>>

-----------------------------------------------------------------------------
ThreadStep(t) ==
    \/ Deadlock25(t) \/ Trylock26(t) \/ Barrier29(t)
    \/ Memory31(WriteOwn(t)) \/ Memory31(Flush(t)) \/ Memory31(ReadOther(t))

\* The ways to end: as meant, in the deadly embrace of lab25, killed by the signal of
\* lab28, at the barrier of lab29.
Embrace == lab = "lab25" /\ \A t \in Threads : pc[t] = "has first"
AtBarrier == lab = "lab29" /\ \A t \in Threads : pc[t] = "barrier"
Stopped == (AllReturned /\ lab \notin {"lab31", "lab32"}) \/ Embrace \/ AtBarrier \/ killed

Next ==
    \/ \E t \in Threads : ThreadStep(t)
    \/ Cond27(Waiter) \/ Cond27(Updater) \/ Cond27(Spurious)
    \/ Signal28(Install) \/ Signal28(Sleep) \/ Signal28(WakeUp) \/ Signal28(Kill)
    \/ Memory31(NextRun)
    \/ Stopped /\ UNCHANGED vars

\* Every thread runs, and gets a mutex that is free again and again; nobody owes a
\* spurious wake-up, nor the signal of lab28.
Fairness ==
    /\ \A t \in 1 .. 3 : WF_vars(t \in Threads /\ ThreadStep(t))
    /\ SF_vars(Cond27(Updater)) /\ WF_vars(Cond27(Waiter))
    /\ WF_vars(Signal28(Install \/ Sleep \/ WakeUp))
    /\ WF_vars(Memory31(NextRun))

Spec == Init /\ [][Next]_vars /\ Fairness

-----------------------------------------------------------------------------
(* Properties. *)

Points ==
    {"begin", "has first", "has both", "unlock first", "works", "lock", "test", "asleep", "awake",
     "update", "has handler", "sleeps", "barrier", "load", "returned"}

\* Types of the variables.
TypeOK ==
    /\ pc \in [1 .. 3 -> Points]
    /\ holder \in [1 .. 2 -> 0 .. 3]
    /\ tries \in [1 .. 3 -> 0 .. Tries]
    /\ {value, tested} \subseteq {0} \cup 39 .. 44
    /\ killed \in BOOLEAN /\ races \in BOOLEAN
    /\ buffered \in [1 .. 2 -> BOOLEAN] /\ {mem, reg} \subseteq [1 .. 2 -> 0 .. 1]

\* lab27: the waiter does not sleep through an update; the value it has tested is the
\* current one, or 39 was written after that without the mutex and without a signal.
\* lab32: with the fences no run ends with r1 = r2 = 0.
Outcomes ==
    /\ TypeOK
    /\ lab = "lab27" /\ pc[1] = "asleep" => value \in {tested, 39}
    /\ lab = "lab32" => ~races

\* Every program ends with all its threads returned (lab31 and lab32: again and again),
\* but for lab25 in its embrace, lab27 when the waiter did not get the mutex while the
\* value was 42, lab28 when the signal comes before the handler, and lab29, always.
ThreadsReturn ==
    /\ lab = "lab25" => <>(AllReturned \/ Embrace)
    /\ lab = "lab26" => <>AllReturned
    /\ lab = "lab27" => <>(AllReturned \/ (pc[2] = "returned" /\ value = 44))
    /\ lab = "lab28" => <>(pc[1] = "returned" \/ killed)
    /\ lab = "lab29" => <>[]AtBarrier
    /\ lab \in {"lab31", "lab32"} => []<>AllReturned
==============================================================================
