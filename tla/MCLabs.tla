-------------------------------- MODULE MCLabs --------------------------------
(* The exercises on threads, and the pairs of programs of process/ipc.  They do   *)
(* not interact: a behaviour runs one of them, the others stay where they start.  *)
EXTENDS SampleStore

CONSTANTS
    Modulus,                        \* of the register
    CounterThreads, Iterations,     \* of the counter
    Tries,                          \* of the threads
    Makers, Users, Burst, MaxMsg    \* of the pairs of programs

CONSTANTS p1, p2, a1, a2, t1, t2, t3

TwoProducers == {p1, p2}
TwoAddresses == {a1, a2}
ThreeThreads == {t1, t2, t3}

VARIABLES exercise,
          handshake, regRunning, mutex, data_reg, TXE, RXNE, txpc, item, rxpc, received, hpc,
          joined,
          lab, burst, counterLock, counter, left, tpc, loaded, started, mainpc,
          program, pc, holder, tries, value, tested, killed, mem, buffered, reg, races,
          pair, procpc, obj, named, made, level, toSend, sized, backlog

registerVars == <<handshake, regRunning, mutex, data_reg, TXE, RXNE, txpc, item, rxpc, received,
                  hpc, joined>>
counterVars == <<lab, burst, counterLock, counter, left, tpc, loaded, started, mainpc>>
threadVars == <<program, pc, holder, tries, value, tested, killed, mem, buffered, reg, races>>
ipcVars == <<pair, procpc, obj, named, made, level, toSend, sized, backlog>>

Register == INSTANCE DataRegister WITH
    running <- regRunning, ppc <- txpc, cpc <- rxpc

Counter == INSTANCE SharedCounter WITH
    Threads <- CounterThreads, lock <- counterLock

Threads == INSTANCE ThreadLabs WITH lab <- program

Ipc == INSTANCE IpcLabs WITH
    lab <- pair, pc <- procpc, left <- toSend

ASSUME LabsAssumption ==
    /\ StoreAssumption /\ Register!WordsAssumption
    /\ Counter!CounterAssumption /\ Threads!TriesAssumption /\ Ipc!IpcLabsAssumption

\* Of the exercises that do not run, one initial state is enough.
LabsInit ==
    /\ exercise \in {"store", "register", "counter", "threads", "ipc"}
    /\ Init /\ (exercise # "store" => lockedRead /\ data = a1)
    /\ Register!Init /\ (exercise # "register" => handshake)
    /\ Counter!Init /\ (exercise # "counter" => lab = "lab24")
    /\ Threads!Init /\ (exercise # "threads" => program = "lab25")
    /\ Ipc!Init /\ (exercise # "ipc" => pair = "sem")

LabsNext ==
    \/ /\ exercise = "store" /\ Next
       /\ UNCHANGED <<exercise, registerVars, counterVars, threadVars, ipcVars>>
    \/ /\ exercise = "register" /\ Register!Next
       /\ UNCHANGED <<exercise, vars, counterVars, threadVars, ipcVars>>
    \/ /\ exercise = "counter" /\ Counter!Next
       /\ UNCHANGED <<exercise, vars, registerVars, threadVars, ipcVars>>
    \/ /\ exercise = "threads" /\ Threads!Next
       /\ UNCHANGED <<exercise, vars, registerVars, counterVars, ipcVars>>
    \/ /\ exercise = "ipc" /\ Ipc!Next
       /\ UNCHANGED <<exercise, vars, registerVars, counterVars, threadVars>>

LabsSpec ==
    /\ LabsInit
    /\ [][LabsNext]_<<exercise, vars, registerVars, counterVars, threadVars, ipcVars>>
    /\ exercise = "threads" => Threads!Fairness
    /\ Ipc!Fairness     \* of processes that were started: of nobody in the other exercises

\* What the programs on threads come to: the types of the register and the counter, the
\* sum that labs 21 to 24 print, and the outcomes of labs 25 to 32 and of labs 14 to 16.
Outcomes ==
    /\ Register!TypeOK
    /\ Counter!TypeOK /\ Counter!FinalCounter
    /\ Threads!Outcomes
    /\ Ipc!Outcomes

\* Of the register, of labs 25 to 32 and of the pairs of process/ipc: the properties of
\* their modules.
PassesWordsOn == Register!PassesWordsOn
ThreadsReturn ==
    /\ exercise = "threads" => Threads!ThreadsReturn
    /\ exercise = "ipc" => Ipc!ProcessesReturn
==============================================================================
