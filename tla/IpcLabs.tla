-------------------------------- MODULE IpcLabs --------------------------------
(* The pairs of programs of process/ipc that meet under a name:               *)
(*   queue    lab14_queue1.c sends, lab14_queue2.c receives and unlinks;      *)
(*   shm      lab15_shm1.c creates and unlinks, lab15_shm2.c reads;           *)
(*   sem      lab16_sem1.c, several at a time;                                *)
(*   socket   lab17_socket1.c serves one client, lab17_socket2.c.             *)
(* They are started in any order.  The name of an object can be taken away    *)
(* and given to a new one while others still have the old one open.           *)
EXTENDS Naturals, Sequences, FiniteSets

CONSTANTS
    Makers,     \* the processes that create an object: the first program of each pair
    Users,      \* those that open it: the second program
    Burst,      \* messages that one run of lab14_queue1.c sends
    MaxMsg      \* mq_maxmsg

\* What is assumed of them; the modules that instantiate this one say so.
IpcLabsAssumption ==
    /\ IsFiniteSet(Makers) /\ Makers \cap Users = {}
    /\ Burst \in Nat \ {0} /\ MaxMsg \in Nat \ {0}

VARIABLES
    lab,
    pc,         \* control point of each process
    obj,        \* the object that it has open
    named,      \* the object that bears the name
    made,       \* how many objects there have been
    level,      \* of each object: messages in the queue, value of the semaphore
    left,       \* messages that a sender has still to send
    sized,      \* the shared memories that have their size
    backlog     \* of each socket: the clients that have connected

vars == <<lab, pc, obj, named, made, level, left, sized, backlog>>

None == 0
Objects == 1 .. Cardinality(Makers)
Procs == Makers \cup Users

Init ==
    /\ lab \in {"queue", "shm", "sem", "socket"}
    /\ pc = [p \in Procs |-> "begin"]
    /\ obj = [p \in Procs |-> None]
    /\ named = None /\ made = 0
    /\ level = [o \in Objects |-> 0]
    /\ left = [m \in Makers |-> Burst]
    /\ sized = {}
    /\ backlog = [o \in Objects |-> <<>>]

Go(p, from, to) == pc[p] = from /\ pc' = [pc EXCEPT ![p] = to]
Has(p, o) == obj' = [obj EXCEPT ![p] = o]

\* A new object, of which the caller has a descriptor, gets the name.
Create(p) == made' = made + 1 /\ named' = made + 1 /\ Has(p, made + 1)

\* mq_open, shm_open, sem_open with O_CREAT: what bears the name, or a new object.
OpenOrCreate(p) ==
    IF named = None THEN Create(p) ELSE Has(p, named) /\ UNCHANGED <<named, made>>

\* The programs that only open end when nothing bears the name.
Open(p, to) ==
    IF named = None THEN Go(p, "begin", "failed") /\ UNCHANGED obj
    ELSE Go(p, "begin", to) /\ Has(p, named)

-----------------------------------------------------------------------------
OpenToSend(m) ==
    /\ Go(m, "begin", "send") /\ OpenOrCreate(m)
    /\ UNCHANGED <<level, left>>

\* mq_send blocks while the queue is full.
Send(m) ==
    /\ Go(m, "send", IF left[m] = 1 THEN "done" ELSE "send")
    /\ level[obj[m]] < MaxMsg
    /\ level' = [level EXCEPT ![obj[m]] = @ + 1]
    /\ left' = [left EXCEPT ![m] = @ - 1]
    /\ UNCHANGED <<obj, named, made>>

OpenToReceive(u) == Open(u, "receive") /\ UNCHANGED <<named, made, level, left>>
Receive(u) ==
    /\ Go(u, "receive", "unlink")
    /\ level[obj[u]] > 0
    /\ level' = [level EXCEPT ![obj[u]] = @ - 1]
    /\ UNCHANGED <<obj, named, made, left>>

\* mq_unlink, shm_unlink: whatever bears the name now.
Unlink(p) == Go(p, "unlink", "done") /\ named' = None /\ UNCHANGED <<obj, made, level, left>>

Queue(p) ==
    /\ lab = "queue"
    /\ \/ p \in Makers /\ (OpenToSend(p) \/ Send(p))
       \/ p \in Users /\ (OpenToReceive(p) \/ Receive(p) \/ Unlink(p))
    /\ UNCHANGED <<lab, sized, backlog>>

-----------------------------------------------------------------------------
\* The writer copies its text into the memory and sleeps before it unlinks it.
OpenShm(m) == Go(m, "begin", "ftruncate") /\ OpenOrCreate(m) /\ UNCHANGED sized
Ftruncate(m) ==
    /\ Go(m, "ftruncate", "unlink")
    /\ sized' = sized \cup {obj[m]}
    /\ UNCHANGED <<obj, named, made>>
UnlinkShm(m) == Unlink(m) /\ UNCHANGED sized

\* mmap succeeds on an object of size zero; the access ends with SIGBUS.
OpenToRead(u) == Open(u, "read") /\ UNCHANGED <<named, made, sized>>
ReadShm(u) ==
    /\ Go(u, "read", IF obj[u] \in sized THEN "done" ELSE "dead")
    /\ UNCHANGED <<obj, named, made, sized>>

Shm(p) ==
    /\ lab = "shm"
    /\ \/ p \in Makers /\ (OpenShm(p) \/ Ftruncate(p) \/ UnlinkShm(p))
       \/ p \in Users /\ (OpenToRead(p) \/ ReadShm(p))
    /\ UNCHANGED <<lab, level, left, backlog>>

-----------------------------------------------------------------------------
\* The semaphore has the value 1 when it is made, and is never unlinked.
OpenSem(m) ==
    /\ Go(m, "begin", "wait") /\ OpenOrCreate(m)
    /\ level' = IF named = None THEN [level EXCEPT ![made + 1] = 1] ELSE level
WaitSem(m) ==
    /\ Go(m, "wait", "inside")
    /\ level[obj[m]] > 0
    /\ level' = [level EXCEPT ![obj[m]] = @ - 1]
    /\ UNCHANGED <<obj, named, made>>
PostSem(m) ==
    /\ Go(m, "inside", "done")
    /\ level' = [level EXCEPT ![obj[m]] = @ + 1]
    /\ UNCHANGED <<obj, named, made>>

Sem(p) ==
    /\ lab = "sem" /\ p \in Makers
    /\ OpenSem(p) \/ WaitSem(p) \/ PostSem(p)
    /\ UNCHANGED <<lab, left, sized, backlog>>

-----------------------------------------------------------------------------
\* A server removes the name, whoever has it, and fails when it is back before bind.
UnlinkPath(m) == Go(m, "begin", "bind") /\ named' = None /\ UNCHANGED <<obj, made, backlog>>
Bind(m) ==
    /\ IF named = None THEN Go(m, "bind", "listen") /\ Create(m)
       ELSE Go(m, "bind", "failed") /\ UNCHANGED <<obj, named, made>>
    /\ UNCHANGED backlog
Listen(m) == Go(m, "listen", "accept") /\ UNCHANGED <<obj, named, made, backlog>>
Accept(m) ==
    /\ Go(m, "accept", "read")
    /\ backlog[obj[m]] # <<>>
    /\ UNCHANGED <<obj, named, made, backlog>>

\* read returns with the message, or at the end of the stream; the name stays.
ReadMessage(m) ==
    /\ Go(m, "read", "done")
    /\ pc[Head(backlog[obj[m]])] # "write"
    /\ UNCHANGED <<obj, named, made, backlog>>

Serves(o) == \E m \in Makers : obj[m] = o /\ pc[m] \in {"accept", "read"}
Connect(u) ==
    /\ IF named # None /\ Serves(named)
       THEN /\ Go(u, "begin", "write") /\ Has(u, named)
            /\ backlog' = [backlog EXCEPT ![named] = Append(@, u)]
       ELSE Go(u, "begin", "failed") /\ UNCHANGED <<obj, backlog>>
    /\ UNCHANGED <<named, made>>
\* SIGPIPE ends a client whose server has gone.
Write(u) ==
    /\ Go(u, "write", IF Serves(obj[u]) THEN "done" ELSE "dead")
    /\ UNCHANGED <<obj, named, made, backlog>>

Socket(p) ==
    /\ lab = "socket"
    /\ \/ p \in Makers /\ (UnlinkPath(p) \/ Bind(p) \/ Listen(p) \/ Accept(p) \/ ReadMessage(p))
       \/ p \in Users /\ (Connect(p) \/ Write(p))
    /\ UNCHANGED <<lab, level, left, sized>>

-----------------------------------------------------------------------------
Ends == {"done", "failed", "dead", "dead holding"}
Running(p) == pc[p] \notin Ends \cup {"begin"}

\* A process is killed, or a call fails and it exits: nothing is cleaned up.
Dies(p) ==
    /\ Running(p)
    /\ pc' = [pc EXCEPT ![p] = IF @ = "inside" THEN "dead holding" ELSE "dead"]
    /\ UNCHANGED <<lab, obj, named, made, level, left, sized, backlog>>

Step(p) == Queue(p) \/ Shm(p) \/ Sem(p) \/ Socket(p)

\* The calls that block, and what they wait for.
Waits(p) ==
    \/ pc[p] = "send" /\ level[obj[p]] = MaxMsg
    \/ pc[p] \in {"receive", "wait"} /\ level[obj[p]] = 0
    \/ pc[p] = "accept" /\ backlog[obj[p]] = <<>>

Next ==
    \/ \E p \in Procs : Step(p) \/ Dies(p)
    \/ (\A p \in Procs : pc[p] \in Ends \/ Waits(p) \/ (lab = "sem" /\ p \in Users)) /\ UNCHANGED vars

\* A process that was started runs on; nobody has to start one.
Fairness == \A p \in Procs : WF_vars(Running(p) /\ Step(p))

Spec == Init /\ [][Next]_vars /\ Fairness

-----------------------------------------------------------------------------
(* Properties. *)

\* Types of the variables.
TypeOK ==
    /\ pc \in [Procs -> Ends \cup {"begin", "send", "receive", "unlink", "ftruncate", "read", "wait",
                                   "inside", "bind", "listen", "accept", "write"}]
    /\ obj \in [Procs -> Objects \cup {None}]
    /\ named \in Objects \cup {None} /\ made \in 0 .. Cardinality(Makers)
    /\ level \in [Objects -> Nat] /\ left \in [Makers -> 0 .. Burst]
    /\ sized \subseteq Objects

\* lab14: a queue keeps to its limit.  lab15: a reader meets a memory without a size only
\* while the writer that made it is before ftruncate, or died there.  lab16: the permit is
\* in the semaphore, with one writer, or lost with one that was killed.
Outcomes ==
    /\ TypeOK
    /\ lab = "queue" => \A o \in Objects : level[o] <= MaxMsg
    /\ lab = "shm" =>
           \A u \in Users : pc[u] = "read" /\ obj[u] \notin sized =>
               \E m \in Makers : obj[m] = obj[u] /\ pc[m] \in {"ftruncate", "dead"}
    /\ lab = "sem" /\ made > 0 =>
           /\ made = 1
           /\ level[1] + Cardinality({m \in Makers : pc[m] \in {"inside", "dead holding"}}) = 1

\* Whoever is started comes to an end, but for: a sender at a full queue; a receiver at
\* an empty queue that another receiver has unlinked, or where a process died; a writer of
\* lab16 when one was killed inside; a server that nobody connects to.
MayWaitForEver(p) ==
    \/ pc[p] = "send" /\ level[obj[p]] = MaxMsg
    \/ pc[p] = "receive" /\ (named # obj[p] \/ \E q \in Procs : pc[q] = "dead")
    \/ pc[p] = "wait" /\ \E m \in Makers : pc[m] = "dead holding"
    \/ pc[p] = "accept" /\ backlog[obj[p]] = <<>>
ProcessesReturn == <>[](\A p \in Procs : ~Running(p) \/ MayWaitForEver(p))
==============================================================================
