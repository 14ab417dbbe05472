------------------------------- MODULE IpcServer -------------------------------
(***************************************************************************)
(* The IPC server of process/project/backend.c with the workers of its GUI *)
(* (process/project/py_gui.py).  Once in a tick the server accepts one     *)
(* client, numbers a message and delivers it through a message queue, to   *)
(* every socket client, and into shared memory under a named semaphore.    *)
(*                                                                         *)
(* A message is its sequence number.  The copy of a message into or out of *)
(* shared memory takes two steps, one per half, so that a torn read is     *)
(* visible.  The handlers were installed without SA_RESTART, so a signal   *)
(* makes a sem_wait that blocks fail with EINTR; the result is not looked  *)
(* at.  SIGINT is installed by the one-shot signal() of _POSIX_C_SOURCE: a *)
(* second one kills the process.                                           *)
(***************************************************************************)
EXTENDS Integers, Sequences, FiniteSets

CONSTANTS
    Readers,     \* the ShmWorkers, one in each GUI process
    Peers,       \* the connections the SocketWorkers make
    MaxClients,  \* MAX_CLIENTS
    QueueMax,    \* mq_maxmsg
    SocketMax,   \* messages a client's socket buffer takes
    MaxTicks,    \* bound: how many ticks the server runs
    MaxSignals   \* bound: how many SIGUSR1 are sent

ASSUME SizesAssumption ==
    /\ MaxClients \in Nat \ {0} /\ QueueMax \in Nat \ {0} /\ SocketMax \in Nat \ {0}
    /\ MaxTicks \in Nat \ {0} /\ MaxSignals \in Nat
ASSUME ReadersAssumption == IsFiniteSet(Readers)
ASSUME PeersAssumption == "nobody" \notin Peers

Slots == 1 .. MaxClients
Nobody == "nobody"
Message == [front : 0 .. MaxTicks, back : 0 .. MaxTicks]
Whole(n) == [front |-> n, back |-> n]

VARIABLES
    spc, seq,          \* server: control point, sequence number
    running,           \* g_running
    signals,           \* SIGUSR1 still to be sent
    eintr,             \* how many sem_waits have failed with EINTR
    names,             \* IPC objects that can be opened by name now
    sem, shm,          \* value of the semaphore, content of the shared memory
    mq,                \* the messages in the queue
    backlog, clients,  \* connections to accept, clients[]
    peer, inbox, last, \* per connection: its state, unread messages, last one read
    rpc, copy          \* per reader: control point, the message it copies

serverVars == <<spc, seq, running, eintr>>
shmVars    == <<names, sem, shm>>
sockVars   == <<backlog, clients, peer, inbox, last>>
readerVars == <<rpc, copy>>
vars == <<serverVars, signals, shmVars, mq, sockVars, readerVars>>

Init ==
    /\ spc = "start"
    /\ seq = 0
    /\ running = TRUE
    /\ signals = MaxSignals
    /\ eintr = 0
    /\ names = {}
    /\ sem = 0
    /\ shm = Whole(0)
    /\ mq = <<>>
    /\ backlog = <<>>
    /\ clients = [i \in Slots |-> Nobody]
    /\ peer = [p \in Peers |-> "idle"]
    /\ inbox = [p \in Peers |-> <<>>]
    /\ last = [p \in Peers |-> 0]
    /\ rpc = [r \in Readers |-> "open shm"]
    /\ copy = [r \in Readers |-> Whole(0)]

-----------------------------------------------------------------------------
(* The server: start-up, one tick, shutdown. *)

SrvUnchanged == UNCHANGED <<running, signals, readerVars>>

\* Stale objects are unlinked and new ones made, in this order; the shared memory
\* has its size and zeros before the semaphore exists.
Create(from, name, to) ==
    /\ spc = from
    /\ spc' = to
    /\ names' = names \cup {name}
    /\ sem' = IF name = "sem" THEN 1 ELSE sem
    /\ UNCHANGED <<seq, eintr, shm, mq, sockVars>>
    /\ SrvUnchanged

StartUp ==
    \/ Create("start", "shm", "shm created")
    \/ Create("shm created", "sem", "sem created")
    \/ Create("sem created", "socket", IF running THEN "accept" ELSE "clean up")

Room == {i \in Slots : clients[i] = Nobody}

\* One connection is accepted in a tick, or closed when the table is full; then
\* the message is numbered.
Accept ==
    /\ spc = "accept"
    /\ seq' = seq + 1
    /\ spc' = "queue"
    /\ IF backlog = <<>>
         THEN UNCHANGED <<backlog, clients>>
         ELSE /\ backlog' = Tail(backlog)
              /\ IF Room = {}
                   THEN UNCHANGED clients
                   ELSE \E i \in Room :
                          /\ \A j \in Room : i <= j
                          /\ clients' = [clients EXCEPT ![i] = Head(backlog)]
    /\ UNCHANGED <<eintr, shmVars, mq, peer, inbox, last>>
    /\ SrvUnchanged

\* The queue is non-blocking: a message that finds it full is dropped silently.
SendQueue ==
    /\ spc = "queue"
    /\ mq' = IF Len(mq) < QueueMax THEN Append(mq, seq) ELSE mq
    /\ spc' = "socket"
    /\ UNCHANGED <<seq, eintr, shmVars, sockVars>>
    /\ SrvUnchanged

\* send succeeds: the peer is there and its socket is not full.
Takes(p) == peer[p] = "open" /\ Len(inbox[p]) < SocketMax
Connected == {clients[i] : i \in Slots} \ {Nobody}

\* Mutant: a client that cannot take the message misses it and stays.
ClientsKept == clients

ClientsAfterSend ==
    [i \in Slots |-> IF clients[i] # Nobody /\ ~Takes(clients[i]) THEN Nobody ELSE clients[i]]

\* A client whose socket is full is closed, as is one that has gone.
SendSockets ==
    /\ spc = "socket"
    /\ inbox' = [p \in Peers |->
                   IF p \in Connected /\ Takes(p) THEN Append(inbox[p], seq) ELSE inbox[p]]
    /\ clients' = ClientsAfterSend
    /\ spc' = "sem_wait"
    /\ UNCHANGED <<seq, eintr, shmVars, mq, backlog, peer, last>>
    /\ SrvUnchanged

\* Mutant: sem_trywait, with its result ignored.
SemFreeUnchecked == TRUE

SemFree == sem > 0

\* Mutant: sem_post is forgotten.
PostNothing == sem' = sem

Post == sem' = sem + 1

\* sem_wait succeeds, at once or after it has blocked.
SemWait ==
    /\ spc \in {"sem_wait", "blocked"}
    /\ SemFree
    /\ sem' = sem - 1
    /\ spc' = "copy front"
    /\ UNCHANGED <<seq, eintr, names, shm, mq, sockVars>>
    /\ SrvUnchanged

SemBlock ==
    /\ spc = "sem_wait"
    /\ ~SemFree
    /\ spc' = "blocked"
    /\ UNCHANGED <<seq, eintr, shmVars, mq, sockVars>>
    /\ SrvUnchanged

CopyFront ==
    /\ spc = "copy front"
    /\ shm' = [shm EXCEPT !.front = seq]
    /\ spc' = "copy back"
    /\ UNCHANGED <<seq, eintr, names, sem, mq, sockVars>>
    /\ SrvUnchanged

CopyBack ==
    /\ spc = "copy back"
    /\ shm' = [shm EXCEPT !.back = seq]
    /\ spc' = "sem_post"
    /\ UNCHANGED <<seq, eintr, names, sem, mq, sockVars>>
    /\ SrvUnchanged

SemPost ==
    /\ spc = "sem_post"
    /\ Post
    /\ spc' = "sleep"
    /\ UNCHANGED <<seq, eintr, names, shm, mq, sockVars>>
    /\ SrvUnchanged

\* nanosleep, which a signal cuts short, and the test of g_running.
Sleep ==
    /\ spc = "sleep"
    /\ running => seq < MaxTicks
    /\ spc' = IF running THEN "accept" ELSE "clean up"
    /\ UNCHANGED <<seq, eintr, shmVars, mq, sockVars>>
    /\ SrvUnchanged

\* Shared memory is unlinked before the semaphore; those who have them keep them.
CleanUp ==
    /\ \/ spc = "clean up" /\ spc' = "unlink sem" /\ names' = names \ {"shm"}
       \/ spc = "unlink sem" /\ spc' = "close" /\ names' = names \ {"sem"}
    /\ UNCHANGED <<seq, eintr, sem, shm, mq, sockVars>>
    /\ SrvUnchanged

Close ==
    /\ spc = "close"
    /\ spc' = "ended"
    /\ names' = {}
    /\ clients' = [i \in Slots |-> Nobody]
    /\ backlog' = <<>>
    /\ UNCHANGED <<seq, eintr, sem, shm, mq, peer, inbox, last>>
    /\ SrvUnchanged

\* What a handler does to a sem_wait that blocks: the copy starts all the same.
Interrupt ==
    IF spc = "blocked"
      THEN spc' = "copy front" /\ eintr' = eintr + 1
      ELSE UNCHANGED <<spc, eintr>>

Alive == spc \notin {"ended", "killed", "killed holding"}
Copying == spc \in {"copy front", "copy back", "sem_post"}

Sigusr1 ==
    /\ Alive
    /\ signals > 0
    /\ signals' = signals - 1
    /\ Interrupt
    /\ UNCHANGED <<seq, running, shmVars, mq, sockVars, readerVars>>

\* The first SIGINT clears g_running, the second has its default effect.
Sigint ==
    /\ Alive
    /\ IF running
         THEN running' = FALSE /\ Interrupt /\ UNCHANGED <<clients, backlog>>
         ELSE /\ spc' = IF Copying THEN "killed holding" ELSE "killed"
              /\ clients' = [i \in Slots |-> Nobody]
              /\ backlog' = <<>>
              /\ UNCHANGED <<running, eintr>>
    /\ UNCHANGED <<seq, signals, shmVars, mq, peer, inbox, last, readerVars>>

-----------------------------------------------------------------------------
(* ShmWorker. *)

ReaderUnchanged == UNCHANGED <<serverVars, signals, mq, sockVars>>

\* The constructor of SharedMemory; without the name the worker tries again later.
OpenShm(r) ==
    /\ rpc[r] = "open shm"
    /\ "shm" \in names
    /\ rpc' = [rpc EXCEPT ![r] = "open sem"]
    /\ UNCHANGED <<shmVars, copy>>
    /\ ReaderUnchanged

\* The loop of attempts ends once shm is set: without the semaphore the thread
\* dies of an exception at sem.acquire.
OpenSem(r) ==
    /\ rpc[r] = "open sem"
    /\ rpc' = [rpc EXCEPT ![r] =
                 IF "sem" \in names THEN "acquire" ELSE "crashed"]
    /\ UNCHANGED <<shmVars, copy>>
    /\ ReaderUnchanged

AcquireSem(r) ==
    /\ rpc[r] = "acquire"
    /\ SemFree
    /\ sem' = sem - 1
    /\ rpc' = [rpc EXCEPT ![r] = "read front"]
    /\ UNCHANGED <<names, shm, copy>>
    /\ ReaderUnchanged

ReadFront(r) ==
    /\ rpc[r] = "read front"
    /\ copy' = [copy EXCEPT ![r].front = shm.front]
    /\ rpc' = [rpc EXCEPT ![r] = "read back"]
    /\ UNCHANGED shmVars
    /\ ReaderUnchanged

ReadBack(r) ==
    /\ rpc[r] = "read back"
    /\ copy' = [copy EXCEPT ![r].back = shm.back]
    /\ rpc' = [rpc EXCEPT ![r] = "release"]
    /\ UNCHANGED shmVars
    /\ ReaderUnchanged

ReleaseSem(r) ==
    /\ rpc[r] = "release"
    /\ Post
    /\ rpc' = [rpc EXCEPT ![r] = "unpack"]
    /\ UNCHANGED <<names, shm, copy>>
    /\ ReaderUnchanged

\* The message is unpacked, shown when its number is a new one, and not used again;
\* the worker sleeps a tenth of a second.
Unpack(r) ==
    /\ rpc[r] = "unpack"
    /\ copy' = [copy EXCEPT ![r] = Whole(0)]
    /\ rpc' = [rpc EXCEPT ![r] = "acquire"]
    /\ UNCHANGED shmVars
    /\ ReaderUnchanged

\* The process of the GUI is killed.  It keeps the semaphore if it has it.
Holding == {"read front", "read back", "release"}
ReaderDies(r) ==
    /\ rpc[r] \notin {"crashed", "dead", "dead holding"}
    /\ rpc' = [rpc EXCEPT ![r] = IF rpc[r] \in Holding THEN "dead holding" ELSE "dead"]
    /\ copy' = [copy EXCEPT ![r] = Whole(0)]
    /\ UNCHANGED shmVars
    /\ ReaderUnchanged

-----------------------------------------------------------------------------
(* MQueueWorker and SocketWorker. *)

OthersUnchanged == UNCHANGED <<serverVars, signals, shmVars, readerVars>>

ReceiveQueue ==
    /\ mq # <<>>
    /\ mq' = Tail(mq)
    /\ UNCHANGED sockVars
    /\ OthersUnchanged

Connect(p) ==
    /\ "socket" \in names
    /\ Alive
    /\ peer[p] = "idle"
    /\ peer' = [peer EXCEPT ![p] = "open"]
    /\ backlog' = Append(backlog, p)
    /\ UNCHANGED <<clients, inbox, last, mq>>
    /\ OthersUnchanged

Disconnect(p) ==
    /\ peer[p] = "open"
    /\ peer' = [peer EXCEPT ![p] = "closed"]
    /\ inbox' = [inbox EXCEPT ![p] = <<>>]
    /\ last' = [last EXCEPT ![p] = 0]
    /\ UNCHANGED <<clients, backlog, mq>>
    /\ OthersUnchanged

ReceiveSocket(p) ==
    /\ inbox[p] # <<>>
    /\ last' = [last EXCEPT ![p] = Head(inbox[p])]
    /\ inbox' = [inbox EXCEPT ![p] = Tail(inbox[p])]
    /\ UNCHANGED <<backlog, clients, peer, mq>>
    /\ OthersUnchanged

-----------------------------------------------------------------------------
Server ==
    \/ StartUp \/ Accept \/ SendQueue \/ SendSockets \/ SemWait \/ SemBlock
    \/ CopyFront \/ CopyBack \/ SemPost \/ Sleep \/ CleanUp \/ Close
Reader(r) ==
    \/ OpenShm(r) \/ OpenSem(r) \/ AcquireSem(r) \/ ReadFront(r) \/ ReadBack(r)
    \/ ReleaseSem(r) \/ Unpack(r)

\* Nothing is left to do, or the bound on the ticks is reached.
Quiet == (~Alive \/ (spc = "sleep" /\ seq = MaxTicks)) /\ UNCHANGED vars

Next ==
    \/ Server \/ Sigusr1 \/ Sigint
    \/ \E r \in Readers : Reader(r) \/ ReaderDies(r)
    \/ ReceiveQueue
    \/ \E p \in Peers : Connect(p) \/ Disconnect(p) \/ ReceiveSocket(p)
    \/ Quiet

\* The processes keep running, and the semaphore is handed on: a reader sleeps
\* between two rounds and cannot keep the server out for ever.
Fairness ==
    /\ WF_vars(Server) /\ SF_vars(SemWait)
    /\ \A r \in Readers : WF_vars(Reader(r)) /\ SF_vars(AcquireSem(r))

Spec == Init /\ [][Next]_vars /\ Fairness

-----------------------------------------------------------------------------
(* Properties. *)

\* Types of the server's, the readers' and the connections' state; the queue and
\* the sockets keep within their limits.
TypeOK ==
    /\ spc \in {"start", "shm created", "sem created", "accept", "queue", "socket",
                "sem_wait", "blocked", "copy front", "copy back", "sem_post", "sleep",
                "clean up", "unlink sem", "close", "ended", "killed", "killed holding"}
    /\ seq \in 0 .. MaxTicks
    /\ running \in BOOLEAN
    /\ signals \in 0 .. MaxSignals
    /\ eintr \in Nat
    /\ names \subseteq {"shm", "sem", "socket"}
    /\ sem \in Nat
    /\ shm \in Message
    /\ mq \in Seq(0 .. MaxTicks) /\ Len(mq) <= QueueMax
    /\ backlog \in Seq(Peers)
    /\ clients \in [Slots -> Peers \cup {Nobody}]
    /\ peer \in [Peers -> {"idle", "open", "closed"}]
    /\ inbox \in [Peers -> Seq(0 .. MaxTicks)]
    /\ last \in [Peers -> 0 .. MaxTicks]
    /\ rpc \in [Readers -> {"open shm", "open sem", "acquire", "read front", "read back",
                            "release", "unpack", "crashed", "dead", "dead holding"}]
    /\ copy \in [Readers -> Message]

Holders == {r \in Readers : rpc[r] \in Holding \cup {"dead holding"}}
ServerHolds == IF Copying \/ spc = "killed holding" THEN 1 ELSE 0
SemExists == "sem" \in names \/ spc \in {"close", "ended"}

\* A sem_wait that fails with EINTR adds one permit to the semaphore for ever; with
\* none, at most one of the server and the readers is inside.
EachEintrAddsAPermit ==
    SemExists => sem + Cardinality(Holders) + ServerHolds = 1 + eintr

\* A worker never unpacks a message that is half old and half new, unless a signal
\* has interrupted the server in sem_wait.
WholeUnlessInterrupted ==
    eintr = 0 => \A r \in Readers : rpc[r] = "unpack" => copy[r].front = copy[r].back

\* A client of the socket gets consecutive messages as long as it is connected: one
\* it cannot take ends the connection instead of leaving a gap.
NoGapInSocket ==
    \A p \in Peers :
        LET all == <<last[p]>> \o inbox[p] IN
        \A k \in 1 .. Len(inbox[p]) : all[k] = 0 \/ all[k + 1] = all[k] + 1

HolderDied == \E r \in Readers : rpc[r] = "dead holding"

\* Waiting for the semaphore ends, so that a tick is finished, unless a reader was
\* killed while it had the semaphore.
TicksGoOn == spc = "blocked" ~> (spc # "blocked" \/ HolderDied)

\* Ctrl+C ends the server, unless a reader was killed while it had the semaphore.
StopEndsServer == ~running ~> (~Alive \/ HolderDied)

\* The semaphore keeps a worker from reading a message that is being written.
NeverTorn == \A r \in Readers : rpc[r] = "unpack" => copy[r].front = copy[r].back
==============================================================================
