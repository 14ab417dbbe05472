---------------------------- MODULE IpcServerProofs ----------------------------
(***************************************************************************)
(* What IpcServer keeps for any number of readers, connections, ticks and  *)
(* signals: its types, the count of the permits of the semaphore, that a   *)
(* worker reads whole messages as long as no sem_wait is interrupted, and  *)
(* that a client of the socket gets consecutive messages.                  *)
(***************************************************************************)
EXTENDS IpcServer, FiniteSetTheorems, TLAPS

ServerStates ==
    {"start", "shm created", "sem created", "accept", "queue", "socket",
     "sem_wait", "blocked", "copy front", "copy back", "sem_post", "sleep",
     "clean up", "unlink sem", "close", "ended", "killed", "killed holding"}
ReaderStates ==
    {"open shm", "open sem", "acquire", "read front", "read back",
     "release", "unpack", "crashed", "dead", "dead holding"}

\* TypeOK in four parts, one for each of the parties, and the bound on the ticks.
ServerTypes ==
    /\ spc \in ServerStates
    /\ seq \in 0 .. MaxTicks
    /\ running \in BOOLEAN
    /\ signals \in 0 .. MaxSignals
    /\ eintr \in Nat
ShmTypes == names \subseteq {"shm", "sem", "socket"} /\ sem \in Nat /\ shm \in Message
ReaderTypes == rpc \in [Readers -> ReaderStates] /\ copy \in [Readers -> Message]
QueueTypes == mq \in Seq(0 .. MaxTicks) /\ Len(mq) <= QueueMax
SocketTypes ==
    /\ backlog \in Seq(Peers)
    /\ clients \in [Slots -> Peers \cup {Nobody}]
    /\ peer \in [Peers -> {"idle", "open", "closed"}]
    /\ inbox \in [Peers -> Seq(0 .. MaxTicks)]
    /\ last \in [Peers -> 0 .. MaxTicks]
\* A tick starts only below the bound.
TickBound ==
    /\ spc \in {"start", "shm created", "sem created"} => seq = 0
    /\ spc = "accept" => seq < MaxTicks

TypeInv ==
    ServerTypes /\ ShmTypes /\ ReaderTypes /\ QueueTypes /\ SocketTypes /\ TickBound

\* The server has not made the semaphore: nobody has or can get a permit.
NotMade ==
    /\ sem = 0 /\ eintr = 0 /\ Holders = {} /\ ServerHolds = 0
    /\ "sem" \notin names
    /\ spc \in {"start", "shm created", "killed"}

\* The permits in the semaphore and with its holders are one and the stray ones.
Balanced == sem + Cardinality(Holders) + ServerHolds = 1 + eintr

PermitInv ==
    /\ NotMade \/ Balanced
    /\ spc \in {"start", "shm created"} => NotMade

\* Shared memory is half written only while the server copies.
ShmInv ==
    /\ spc \notin {"copy back", "killed holding"} => shm.front = shm.back
    /\ spc = "copy back" => shm.front = seq

\* What a reader has copied is whole, unless a sem_wait has been interrupted.
CopyInv ==
    eintr = 0 =>
      \A r \in Readers :
        /\ rpc[r] = "read back" => copy[r].front = shm.front
        /\ rpc[r] \in {"release", "unpack"} => copy[r].front = copy[r].back

IpcInv == TypeInv /\ PermitInv /\ ShmInv /\ CopyInv

-----------------------------------------------------------------------------
(* Types. *)

\* The sizes are natural numbers.
LEMMA Sizes ==
    /\ MaxClients \in Nat \ {0} /\ QueueMax \in Nat \ {0}
    /\ MaxTicks \in Nat \ {0} /\ MaxSignals \in Nat
  BY SizesAssumption

\* The parts are the type invariant.
LEMMA TypeParts == TypeInv => TypeOK
  BY DEF TypeInv, TypeOK, ServerTypes, ShmTypes, ReaderTypes, QueueTypes, SocketTypes,
         ServerStates, ReaderStates

\* The parts of a sequence that is not empty.
LEMMA SequenceParts ==
    ASSUME NEW S, NEW q \in Seq(S), q # <<>>
    PROVE  Head(q) \in S /\ Tail(q) \in Seq(S)
  OBVIOUS

\* A whole message is a message.
LEMMA WholeIsMessage == ASSUME NEW n \in 0 .. MaxTicks PROVE Whole(n) \in Message
  BY DEF Whole, Message

\* Half of a message can be replaced by a sequence number.
LEMMA HalfMessage ==
    ASSUME NEW m \in Message, NEW n \in 0 .. MaxTicks
    PROVE  /\ [m EXCEPT !.front = n] \in Message /\ [m EXCEPT !.back = n] \in Message
           /\ [m EXCEPT !.front = n].front = n /\ [m EXCEPT !.front = n].back = m.back
           /\ [m EXCEPT !.back = n].back = n /\ [m EXCEPT !.back = n].front = m.front
           /\ m.front \in 0 .. MaxTicks /\ m.back \in 0 .. MaxTicks
  BY DEF Message

\* The types hold at the start.
LEMMA TypeInit == Init => TypeInv
  <1> SUFFICES ASSUME Init PROVE TypeInv
    OBVIOUS
  <1>1. 0 \in 0 .. MaxTicks /\ 0 < MaxTicks
    BY Sizes
  <1>2. ServerTypes /\ TickBound
    <2>1. spc \in ServerStates /\ running \in BOOLEAN
      BY DEF Init, ServerStates
    <2>2. seq \in 0 .. MaxTicks /\ signals \in 0 .. MaxSignals /\ eintr \in Nat
      <3>1. seq = 0 /\ signals = MaxSignals /\ eintr = 0
        BY DEF Init
      <3> QED  BY <1>1, <3>1, Sizes
    <2>3. TickBound
      BY DEF Init, TickBound
    <2> QED  BY <2>1, <2>2, <2>3 DEF ServerTypes
  <1>3. ShmTypes /\ ReaderTypes
    BY <1>1, WholeIsMessage DEF Init, ShmTypes, ReaderTypes, ReaderStates
  <1>4. QueueTypes /\ SocketTypes
    <2>1. QueueTypes
      <3>1. mq = <<>>
        BY DEF Init
      <3> QED  BY <3>1, Sizes DEF QueueTypes
    <2>2. backlog \in Seq(Peers) /\ inbox \in [Peers -> Seq(0 .. MaxTicks)]
      <3>1. backlog = <<>> /\ inbox = [p \in Peers |-> <<>>]
        BY DEF Init
      <3>2. <<>> \in Seq(Peers) /\ <<>> \in Seq(0 .. MaxTicks)
        OBVIOUS
      <3> QED  BY <3>1, <3>2
    <2>3. /\ clients \in [Slots -> Peers \cup {Nobody}]
          /\ peer \in [Peers -> {"idle", "open", "closed"}]
      BY DEF Init
    <2>4. last \in [Peers -> 0 .. MaxTicks]
      BY <1>1 DEF Init
    <2> QED  BY <2>1, <2>2, <2>3, <2>4 DEF SocketTypes
  <1> QED  BY <1>2, <1>3, <1>4 DEF TypeInv

\* The steps of the server keep the types of its own state.
LEMMA ServerOwnTypes ==
    ASSUME TypeInv, Server
    PROVE  ServerTypes' /\ TickBound'
  <1>1. ServerTypes /\ TickBound
    BY DEF TypeInv
  <1>2. running' = running /\ signals' = signals /\ eintr' = eintr
    BY DEF Server, StartUp, Create, Accept, SendQueue, SendSockets, SemWait, SemBlock, CopyFront,
           CopyBack, SemPost, Sleep, CleanUp, Close, SrvUnchanged
  <1>3. CASE Accept
    <2>1. seq' = seq + 1 /\ seq < MaxTicks /\ spc' = "queue"
      BY <1>1, <1>3 DEF Accept, TickBound
    <2>2. seq' \in 0 .. MaxTicks
      BY <1>1, <2>1, Sizes DEF ServerTypes
    <2> QED  BY <1>1, <1>2, <2>1, <2>2 DEF ServerTypes, TickBound, ServerStates
  <1>4. CASE StartUp
    <2>1. /\ seq' = seq /\ seq = 0
          /\ spc' \in {"shm created", "sem created", "accept", "clean up"}
      BY <1>1, <1>4 DEF StartUp, Create, TickBound
    <2>2. TickBound'
      <3>1. 0 < MaxTicks
        BY Sizes
      <3> QED  BY <2>1, <3>1 DEF TickBound
    <2>3. spc' \in ServerStates
      BY <2>1 DEF ServerStates
    <2> QED  BY <1>1, <1>2, <2>1, <2>2, <2>3 DEF ServerTypes
  <1>5. CASE Sleep
    <2>1. /\ seq' = seq
          /\ (spc' = "accept" /\ seq < MaxTicks) \/ spc' = "clean up"
      BY <1>5 DEF Sleep
    <2> QED  BY <1>1, <1>2, <2>1 DEF ServerTypes, TickBound, ServerStates
  <1>6. CASE \/ SendQueue \/ SendSockets \/ SemWait \/ SemBlock \/ CopyFront \/ CopyBack
             \/ SemPost \/ CleanUp \/ Close
    <2>1. /\ seq' = seq
          /\ spc' \in {"socket", "sem_wait", "copy front", "blocked", "copy back", "sem_post",
                       "sleep", "unlink sem", "close", "ended"}
      BY <1>6 DEF SendQueue, SendSockets, SemWait, SemBlock, CopyFront, CopyBack, SemPost, CleanUp,
                  Close
    <2> QED  BY <1>1, <1>2, <2>1 DEF ServerTypes, TickBound, ServerStates
  <1> QED  BY <1>3, <1>4, <1>5, <1>6 DEF Server

\* The steps of the server keep the types of shared memory and leave the readers alone.
LEMMA ServerShmTypes ==
    ASSUME TypeInv, Server
    PROVE  ShmTypes' /\ ReaderTypes'
  <1>1. ServerTypes /\ ShmTypes /\ ReaderTypes
    BY DEF TypeInv
  <1>2. ReaderTypes'
    <2>1. rpc' = rpc /\ copy' = copy
      BY DEF Server, StartUp, Create, Accept, SendQueue, SendSockets, SemWait, SemBlock, CopyFront,
             CopyBack, SemPost, Sleep, CleanUp, Close, SrvUnchanged, readerVars
    <2> QED  BY <1>1, <2>1 DEF ReaderTypes
  <1>3. names' \subseteq {"shm", "sem", "socket"}
    <2>1. names \subseteq {"shm", "sem", "socket"}
      BY <1>1 DEF ShmTypes
    <2>2. \/ names' = names \/ names' \subseteq names
          \/ \E n \in {"shm", "sem", "socket"} : names' = names \cup {n}
      <3>1. CASE StartUp
        BY <3>1 DEF StartUp, Create
      <3>2. CASE CleanUp
        BY <3>2 DEF CleanUp
      <3>3. CASE Close
        BY <3>3 DEF Close
      <3>4. CASE ~(StartUp \/ CleanUp \/ Close)
        BY <3>4 DEF Server, Accept, SendQueue, SendSockets, SemWait, SemBlock, CopyFront,
                    CopyBack, SemPost, Sleep, shmVars
      <3> QED  BY <3>1, <3>2, <3>3, <3>4
    <2> QED  BY <2>1, <2>2
  <1>4. sem' \in Nat
    <2>1. sem \in Nat
      BY <1>1 DEF ShmTypes
    <2>2. \/ sem' = sem \/ sem' = 1 \/ sem' = sem + 1
          \/ sem > 0 /\ sem' = sem - 1
      <3>1. CASE StartUp
        BY <3>1 DEF StartUp, Create
      <3>2. CASE SemWait \/ SemPost
        BY <3>2 DEF SemWait, SemPost, SemFree, Post
      <3>3. CASE ~(StartUp \/ SemWait \/ SemPost)
        BY <3>3 DEF Server, Accept, SendQueue, SendSockets, SemBlock, CopyFront, CopyBack, Sleep,
                    CleanUp, Close, shmVars
      <3> QED  BY <3>1, <3>2, <3>3
    <2> QED  BY <2>1, <2>2
  <1>5. shm' \in Message
    <2>1. shm \in Message /\ seq \in 0 .. MaxTicks
      BY <1>1 DEF ShmTypes, ServerTypes
    <2>2. \/ shm' = shm
          \/ shm' = [shm EXCEPT !.front = seq]
          \/ shm' = [shm EXCEPT !.back = seq]
      BY DEF Server, StartUp, Create, Accept, SendQueue, SendSockets, SemWait, SemBlock, CopyFront,
             CopyBack, SemPost, Sleep, CleanUp, Close, shmVars
    <2> QED  BY <2>1, <2>2, HalfMessage
  <1> QED  BY <1>2, <1>3, <1>4, <1>5 DEF ShmTypes

\* Appending a tick to a queue makes a queue longer by one.
LEMMA QueueGrows ==
    ASSUME NEW T, NEW q \in Seq(T), NEW t \in T
    PROVE  /\ Append(q, t) \in Seq(T)
           /\ Len(Append(q, t)) = Len(q) + 1
           /\ Len(q) \in Nat
  <1>1. Append(q, t) \in Seq(T)
    OBVIOUS
  <1>2. Len(q) \in Nat
    OBVIOUS
  <1>3. Len(Append(q, t)) = Len(q) + 1
    OBVIOUS
  <1> QED  BY <1>1, <1>2, <1>3

\* The steps of the server keep the types of the queue and of the sockets.
LEMMA ServerSockTypes ==
    ASSUME TypeInv, Server
    PROVE  QueueTypes' /\ SocketTypes'
  <1>1. ServerTypes /\ QueueTypes /\ SocketTypes
    BY DEF TypeInv
  <1>2. CASE StartUp \/ SemWait \/ SemBlock \/ CopyFront \/ CopyBack \/ SemPost \/ Sleep \/ CleanUp
    BY <1>1, <1>2 DEF StartUp, Create, SemWait, SemBlock, CopyFront, CopyBack, SemPost, Sleep,
                      CleanUp, sockVars, QueueTypes, SocketTypes
  <1>3. CASE SendQueue
    <2>1. mq' \in Seq(0 .. MaxTicks) /\ Len(mq') <= QueueMax
      <3>1. mq \in Seq(0 .. MaxTicks) /\ seq \in 0 .. MaxTicks /\ Len(mq) <= QueueMax
        BY <1>1 DEF QueueTypes, ServerTypes
      <3>2. /\ Append(mq, seq) \in Seq(0 .. MaxTicks)
            /\ Len(Append(mq, seq)) = Len(mq) + 1 /\ Len(mq) \in Nat
        BY <3>1, QueueGrows
      <3>3. mq' = mq \/ (Len(mq) < QueueMax /\ mq' = Append(mq, seq))
        BY <1>3 DEF SendQueue
      <3>4. CASE mq' = mq
        BY <3>1, <3>4
      <3>5. CASE Len(mq) < QueueMax /\ mq' = Append(mq, seq)
        <4>1. Len(mq') = Len(mq) + 1 /\ mq' \in Seq(0 .. MaxTicks)
          BY <3>2, <3>5
        <4>2. QueueMax \in Int /\ Len(mq) \in Int
          BY <3>2, Sizes
        <4> QED  BY <3>5, <4>1, <4>2
      <3> QED  BY <3>3, <3>4, <3>5
    <2> QED  BY <1>1, <1>3, <2>1 DEF SendQueue, sockVars, QueueTypes, SocketTypes
  <1>4. CASE Accept
    <2>1. backlog' \in Seq(Peers) /\ clients' \in [Slots -> Peers \cup {Nobody}]
      <3>1. CASE backlog = <<>>
        BY <1>1, <1>4, <3>1 DEF Accept, SocketTypes
      <3>2. CASE backlog # <<>>
        <4>1. Head(backlog) \in Peers /\ Tail(backlog) \in Seq(Peers)
          BY <1>1, <3>2 DEF SocketTypes
        <4>2. \/ clients' = clients
              \/ \E i \in Room : clients' = [clients EXCEPT ![i] = Head(backlog)]
          BY <1>4, <3>2 DEF Accept
        <4>3. clients' \in [Slots -> Peers \cup {Nobody}]
          BY <1>1, <4>1, <4>2 DEF SocketTypes
        <4> QED  BY <1>4, <3>2, <4>1, <4>3 DEF Accept
      <3> QED  BY <3>1, <3>2
    <2> QED  BY <1>1, <1>4, <2>1 DEF Accept, QueueTypes, SocketTypes
  <1>5. CASE SendSockets
    <2>1. clients' \in [Slots -> Peers \cup {Nobody}]
      BY <1>1, <1>5 DEF SendSockets, ClientsAfterSend, SocketTypes
    <2>2. inbox' \in [Peers -> Seq(0 .. MaxTicks)]
      <3>1. \A p \in Peers : Append(inbox[p], seq) \in Seq(0 .. MaxTicks)
        BY <1>1 DEF SocketTypes, ServerTypes
      <3> QED  BY <1>1, <1>5, <3>1 DEF SendSockets, SocketTypes
    <2> QED  BY <1>1, <1>5, <2>1, <2>2 DEF SendSockets, QueueTypes, SocketTypes
  <1>6. CASE Close
    <2>1. backlog' \in Seq(Peers) /\ clients' \in [Slots -> Peers \cup {Nobody}]
      BY <1>6 DEF Close
    <2> QED  BY <1>1, <1>6, <2>1 DEF Close, QueueTypes, SocketTypes
  <1> QED  BY <1>2, <1>3, <1>4, <1>5, <1>6 DEF Server

\* A signal keeps the types.
LEMMA SignalTypes ==
    ASSUME TypeInv, Sigusr1 \/ Sigint
    PROVE  TypeInv'
  <1>1. ServerTypes /\ ShmTypes /\ ReaderTypes /\ QueueTypes /\ SocketTypes /\ TickBound
    BY DEF TypeInv
  <1>2. /\ spc' = spc \/ spc' \in {"copy front", "killed", "killed holding"}
        /\ eintr' = eintr \/ eintr' = eintr + 1
    BY DEF Sigusr1, Sigint, Interrupt
  <1>3. seq' = seq /\ signals' \in 0 .. MaxSignals
    <2>1. signals \in 0 .. MaxSignals
      BY <1>1 DEF ServerTypes
    <2>2. CASE Sigusr1
      BY <2>1, <2>2, Sizes DEF Sigusr1
    <2>3. CASE Sigint
      BY <2>1, <2>3 DEF Sigint
    <2> QED  BY <2>2, <2>3
  <1>4. running' \in BOOLEAN
    <2>1. running' = running \/ running' = FALSE
      BY DEF Sigusr1, Sigint
    <2> QED  BY <1>1, <2>1 DEF ServerTypes
  <1>5. ServerTypes' /\ TickBound'
    <2>1. spc' \in ServerStates /\ eintr' \in Nat
      <3>1. spc \in ServerStates /\ eintr \in Nat
        BY <1>1 DEF ServerTypes
      <3>2. spc' \in ServerStates
        BY <1>2, <3>1 DEF ServerStates
      <3>3. eintr' \in Nat
        <4>1. eintr' = eintr \/ eintr' = eintr + 1
          BY <1>2
        <4> QED  BY <3>1, <4>1
      <3> QED  BY <3>2, <3>3
    <2>2. TickBound'
      BY <1>1, <1>2, <1>3 DEF TickBound
    <2> QED  BY <1>1, <1>3, <1>4, <2>1, <2>2 DEF ServerTypes
  <1>6. ShmTypes' /\ ReaderTypes' /\ QueueTypes'
    BY <1>1 DEF Sigusr1, Sigint, shmVars, readerVars, ShmTypes, ReaderTypes, QueueTypes
  <1>7. SocketTypes'
    <2>1. \/ clients' = clients /\ backlog' = backlog
          \/ clients' = [i \in Slots |-> Nobody] /\ backlog' = <<>>
      BY DEF Sigusr1, Sigint, sockVars
    <2>2. UNCHANGED <<peer, inbox, last>>
      BY DEF Sigusr1, Sigint, sockVars
    <2>3. backlog' \in Seq(Peers) /\ clients' \in [Slots -> Peers \cup {Nobody}]
      <3>1. backlog \in Seq(Peers) /\ clients \in [Slots -> Peers \cup {Nobody}]
        BY <1>1 DEF SocketTypes
      <3>2. <<>> \in Seq(Peers) /\ [i \in Slots |-> Nobody] \in [Slots -> Peers \cup {Nobody}]
        OBVIOUS
      <3> QED  BY <2>1, <3>1, <3>2
    <2> QED  BY <1>1, <2>2, <2>3 DEF SocketTypes
  <1> QED  BY <1>5, <1>6, <1>7 DEF TypeInv

\* The steps of a reader keep the types.
LEMMA ReaderKeepsTypes ==
    ASSUME TypeInv, NEW r \in Readers, Reader(r) \/ ReaderDies(r)
    PROVE  TypeInv'
  <1>1. ServerTypes /\ ShmTypes /\ ReaderTypes /\ QueueTypes /\ SocketTypes /\ TickBound
    BY DEF TypeInv
  <1>2. ServerTypes' /\ QueueTypes' /\ SocketTypes' /\ TickBound'
    <2>1. UNCHANGED <<serverVars, signals, mq, sockVars>>
      BY DEF Reader, OpenShm, OpenSem, AcquireSem, ReadFront, ReadBack, ReleaseSem, Unpack,
             ReaderDies, ReaderUnchanged
    <2> QED  BY <1>1, <2>1 DEF serverVars, sockVars, ServerTypes, QueueTypes, SocketTypes, TickBound
  <1>3. rpc' \in [Readers -> ReaderStates]
    <2>1. \E s \in ReaderStates : rpc' = [rpc EXCEPT ![r] = s]
      BY DEF Reader, OpenShm, OpenSem, AcquireSem, ReadFront, ReadBack, ReleaseSem, Unpack,
             ReaderDies, ReaderStates
    <2> QED  BY <1>1, <2>1 DEF ReaderTypes
  <1>4. copy' \in [Readers -> Message]
    <2>1. copy[r] \in Message /\ shm \in Message
      BY <1>1 DEF ReaderTypes, ShmTypes
    <2>2. \/ copy' = copy
          \/ copy' = [copy EXCEPT ![r] = Whole(0)]
          \/ copy' = [copy EXCEPT ![r].front = shm.front]
          \/ copy' = [copy EXCEPT ![r].back = shm.back]
      BY DEF Reader, OpenShm, OpenSem, AcquireSem, ReadFront, ReadBack, ReleaseSem, Unpack,
             ReaderDies
    <2>3. Whole(0) \in Message
      BY WholeIsMessage, Sizes
    <2>4. /\ [copy[r] EXCEPT !.front = shm.front] \in Message
          /\ [copy[r] EXCEPT !.back = shm.back] \in Message
      <3>1. shm.front \in 0 .. MaxTicks /\ shm.back \in 0 .. MaxTicks
        BY <2>1 DEF Message
      <3> QED  BY <2>1, <3>1, HalfMessage
    <2> QED  BY <1>1, <2>2, <2>3, <2>4 DEF ReaderTypes
  <1>5. names' = names /\ shm' = shm /\ sem' \in Nat
    <2>1. sem \in Nat
      BY <1>1 DEF ShmTypes
    <2>2. sem' = sem \/ (sem > 0 /\ sem' = sem - 1) \/ sem' = sem + 1
      BY DEF Reader, OpenShm, OpenSem, AcquireSem, ReadFront, ReadBack, ReleaseSem, Unpack,
             ReaderDies, shmVars, SemFree, Post
    <2>3. names' = names /\ shm' = shm
      BY DEF Reader, OpenShm, OpenSem, AcquireSem, ReadFront, ReadBack, ReleaseSem, Unpack,
             ReaderDies, shmVars
    <2> QED  BY <2>1, <2>2, <2>3
  <1> QED  BY <1>1, <1>2, <1>3, <1>4, <1>5 DEF TypeInv, ShmTypes, ReaderTypes

\* The steps of the other workers of the GUI keep the types.
LEMMA WorkerKeepsTypes ==
    ASSUME TypeInv,
           ReceiveQueue \/ \E p \in Peers : Connect(p) \/ Disconnect(p) \/ ReceiveSocket(p)
    PROVE  TypeInv'
  <1>1. ServerTypes /\ ShmTypes /\ ReaderTypes /\ QueueTypes /\ SocketTypes /\ TickBound
    BY DEF TypeInv
  <1>2. ServerTypes' /\ ShmTypes' /\ ReaderTypes' /\ TickBound'
    <2>1. UNCHANGED <<serverVars, signals, shmVars, readerVars>>
      BY DEF ReceiveQueue, Connect, Disconnect, ReceiveSocket, OthersUnchanged
    <2> QED  BY <1>1, <2>1 DEF serverVars, shmVars, readerVars, ServerTypes, ShmTypes, ReaderTypes,
                               TickBound
  <1>3. CASE ReceiveQueue
    <2>1. mq' \in Seq(0 .. MaxTicks) /\ Len(mq') <= QueueMax
      <3>1. mq \in Seq(0 .. MaxTicks) /\ mq # <<>> /\ mq' = Tail(mq) /\ Len(mq) <= QueueMax
        BY <1>1, <1>3 DEF ReceiveQueue, QueueTypes
      <3>2. Len(Tail(mq)) = Len(mq) - 1 /\ Tail(mq) \in Seq(0 .. MaxTicks) /\ Len(mq) \in Nat
        BY <3>1
      <3> QED  BY <3>1, <3>2, Sizes
    <2>2. SocketTypes'
      BY <1>1, <1>3 DEF ReceiveQueue, sockVars, SocketTypes
    <2> QED  BY <1>2, <2>1, <2>2 DEF TypeInv, QueueTypes
  <1>4. CASE \E p \in Peers : Connect(p) \/ Disconnect(p) \/ ReceiveSocket(p)
    <2>1. PICK p \in Peers : Connect(p) \/ Disconnect(p) \/ ReceiveSocket(p)
      BY <1>4
    <2>2. CASE Connect(p)
      BY <1>1, <1>2, <2>2 DEF TypeInv, Connect, QueueTypes, SocketTypes
    <2>3. CASE Disconnect(p)
      <3>1. 0 \in 0 .. MaxTicks
        BY Sizes
      <3> QED  BY <1>1, <1>2, <2>3, <3>1 DEF TypeInv, Disconnect, QueueTypes, SocketTypes
    <2>4. CASE ReceiveSocket(p)
      <3>1. /\ inbox[p] \in Seq(0 .. MaxTicks) /\ inbox[p] # <<>>
        BY <1>1, <2>4 DEF ReceiveSocket, SocketTypes
      <3>2. Head(inbox[p]) \in 0 .. MaxTicks /\ Tail(inbox[p]) \in Seq(0 .. MaxTicks)
        BY <3>1, SequenceParts
      <3> QED  BY <1>1, <1>2, <2>4, <3>2 DEF TypeInv, ReceiveSocket, QueueTypes, SocketTypes
    <2> QED  BY <2>1, <2>2, <2>3, <2>4
  <1> QED  BY <1>3, <1>4

\* Every step keeps the types.
LEMMA TypeStep == TypeInv /\ [Next]_vars => TypeInv'
  <1> SUFFICES ASSUME TypeInv, [Next]_vars PROVE TypeInv'
    OBVIOUS
  <1>1. CASE Server
    BY <1>1, ServerOwnTypes, ServerShmTypes, ServerSockTypes DEF TypeInv
  <1>2. CASE Sigusr1 \/ Sigint
    BY <1>2, SignalTypes
  <1>3. CASE \E r \in Readers : Reader(r) \/ ReaderDies(r)
    BY <1>3, ReaderKeepsTypes
  <1>4. CASE ReceiveQueue \/ \E p \in Peers : Connect(p) \/ Disconnect(p) \/ ReceiveSocket(p)
    BY <1>4, WorkerKeepsTypes
  <1>5. CASE UNCHANGED vars
    BY <1>5 DEF TypeInv, ServerTypes, ShmTypes, ReaderTypes, QueueTypes, SocketTypes, TickBound,
                vars, serverVars, shmVars, sockVars, readerVars
  <1> QED  BY <1>1, <1>2, <1>3, <1>4, <1>5 DEF Next, Quiet

\* TypeOK: the queue never holds more than mq_maxmsg messages, the semaphore is never
\* negative, for any number of readers and clients.
THEOREM TypeCorrect == Spec => []TypeOK
  <1>1. Spec => []TypeInv
    BY TypeInit, TypeStep, PTL DEF Spec
  <1> QED  BY <1>1, TypeParts, PTL

-----------------------------------------------------------------------------
(* The semaphore. *)

\* The readers that hold the semaphore can be counted.
LEMMA CountHolders ==
    /\ IsFiniteSet(Holders) /\ Cardinality(Holders) \in Nat
    /\ Cardinality(Holders) = 0 <=> Holders = {}
  <1>1. Holders \subseteq Readers
    BY DEF Holders
  <1>2. IsFiniteSet(Holders)
    BY <1>1, ReadersAssumption, FS_Subset
  <1> QED  BY <1>2, FS_CardinalityType, FS_EmptySet

\* The server counts for at most one.
LEMMA ServerHoldsType == ServerHolds \in {0, 1} /\ ServerHolds' \in {0, 1}
  BY DEF ServerHolds

\* A permit that is taken, given back or stray moves between the terms of the sum.
LEMMA Move ==
    ASSUME NEW s \in Nat, NEW c \in Nat, NEW h \in {0, 1}, NEW e \in Nat, s + c + h = 1 + e
    PROVE  /\ (s - 1) + (c + 1) + h = 1 + e
           /\ (s + 1) + (c - 1) + h = 1 + e
           /\ h = 0 => (s - 1) + c + 1 = 1 + e /\ s + c + 1 = 1 + (e + 1)
           /\ h = 1 => (s + 1) + c + 0 = 1 + e
  OBVIOUS

\* The server has made the semaphore if there is or has been a permit.
LEMMA Made ==
    ASSUME PermitInv, \/ sem # 0 \/ Holders # {} \/ ServerHolds # 0
                      \/ spc \notin {"start", "shm created", "killed"}
    PROVE  Balanced /\ ~NotMade /\ spc \notin {"start", "shm created"}
  BY DEF PermitInv, NotMade

\* What a step of a reader does to the semaphore and to those who hold it.
LEMMA ReaderPermits ==
    ASSUME TypeInv, NEW r \in Readers, Reader(r) \/ ReaderDies(r)
    PROVE  \/ sem' = sem /\ Holders' = Holders
           \/ sem > 0 /\ sem' = sem - 1 /\ r \notin Holders /\ Holders' = Holders \cup {r}
           \/ sem' = sem + 1 /\ r \in Holders /\ Holders' = Holders \ {r}
  <1>1. rpc \in [Readers -> ReaderStates]
    BY DEF TypeInv, ReaderTypes
  <1>2. ASSUME NEW s, rpc' = [rpc EXCEPT ![r] = s]
        PROVE  Holders' = IF s \in Holding \cup {"dead holding"}
                            THEN Holders \cup {r} ELSE Holders \ {r}
    BY <1>1, <1>2 DEF Holders, Holding
  <1>3. CASE OpenShm(r) \/ OpenSem(r) \/ ReadFront(r) \/ ReadBack(r) \/ Unpack(r) \/ ReaderDies(r)
    <2>1. sem' = sem
      BY <1>3 DEF OpenShm, OpenSem, ReadFront, ReadBack, Unpack, ReaderDies, shmVars
    <2>2. Holders' = Holders
      <3>1. CASE OpenShm(r) \/ OpenSem(r) \/ Unpack(r)
        <4>1. \E s \in {"open sem", "acquire", "crashed"} : rpc' = [rpc EXCEPT ![r] = s]
          BY <3>1 DEF OpenShm, OpenSem, Unpack
        <4>2. r \notin Holders
          BY <3>1 DEF OpenShm, OpenSem, Unpack, Holders, Holding
        <4> QED  BY <4>1, <4>2, <1>2 DEF Holding
      <3>2. CASE ReadFront(r) \/ ReadBack(r)
        <4>1. \E s \in {"read back", "release"} : rpc' = [rpc EXCEPT ![r] = s]
          BY <3>2 DEF ReadFront, ReadBack
        <4>2. r \in Holders
          BY <3>2 DEF ReadFront, ReadBack, Holders, Holding
        <4> QED  BY <4>1, <4>2, <1>2 DEF Holding
      <3>3. CASE ReaderDies(r)
        <4>1. CASE rpc[r] \in Holding
          <5>1. rpc' = [rpc EXCEPT ![r] = "dead holding"] /\ r \in Holders
            BY <3>3, <4>1 DEF ReaderDies, Holders
          <5> QED  BY <5>1, <1>2
        <4>2. CASE rpc[r] \notin Holding
          <5>1. rpc' = [rpc EXCEPT ![r] = "dead"] /\ r \notin Holders
            BY <3>3, <4>2 DEF ReaderDies, Holders
          <5>2. "dead" \notin Holding \cup {"dead holding"}
            BY DEF Holding
          <5>3. Holders' = Holders \ {r}
            BY <5>1, <5>2, <1>2
          <5> QED  BY <5>1, <5>3
        <4> QED  BY <4>1, <4>2
      <3> QED  BY <1>3, <3>1, <3>2, <3>3
    <2> QED  BY <2>1, <2>2
  <1>4. CASE AcquireSem(r)
    <2>1. r \notin Holders
      BY <1>4 DEF AcquireSem, Holders, Holding
    <2>2. rpc' = [rpc EXCEPT ![r] = "read front"] /\ sem > 0 /\ sem' = sem - 1
      BY <1>4 DEF AcquireSem, SemFree
    <2> QED  BY <2>1, <2>2, <1>2 DEF Holding
  <1>5. CASE ReleaseSem(r)
    <2>1. r \in Holders
      BY <1>5 DEF ReleaseSem, Holders, Holding
    <2>2. rpc' = [rpc EXCEPT ![r] = "unpack"] /\ sem' = sem + 1
      BY <1>5 DEF ReleaseSem, Post
    <2>3. "unpack" \notin Holding \cup {"dead holding"}
      BY DEF Holding
    <2>4. Holders' = Holders \ {r}
      BY <2>2, <2>3, <1>2
    <2> QED  BY <2>1, <2>2, <2>4
  <1> QED  BY <1>3, <1>4, <1>5 DEF Reader

\* A step of a reader keeps the count.
LEMMA ReaderKeepsPermits ==
    ASSUME TypeInv, PermitInv, NEW r \in Readers, Reader(r) \/ ReaderDies(r)
    PROVE  PermitInv'
  <1>1. UNCHANGED <<spc, eintr, names>>
    BY DEF Reader, OpenShm, OpenSem, AcquireSem, ReadFront, ReadBack, ReleaseSem, Unpack,
           ReaderDies, ReaderUnchanged, serverVars, shmVars
  <1>2. ServerHolds' = ServerHolds /\ ServerHolds \in {0, 1}
    BY <1>1 DEF ServerHolds, Copying
  <1>3. sem \in Nat /\ eintr \in Nat
    BY DEF TypeInv, ShmTypes, ServerTypes
  <1>4. CASE sem' = sem /\ Holders' = Holders
    BY <1>1, <1>2, <1>4 DEF PermitInv, NotMade, Balanced
  <1>5. CASE sem > 0 /\ sem' = sem - 1 /\ r \notin Holders /\ Holders' = Holders \cup {r}
    <2>1. Balanced /\ spc \notin {"start", "shm created"}
      <3>1. sem # 0 \/ Holders # {}
        BY <1>3, <1>5
      <3> QED  BY <3>1, Made
    <2>2. Cardinality(Holders') = Cardinality(Holders) + 1
      BY <1>5, CountHolders, FS_AddElement
    <2>3. sem + Cardinality(Holders) + ServerHolds = 1 + eintr
      BY <2>1 DEF Balanced
    <2>4. (sem - 1) + (Cardinality(Holders) + 1) + ServerHolds = 1 + eintr
      BY <2>3, <1>3, CountHolders, ServerHoldsType, Move
    <2>5. Balanced'
      BY <1>1, <1>2, <1>5, <2>2, <2>4 DEF Balanced
    <2> QED  BY <1>1, <2>1, <2>5 DEF PermitInv
  <1>6. CASE sem' = sem + 1 /\ r \in Holders /\ Holders' = Holders \ {r}
    <2>1. Balanced /\ spc \notin {"start", "shm created"}
      <3>1. sem # 0 \/ Holders # {}
        BY <1>3, <1>6
      <3> QED  BY <3>1, Made
    <2>2. Cardinality(Holders') = Cardinality(Holders) - 1
      BY <1>6, CountHolders, FS_RemoveElement
    <2>3. sem + Cardinality(Holders) + ServerHolds = 1 + eintr
      BY <2>1 DEF Balanced
    <2>4. (sem + 1) + (Cardinality(Holders) - 1) + ServerHolds = 1 + eintr
      BY <2>3, <1>3, CountHolders, ServerHoldsType, Move
    <2>5. Balanced'
      BY <1>1, <1>2, <1>6, <2>2, <2>4 DEF Balanced
    <2> QED  BY <1>1, <2>1, <2>5 DEF PermitInv
  <1> QED  BY <1>4, <1>5, <1>6, ReaderPermits

\* A step of the server keeps the count.
LEMMA ServerKeepsPermits ==
    ASSUME TypeInv, PermitInv, Server
    PROVE  PermitInv'
  <1>1. Holders' = Holders /\ eintr' = eintr
    BY DEF Server, StartUp, Create, Accept, SendQueue, SendSockets, SemWait, SemBlock, CopyFront,
           CopyBack, SemPost, Sleep, CleanUp, Close, SrvUnchanged, readerVars, Holders
  <1>2. sem \in Nat /\ eintr \in Nat /\ Cardinality(Holders) \in Nat
    BY CountHolders DEF TypeInv, ShmTypes, ServerTypes
  <1>3. CASE StartUp
    <2>1. CASE spc = "start"
      BY <1>1, <1>3, <2>1 DEF StartUp, Create, PermitInv, NotMade, ServerHolds, Copying
    <2>2. CASE spc = "shm created"
      <3>1. sem' = 1 /\ spc' = "sem created"
        BY <1>3, <2>2 DEF StartUp, Create
      <3>2. eintr = 0 /\ Cardinality(Holders) = 0
        BY <2>2, CountHolders DEF PermitInv, NotMade
      <3>3. ServerHolds' = 0
        BY <3>1 DEF ServerHolds, Copying
      <3>4. Cardinality(Holders') = 0 /\ eintr' = 0
        BY <1>1, <3>2
      <3>5. Balanced'
        <4>1. sem' + Cardinality(Holders') + ServerHolds' = 1 + eintr'
          <5>1. 1 + 0 + 0 = 1 + 0
            OBVIOUS
          <5> QED  BY <3>1, <3>3, <3>4, <5>1, Zenon
        <4> QED  BY <4>1 DEF Balanced
      <3>6. spc' \notin {"start", "shm created"}
        BY <3>1
      <3> QED  BY <3>5, <3>6 DEF PermitInv
    <2>3. CASE spc = "sem created"
      <3>1. sem' = sem /\ spc' \in {"accept", "clean up"}
        BY <1>3, <2>3 DEF StartUp, Create
      <3>2. ServerHolds' = ServerHolds
        BY <2>3, <3>1 DEF ServerHolds, Copying
      <3> QED  BY <1>1, <2>3, <3>1, <3>2 DEF PermitInv, Balanced, NotMade
    <2> QED  BY <1>3, <2>1, <2>2, <2>3 DEF StartUp, Create
  <1>4. CASE SemWait
    <2>1. sem' = sem - 1 /\ spc \in {"sem_wait", "blocked"} /\ spc' = "copy front"
      BY <1>4 DEF SemWait
    <2>2. ServerHolds = 0 /\ ServerHolds' = 1
      BY <2>1 DEF ServerHolds, Copying
    <2>3. Balanced
      BY <2>1, Made
    <2>4. sem + Cardinality(Holders) + ServerHolds = 1 + eintr
      BY <2>3 DEF Balanced
    <2>5. (sem - 1) + Cardinality(Holders) + 1 = 1 + eintr
      BY <1>2, <2>2, <2>4, Move
    <2>6. Balanced'
      BY <1>1, <2>1, <2>2, <2>5 DEF Balanced
    <2> QED  BY <2>1, <2>6 DEF PermitInv
  <1>5. CASE SemPost
    <2>1. sem' = sem + 1 /\ spc = "sem_post" /\ spc' = "sleep"
      BY <1>5 DEF SemPost, Post
    <2>2. ServerHolds = 1 /\ ServerHolds' = 0
      BY <2>1 DEF ServerHolds, Copying
    <2>3. Balanced
      BY <2>1, Made
    <2>4. sem + Cardinality(Holders) + ServerHolds = 1 + eintr
      BY <2>3 DEF Balanced
    <2>5. (sem + 1) + Cardinality(Holders) + 0 = 1 + eintr
      BY <1>2, <2>2, <2>4, Move
    <2>6. Balanced'
      BY <1>1, <2>1, <2>2, <2>5 DEF Balanced
    <2> QED  BY <2>1, <2>6 DEF PermitInv
  <1>6. CASE \/ CopyFront \/ CopyBack \/ Accept \/ SendQueue \/ SendSockets \/ SemBlock \/ Sleep
             \/ CleanUp \/ Close
    <2>1. sem' = sem
      BY <1>6 DEF CopyFront, CopyBack, Accept, SendQueue, SendSockets, SemBlock, Sleep, CleanUp,
                  Close, shmVars
    <2>2. ServerHolds' = ServerHolds
      BY <1>6 DEF CopyFront, CopyBack, Accept, SendQueue, SendSockets, SemBlock, Sleep, CleanUp,
                  Close, ServerHolds, Copying
    <2>3. spc \notin {"start", "shm created", "killed"} /\ spc' \notin {"start", "shm created"}
      BY <1>6 DEF CopyFront, CopyBack, Accept, SendQueue, SendSockets, SemBlock, Sleep, CleanUp,
                  Close
    <2> QED  BY <1>1, <2>1, <2>2, <2>3 DEF PermitInv, Balanced, NotMade
  <1> QED  BY <1>3, <1>4, <1>5, <1>6 DEF Server

\* A signal keeps the count: the copy without a permit is paid for by eintr.
LEMMA SignalKeepsPermits ==
    ASSUME TypeInv, PermitInv, Sigusr1 \/ Sigint
    PROVE  PermitInv'
  <1>1. Holders' = Holders /\ sem' = sem /\ names' = names
    BY DEF Sigusr1, Sigint, shmVars, readerVars, Holders
  <1>2. sem \in Nat /\ eintr \in Nat /\ Cardinality(Holders) \in Nat
    BY CountHolders DEF TypeInv, ShmTypes, ServerTypes
  <1>3. CASE Interrupt
    <2>1. CASE spc = "blocked"
      <3>1. spc' = "copy front" /\ eintr' = eintr + 1
        BY <1>3, <2>1 DEF Interrupt
      <3>2. ServerHolds = 0 /\ ServerHolds' = 1
        BY <2>1, <3>1 DEF ServerHolds, Copying
      <3>3. Balanced
        BY <2>1, Made
      <3>4. sem + Cardinality(Holders) + ServerHolds = 1 + eintr
        BY <3>3 DEF Balanced
      <3>5. sem + Cardinality(Holders) + 1 = 1 + (eintr + 1)
        BY <1>2, <3>2, <3>4, Move
      <3>6. Balanced'
        BY <1>1, <3>1, <3>2, <3>5 DEF Balanced
      <3> QED  BY <3>1, <3>6 DEF PermitInv
    <2>2. CASE spc # "blocked"
      <3>1. spc' = spc /\ eintr' = eintr
        BY <1>3, <2>2 DEF Interrupt
      <3>2. ServerHolds' = ServerHolds
        BY <3>1 DEF ServerHolds, Copying
      <3> QED  BY <1>1, <3>1, <3>2 DEF PermitInv, Balanced, NotMade
    <2> QED  BY <2>1, <2>2
  <1>4. CASE /\ spc' = IF Copying THEN "killed holding" ELSE "killed"
             /\ Alive /\ eintr' = eintr
    <2>1. ServerHolds' = ServerHolds
      BY <1>4 DEF ServerHolds, Copying, Alive
    <2>2. CASE NotMade
      <3>1. spc' = "killed"
        BY <1>4, <2>2 DEF NotMade, Copying
      <3> QED  BY <1>1, <1>4, <2>1, <2>2, <3>1 DEF PermitInv, NotMade
    <2>3. CASE ~NotMade
      <3>1. spc' \notin {"start", "shm created"}
        BY <1>4
      <3> QED  BY <1>1, <1>4, <2>1, <2>3, <3>1 DEF PermitInv, Balanced
    <2> QED  BY <2>2, <2>3
  <1>5. CASE Sigusr1
    BY <1>3, <1>5 DEF Sigusr1
  <1>6. CASE Sigint
    BY <1>3, <1>4, <1>6 DEF Sigint
  <1> QED  BY <1>5, <1>6

\* Every step keeps the count.
LEMMA PermitStep == TypeInv /\ PermitInv /\ [Next]_vars => PermitInv'
  <1> SUFFICES ASSUME TypeInv, PermitInv, [Next]_vars PROVE PermitInv'
    OBVIOUS
  <1>1. CASE Server
    BY <1>1, ServerKeepsPermits
  <1>2. CASE Sigusr1 \/ Sigint
    BY <1>2, SignalKeepsPermits
  <1>3. CASE \E r \in Readers : Reader(r) \/ ReaderDies(r)
    BY <1>3, ReaderKeepsPermits
  <1>4. CASE \/ UNCHANGED vars
             \/ ReceiveQueue \/ \E p \in Peers : Connect(p) \/ Disconnect(p) \/ ReceiveSocket(p)
    <2>1. UNCHANGED <<spc, eintr, names, sem, rpc>>
      BY <1>4 DEF ReceiveQueue, Connect, Disconnect, ReceiveSocket, OthersUnchanged,
                  vars, serverVars, shmVars, readerVars
    <2> QED  BY <2>1 DEF PermitInv, NotMade, Balanced, Holders, ServerHolds, Copying
  <1> QED  BY <1>1, <1>2, <1>3, <1>4 DEF Next, Quiet

-----------------------------------------------------------------------------
(* Whole messages. *)

\* While the server has not been interrupted, it and a reader exclude each other.
LEMMA Exclusion ==
    ASSUME TypeInv, PermitInv, eintr = 0, Holders # {}
    PROVE  ServerHolds = 0 /\ spc \notin {"copy front", "copy back", "sem_post", "killed holding"}
  <1>1. Balanced
    BY DEF PermitInv, NotMade
  <1>2. sem \in Nat /\ Cardinality(Holders) \in Nat /\ Cardinality(Holders) # 0
    BY CountHolders DEF TypeInv, ShmTypes
  <1>3. ServerHolds \in {0, 1}
    BY DEF ServerHolds
  <1>4. ServerHolds = 0
    BY <1>1, <1>2, <1>3 DEF Balanced
  <1>5. ~(Copying \/ spc = "killed holding")
    <2>1. Copying \/ spc = "killed holding" => ServerHolds = 1
      BY DEF ServerHolds
    <2>2. ServerHolds # 1
      BY <1>4
    <2> QED  BY <2>1, <2>2, Zenon
  <1> QED  BY <1>4, <1>5 DEF Copying

\* Only the copy of the server changes shared memory, and it ends whole.
LEMMA ShmStep == TypeInv /\ ShmInv /\ [Next]_vars => ShmInv'
  <1> SUFFICES ASSUME TypeInv, ShmInv, [Next]_vars PROVE ShmInv'
    OBVIOUS
  <1>1. shm \in Message /\ seq \in 0 .. MaxTicks
    BY DEF TypeInv, ShmTypes, ServerTypes
  <1>2. CASE CopyFront
    <2>1. spc' = "copy back" /\ seq' = seq /\ shm' = [shm EXCEPT !.front = seq]
      BY <1>2 DEF CopyFront
    <2> QED  BY <1>1, <2>1, HalfMessage DEF ShmInv
  <1>3. CASE CopyBack
    <2>1. spc = "copy back" /\ spc' = "sem_post" /\ shm' = [shm EXCEPT !.back = seq]
      BY <1>3 DEF CopyBack
    <2>2. shm'.back = seq /\ shm'.front = shm.front
      BY <1>1, <2>1, HalfMessage
    <2> QED  BY <2>1, <2>2 DEF ShmInv
  <1>4. CASE Server /\ ~CopyFront /\ ~CopyBack
    <2>1. shm' = shm /\ spc \notin {"copy back", "killed holding"} /\ spc' # "copy back"
      <3>1. CASE StartUp
        BY <3>1 DEF StartUp, Create
      <3>2. CASE ~StartUp
        BY <1>4, <3>2 DEF Server, Accept, SendQueue, SendSockets, SemWait, SemBlock, SemPost, Sleep,
                          CleanUp, Close, shmVars
      <3> QED  BY <3>1, <3>2
    <2> QED  BY <2>1 DEF ShmInv
  <1>5. CASE Sigusr1 \/ Sigint
    <2>1. /\ shm' = shm /\ seq' = seq
          /\ \/ spc' = spc
             \/ spc = "blocked" /\ spc' = "copy front"
             \/ spc' = IF Copying THEN "killed holding" ELSE "killed"
      BY <1>5 DEF Sigusr1, Sigint, Interrupt, shmVars
    <2>2. spc' = spc \/ (spc # "copy back" /\ spc' # "copy back") \/ spc' = "killed holding"
      BY <2>1 DEF Copying
    <2>3. spc = "copy back" => spc' \in {"copy back", "killed holding"}
      BY <2>1 DEF Copying
    <2>4. spc = "killed holding" => spc' = "killed holding"
      BY <1>5 DEF Sigusr1, Sigint, Alive
    <2> QED  BY <2>1, <2>2, <2>3, <2>4 DEF ShmInv
  <1>6. CASE \/ UNCHANGED vars
             \/ \E r \in Readers : Reader(r) \/ ReaderDies(r)
             \/ ReceiveQueue \/ \E p \in Peers : Connect(p) \/ Disconnect(p) \/ ReceiveSocket(p)
    <2>1. UNCHANGED <<spc, seq, shm>>
      BY <1>6 DEF Reader, OpenShm, OpenSem, AcquireSem, ReadFront, ReadBack, ReleaseSem, Unpack,
                  ReaderDies, ReaderUnchanged, ReceiveQueue, Connect, Disconnect, ReceiveSocket,
                  OthersUnchanged, vars, serverVars, shmVars
    <2> QED  BY <2>1 DEF ShmInv
  <1> QED  BY <1>2, <1>3, <1>4, <1>5, <1>6 DEF Next, Quiet

\* A step of a reader keeps what it and the others have copied whole.
LEMMA ReaderKeepsCopies ==
    ASSUME TypeInv, PermitInv, ShmInv, CopyInv, NEW r \in Readers, Reader(r) \/ ReaderDies(r)
    PROVE  CopyInv'
  <1>1. /\ UNCHANGED <<eintr, shm>>
        /\ rpc \in [Readers -> ReaderStates] /\ copy \in [Readers -> Message] /\ shm \in Message
    BY DEF TypeInv, ShmTypes, ReaderTypes, Reader, OpenShm, OpenSem, AcquireSem, ReadFront, ReadBack,
           ReleaseSem, Unpack, ReaderDies, ReaderUnchanged, serverVars, shmVars
  <1> SUFFICES ASSUME eintr = 0, NEW q \in Readers
               PROVE  /\ rpc'[q] = "read back" => copy'[q].front = shm.front
                      /\ rpc'[q] \in {"release", "unpack"} => copy'[q].front = copy'[q].back
    BY <1>1 DEF CopyInv
  <1>2. /\ rpc[q] = "read back" => copy[q].front = shm.front
        /\ rpc[q] \in {"release", "unpack"} => copy[q].front = copy[q].back
    BY DEF CopyInv
  <1>3. CASE q # r
    <2>1. rpc'[q] = rpc[q] /\ copy'[q] = copy[q]
      BY <1>1, <1>3 DEF Reader, OpenShm, OpenSem, AcquireSem, ReadFront, ReadBack, ReleaseSem,
                        Unpack, ReaderDies
    <2> QED  BY <1>2, <2>1
  <1>4. CASE q = r /\ ReadFront(r)
    <2>1. rpc'[q] = "read back" /\ copy'[q] = [copy[q] EXCEPT !.front = shm.front]
      BY <1>1, <1>4 DEF ReadFront
    <2>2. copy[q] \in Message /\ shm.front \in 0 .. MaxTicks
      BY <1>1, HalfMessage, Sizes DEF Message
    <2>3. [copy[q] EXCEPT !.front = shm.front].front = shm.front
      BY <2>2, HalfMessage
    <2> QED  BY <2>1, <2>3
  <1>5. CASE q = r /\ ReadBack(r)
    <2>1. rpc[q] = "read back" /\ rpc'[q] = "release"
          /\ copy'[q] = [copy[q] EXCEPT !.back = shm.back]
      BY <1>1, <1>5 DEF ReadBack
    <2>2. copy[q] \in Message /\ shm.back \in 0 .. MaxTicks
      BY <1>1, HalfMessage, Sizes DEF Message
    <2>3. copy'[q].back = shm.back /\ copy'[q].front = copy[q].front
      <3>1. /\ [copy[q] EXCEPT !.back = shm.back].back = shm.back
            /\ [copy[q] EXCEPT !.back = shm.back].front = copy[q].front
        BY <2>2, HalfMessage
      <3> QED  BY <2>1, <3>1
    <2>4. q \in Holders
      BY <2>1 DEF Holders, Holding
    <2>5. shm.front = shm.back
      BY <2>4, Exclusion DEF ShmInv
    <2> QED  BY <1>2, <2>1, <2>3, <2>5
  <1>6. CASE q = r /\ ReleaseSem(r)
    BY <1>1, <1>2, <1>6 DEF ReleaseSem
  <1>7. CASE q = r /\ (OpenShm(r) \/ OpenSem(r) \/ AcquireSem(r) \/ Unpack(r) \/ ReaderDies(r))
    <2>1. rpc'[q] \in {"open sem", "acquire", "crashed", "read front", "dead", "dead holding"}
      BY <1>1, <1>7 DEF OpenShm, OpenSem, AcquireSem, Unpack, ReaderDies
    <2> QED  BY <2>1
  <1> QED  BY <1>3, <1>4, <1>5, <1>6, <1>7 DEF Reader

\* Every step keeps the copies whole.
LEMMA CopyStep == TypeInv /\ PermitInv /\ ShmInv /\ CopyInv /\ [Next]_vars => CopyInv'
  <1> SUFFICES ASSUME TypeInv, PermitInv, ShmInv, CopyInv, [Next]_vars PROVE CopyInv'
    OBVIOUS
  <1>1. CASE \E r \in Readers : Reader(r) \/ ReaderDies(r)
    BY <1>1, ReaderKeepsCopies
  <1>2. CASE CopyFront \/ CopyBack
    <2>1. UNCHANGED <<eintr, rpc, copy>> /\ spc \in {"copy front", "copy back"}
      BY <1>2 DEF CopyFront, CopyBack, SrvUnchanged, readerVars
    <2>2. eintr = 0 => Holders = {}
      BY <2>1, Exclusion
    <2>3. eintr = 0 => \A r \in Readers : rpc[r] # "read back"
      BY <2>2 DEF Holders, Holding
    <2> QED  BY <2>1, <2>3 DEF CopyInv
  <1>3. CASE Server /\ ~CopyFront /\ ~CopyBack
    <2>1. UNCHANGED <<eintr, rpc, copy, shm>>
      <3>1. CASE StartUp
        BY <3>1 DEF StartUp, Create, SrvUnchanged, readerVars
      <3>2. CASE ~StartUp
        BY <1>3, <3>2 DEF Server, Accept, SendQueue, SendSockets, SemWait, SemBlock, SemPost, Sleep,
                          CleanUp, Close, shmVars, SrvUnchanged, readerVars
      <3> QED  BY <3>1, <3>2
    <2> QED  BY <2>1 DEF CopyInv
  <1>4. CASE Sigusr1 \/ Sigint
    <2>1. UNCHANGED <<rpc, copy, shm>> /\ (eintr' = eintr \/ eintr' = eintr + 1)
      BY <1>4 DEF Sigusr1, Sigint, Interrupt, shmVars, readerVars
    <2>2. eintr \in Nat
      BY DEF TypeInv, ServerTypes
    <2>3. eintr' = 0 => eintr = 0
      BY <2>1, <2>2
    <2> QED  BY <2>1, <2>3 DEF CopyInv
  <1>5. CASE \/ UNCHANGED vars
             \/ ReceiveQueue \/ \E p \in Peers : Connect(p) \/ Disconnect(p) \/ ReceiveSocket(p)
    <2>1. UNCHANGED <<eintr, rpc, copy, shm>>
      BY <1>5 DEF ReceiveQueue, Connect, Disconnect, ReceiveSocket, OthersUnchanged,
                  vars, serverVars, shmVars, readerVars
    <2> QED  BY <2>1 DEF CopyInv
  <1> QED  BY <1>1, <1>2, <1>3, <1>4, <1>5 DEF Next, Quiet, Server

\* The invariant holds at the start.
LEMMA InvInit == Init => IpcInv
  <1> SUFFICES ASSUME Init PROVE PermitInv /\ ShmInv /\ CopyInv
    BY TypeInit DEF IpcInv
  <1>1. Holders = {}
    BY DEF Init, Holders, Holding
  <1>2. PermitInv
    BY <1>1 DEF Init, PermitInv, NotMade, ServerHolds, Copying
  <1>3. ShmInv /\ CopyInv
    BY DEF Init, ShmInv, CopyInv, Whole
  <1> QED  BY <1>2, <1>3

\* The types, the count of the permits and the wholeness of shared memory and of the
\* copies hold together in every state.
THEOREM IpcInvariant == Spec => []IpcInv
  <1>1. IpcInv /\ [Next]_vars => IpcInv'
    BY TypeStep, PermitStep, ShmStep, CopyStep DEF IpcInv
  <1> QED  BY <1>1, InvInit, PTL DEF Spec

\* EachEintrAddsAPermit: with any number of readers, killed at any time, the permits
\* of the semaphore and its holders are one more than the interrupted sem_waits; with
\* none interrupted, the server and the readers exclude each other.
THEOREM PermitsAreCounted == Spec => []EachEintrAddsAPermit
  <1>1. IpcInv => EachEintrAddsAPermit
    BY DEF IpcInv, PermitInv, NotMade, Balanced, EachEintrAddsAPermit, SemExists
  <1> QED  BY <1>1, IpcInvariant, PTL

\* WholeUnlessInterrupted: a worker that unpacks a message has all of it from one
\* tick, unless SIGUSR1 or SIGINT has interrupted the server in sem_wait.
THEOREM WholeMessages == Spec => []WholeUnlessInterrupted
  <1>1. IpcInv => WholeUnlessInterrupted
    BY DEF IpcInv, CopyInv, WholeUnlessInterrupted
  <1> QED  BY <1>1, IpcInvariant, PTL

-----------------------------------------------------------------------------
(* The sockets. *)

\* The k-th message of a client, counted from the last one it has read.
At(p, k) == IF k = 0 THEN last[p] ELSE inbox[p][k]
Newest(p) == At(p, Len(inbox[p]))
Gapless(p) == \A k \in 1 .. Len(inbox[p]) : At(p, k - 1) = 0 \/ At(p, k) = At(p, k - 1) + 1
Fresh(p) == inbox[p] = <<>> /\ last[p] = 0

\* The last message that all clients of the table have been sent.
Sent == IF spc \in {"queue", "socket"} THEN seq - 1 ELSE seq

\* Whoever waits to be accepted waits once, and has got nothing yet.
Waits(i) ==
    /\ Fresh(backlog[i]) /\ peer[backlog[i]] # "idle"
    /\ backlog[i] \notin Connected
    /\ \A j \in 1 .. Len(backlog) : backlog[i] = backlog[j] => i = j
BacklogInv == \A i \in 1 .. Len(backlog) : Waits(i)
PeerInv ==
    \A p \in Peers :
        /\ peer[p] # "open" => Fresh(p)
        /\ peer[p] = "idle" => p \notin Connected
\* A client of the table has the message that was sent last, or none.
StreamInv ==
    \A p \in Peers :
        /\ Gapless(p)
        /\ p \in Connected => Newest(p) \in {0, Sent}
GapInv == BacklogInv /\ PeerInv /\ StreamInv

\* At the start nobody is connected.
LEMMA GapInit == Init => GapInv
  <1> SUFFICES ASSUME Init PROVE GapInv
    OBVIOUS
  <1>1. Connected = {} /\ Len(backlog) = 0
    BY DEF Init, Connected
  <1>2. \A p \in Peers : Fresh(p) /\ Len(inbox[p]) = 0
    BY DEF Init, Fresh
  <1> QED  BY <1>1, <1>2 DEF GapInv, BacklogInv, PeerInv, StreamInv, Gapless

\* A step that leaves the connections and Sent alone keeps the invariant.
LEMMA GapKept ==
    ASSUME GapInv, UNCHANGED sockVars, Sent' = Sent
    PROVE  GapInv'
  <1>1. BacklogInv' /\ PeerInv'
    BY DEF GapInv, BacklogInv, Waits, PeerInv, Fresh, Connected, sockVars
  <1>2. StreamInv'
    BY DEF GapInv, StreamInv, Gapless, Newest, At, Connected, sockVars
  <1> QED  BY <1>1, <1>2 DEF GapInv

\* Nobody is in the table and nobody waits: what is left is what was sent.
LEMMA GapEmptied ==
    ASSUME GapInv, UNCHANGED <<peer, inbox, last>>, backlog' = <<>>,
           clients' = [i \in Slots |-> Nobody]
    PROVE  GapInv'
  <1>1. Connected' = {} /\ Len(backlog') = 0
    BY DEF Connected
  <1> QED  BY <1>1 DEF GapInv, BacklogInv, PeerInv, StreamInv, Gapless, At, Fresh

\* A queue that is one message longer, and one that is one shorter.
LEMMA Appended ==
    ASSUME NEW T, NEW q \in Seq(T), NEW t \in T
    PROVE  /\ Len(Append(q, t)) = Len(q) + 1 /\ Len(q) \in Nat
           /\ \A k \in 1 .. Len(q) : Append(q, t)[k] = q[k]
           /\ Append(q, t)[Len(q) + 1] = t
  <1>1. Len(q) \in Nat /\ Append(q, t) \in Seq(T)
    OBVIOUS
  <1>2. Len(Append(q, t)) = Len(q) + 1 /\ Append(q, t)[Len(q) + 1] = t
    OBVIOUS
  <1>3. \A k \in 1 .. Len(q) : Append(q, t)[k] = q[k]
    OBVIOUS
  <1> QED  BY <1>1, <1>2, <1>3
LEMMA Shifted ==
    ASSUME NEW T, NEW q \in Seq(T), q # <<>>
    PROVE  /\ Len(q) \in Nat \ {0} /\ Len(Tail(q)) = Len(q) - 1 /\ Head(q) = q[1]
           /\ \A k \in 1 .. Len(q) - 1 : Tail(q)[k] = q[k + 1]
  <1>1. Len(q) \in Nat \ {0} /\ Head(q) = q[1]
    OBVIOUS
  <1>2. Len(Tail(q)) = Len(q) - 1
    OBVIOUS
  <1>3. \A k \in 1 .. Len(q) - 1 : Tail(q)[k] = q[k + 1]
    OBVIOUS
  <1> QED  BY <1>1, <1>2, <1>3

\* A connection that is accepted has got nothing, and nobody else waits with it.
LEMMA AcceptKeepsGap ==
    ASSUME TypeInv, GapInv, Accept
    PROVE  GapInv'
  <1>1. /\ seq \in Nat /\ spc = "accept" /\ spc' = "queue" /\ seq' = seq + 1
        /\ UNCHANGED <<peer, inbox, last>>
    BY DEF TypeInv, ServerTypes, Accept
  <1>2. Sent' = Sent
    BY <1>1 DEF Sent
  <1>3. backlog \in Seq(Peers) /\ clients \in [Slots -> Peers \cup {Nobody}]
    BY DEF TypeInv, SocketTypes
  <1>4. CASE backlog = <<>>
    BY <1>1, <1>2, <1>4, GapKept DEF Accept, sockVars
  <1>5. CASE backlog # <<>>
    <2>1. PICK n \in Nat \ {0}, h \in Peers : n = Len(backlog) /\ h = backlog[1]
      BY <1>3, <1>5
    <2>2. /\ backlog' = Tail(backlog)
          /\ Len(backlog') = n - 1
          /\ \A k \in 1 .. n - 1 : backlog'[k] = backlog[k + 1]
      BY <1>3, <1>5, <2>1, Shifted DEF Accept
    <2>3. Connected' \subseteq Connected \cup {h}
      <3>1. h = Head(backlog)
        BY <1>3, <1>5, <2>1
      <3> QED  BY <1>3, <1>5, <3>1 DEF Accept, Connected
    <2>4. \A i \in 1 .. n : Waits(i)
      BY <2>1 DEF GapInv, BacklogInv
    <2>5. Fresh(h) /\ peer[h] # "idle"
      BY <2>1, <2>4 DEF Waits
    <2>6. BacklogInv'
      <3> SUFFICES ASSUME NEW i \in 1 .. n - 1 PROVE Waits(i)'
        BY <2>2 DEF BacklogInv
      <3>1. i + 1 \in 1 .. n /\ i + 1 # 1 /\ 1 \in 1 .. n
        BY <2>1
      <3>2. Waits(i + 1) /\ backlog'[i] = backlog[i + 1]
        BY <2>2, <2>4, <3>1
      <3>3. backlog[i + 1] # h
        BY <2>1, <3>1, <3>2 DEF Waits
      <3>4. ASSUME NEW j \in 1 .. n - 1, backlog'[i] = backlog'[j] PROVE i = j
        <4>1. j + 1 \in 1 .. n /\ backlog'[j] = backlog[j + 1]
          BY <2>1, <2>2
        <4>2. i + 1 = j + 1
          BY <2>1, <3>2, <3>4, <4>1 DEF Waits
        <4> QED  BY <4>2
      <3>5. /\ Fresh(backlog[i])' /\ peer'[backlog'[i]] # "idle"
            /\ backlog'[i] \notin Connected'
        BY <1>1, <2>3, <3>2, <3>3 DEF Fresh, Waits
      <3> QED  BY <2>2, <3>4, <3>5 DEF Waits
    <2>7. PeerInv'
      BY <1>1, <2>3, <2>5 DEF GapInv, PeerInv, Fresh
    <2>8. StreamInv'
      <3> SUFFICES ASSUME NEW p \in Peers
                   PROVE  Gapless(p)' /\ (p \in Connected' => Newest(p)' \in {0, Sent'})
        BY DEF StreamInv
      <3>1. Gapless(p)' /\ Newest(p)' = Newest(p)
        BY <1>1 DEF GapInv, StreamInv, Gapless, Newest, At
      <3>2. p = h => Newest(p) = 0
        BY <2>5 DEF Fresh, Newest, At
      <3> QED  BY <1>2, <2>3, <3>1, <3>2 DEF GapInv, StreamInv
    <2> QED  BY <2>6, <2>7, <2>8 DEF GapInv
  <1> QED  BY <1>4, <1>5

\* Who stays in the table has just got the message that was sent.
LEMMA SendKeepsGap ==
    ASSUME TypeInv, GapInv, SendSockets
    PROVE  GapInv'
  <1>1. /\ seq \in 0 .. MaxTicks /\ spc = "socket" /\ spc' = "sem_wait" /\ seq' = seq
        /\ UNCHANGED <<backlog, peer, last>>
        /\ clients \in [Slots -> Peers \cup {Nobody}] /\ inbox \in [Peers -> Seq(0 .. MaxTicks)]
        /\ backlog \in Seq(Peers)
    BY DEF TypeInv, ServerTypes, SocketTypes, SendSockets
  <1>2. Sent = seq - 1 /\ Sent' = seq
    BY <1>1 DEF Sent
  <1>3. Connected' \subseteq {p \in Connected : Takes(p)}
    BY <1>1 DEF SendSockets, ClientsAfterSend, Connected
  <1>4. \A p \in Peers :
            inbox'[p] = IF p \in Connected /\ Takes(p) THEN Append(inbox[p], seq) ELSE inbox[p]
    BY <1>1 DEF SendSockets
  <1>5. BacklogInv'
    <2> SUFFICES ASSUME NEW i \in 1 .. Len(backlog) PROVE Waits(i)'
      BY <1>1 DEF BacklogInv
    <2>1. backlog[i] \in Peers /\ Waits(i)
      BY <1>1 DEF GapInv, BacklogInv
    <2> QED  BY <1>1, <1>3, <1>4, <2>1 DEF Fresh, Waits
  <1>6. PeerInv'
    BY <1>1, <1>3, <1>4 DEF GapInv, PeerInv, Fresh, Takes
  <1>7. StreamInv'
    <2> SUFFICES ASSUME NEW p \in Peers
                 PROVE  Gapless(p)' /\ (p \in Connected' => Newest(p)' \in {0, seq})
      BY <1>2 DEF StreamInv
    <2>1. CASE ~(p \in Connected /\ Takes(p))
      <3>1. p \notin Connected' /\ inbox'[p] = inbox[p] /\ last'[p] = last[p]
        BY <1>1, <1>3, <1>4, <2>1
      <3> QED  BY <3>1 DEF GapInv, StreamInv, Gapless, At
    <2>2. CASE p \in Connected /\ Takes(p)
      <3>1. PICK n \in Nat : n = Len(inbox[p])
        BY <1>1
      <3>2. inbox'[p] = Append(inbox[p], seq) /\ last'[p] = last[p]
        BY <1>1, <1>4, <2>2
      <3>3. /\ Len(inbox'[p]) = n + 1
            /\ \A k \in 1 .. n : inbox'[p][k] = inbox[p][k]
            /\ inbox'[p][n + 1] = seq
        BY <1>1, <3>1, <3>2, Appended
      <3>4. \A k \in 0 .. n : At(p, k)' = At(p, k)
        BY <3>2, <3>3 DEF At
      <3>5. At(p, n + 1)' = seq
        BY <3>3 DEF At
      <3>6. At(p, n) \in {0, seq - 1} /\ Gapless(p)
        BY <1>2, <2>2, <3>1 DEF GapInv, StreamInv, Newest
      <3>7. Gapless(p)'
        <4> SUFFICES ASSUME NEW k \in 1 .. n + 1
                     PROVE  At(p, k - 1)' = 0 \/ At(p, k)' = At(p, k - 1)' + 1
          BY <3>3 DEF Gapless
        <4>1. CASE k = n + 1
          BY <1>1, <3>4, <3>5, <3>6, <4>1
        <4>2. CASE k \in 1 .. n
          <5>1. k - 1 \in 0 .. n /\ k \in 0 .. n
            BY <4>2
          <5>2. At(p, k - 1) = 0 \/ At(p, k) = At(p, k - 1) + 1
            BY <3>1, <3>6, <4>2 DEF Gapless
          <5> QED  BY <3>4, <5>1, <5>2
        <4> QED  BY <4>1, <4>2
      <3>8. Newest(p)' = seq
        BY <3>3, <3>5 DEF Newest
      <3> QED  BY <3>7, <3>8
    <2> QED  BY <2>1, <2>2
  <1> QED  BY <1>5, <1>6, <1>7 DEF GapInv

\* A new connection waits once.
LEMMA ConnectKeepsGap ==
    ASSUME TypeInv, GapInv, NEW p \in Peers, Connect(p)
    PROVE  GapInv'
  <1>1. /\ peer[p] = "idle" /\ peer' = [peer EXCEPT ![p] = "open"] /\ backlog' = Append(backlog, p)
        /\ UNCHANGED <<clients, inbox, last, spc, seq>>
        /\ backlog \in Seq(Peers) /\ peer \in [Peers -> {"idle", "open", "closed"}]
    BY DEF TypeInv, SocketTypes, Connect, OthersUnchanged, serverVars
  <1>2. Fresh(p) /\ p \notin Connected
    BY <1>1 DEF GapInv, PeerInv
  <1>3. Connected' = Connected /\ Sent' = Sent
    BY <1>1 DEF Connected, Sent
  <1>4. PICK n \in Nat : n = Len(backlog)
    BY <1>1
  <1>5. /\ Len(backlog') = n + 1
        /\ \A k \in 1 .. n : backlog'[k] = backlog[k]
        /\ backlog'[n + 1] = p
    BY <1>1, <1>4, Appended
  <1>6. \A i \in 1 .. n : Waits(i) /\ backlog[i] \in Peers /\ backlog[i] # p
    BY <1>1, <1>4 DEF GapInv, BacklogInv, Waits
  <1>7. BacklogInv'
    <2> SUFFICES ASSUME NEW i \in 1 .. n + 1 PROVE Waits(i)'
      BY <1>5 DEF BacklogInv
    <2>1. CASE i = n + 1
      <3>1. backlog'[i] = p
        BY <1>5, <2>1
      <3>2. \A j \in 1 .. n + 1 : backlog'[i] = backlog'[j] => i = j
        BY <1>5, <1>6, <2>1, <3>1
      <3> QED  BY <1>1, <1>2, <1>3, <1>5, <3>1, <3>2 DEF Fresh, Waits
    <2>2. CASE i \in 1 .. n
      <3>1. Waits(i) /\ backlog'[i] = backlog[i] /\ backlog[i] # p /\ backlog[i] \in Peers
        BY <1>5, <1>6, <2>2
      <3>2. \A j \in 1 .. n + 1 : backlog'[i] = backlog'[j] => i = j
        BY <1>4, <1>5, <3>1 DEF Waits
      <3>3. /\ Fresh(backlog[i])' /\ peer'[backlog'[i]] # "idle"
            /\ backlog'[i] \notin Connected'
        BY <1>1, <1>3, <3>1 DEF Fresh, Waits
      <3> QED  BY <1>5, <3>2, <3>3 DEF Waits
    <2> QED  BY <2>1, <2>2
  <1>8. PeerInv'
    BY <1>1, <1>3 DEF GapInv, PeerInv, Fresh
  <1>9. StreamInv'
    BY <1>1, <1>3 DEF GapInv, StreamInv, Gapless, Newest, At
  <1> QED  BY <1>7, <1>8, <1>9 DEF GapInv

\* Who leaves forgets what it had.
LEMMA LeaveKeepsGap ==
    ASSUME TypeInv, GapInv, NEW p \in Peers, Disconnect(p)
    PROVE  GapInv'
  <1>1. /\ peer[p] = "open" /\ peer' = [peer EXCEPT ![p] = "closed"]
        /\ inbox' = [inbox EXCEPT ![p] = <<>>] /\ last' = [last EXCEPT ![p] = 0]
        /\ UNCHANGED <<clients, backlog, spc, seq>>
        /\ peer \in [Peers -> {"idle", "open", "closed"}] /\ backlog \in Seq(Peers)
        /\ inbox \in [Peers -> Seq(0 .. MaxTicks)] /\ last \in [Peers -> 0 .. MaxTicks]
    BY DEF TypeInv, SocketTypes, Disconnect, OthersUnchanged, serverVars
  <1>2. /\ Fresh(p)' /\ peer'[p] = "closed"
        /\ \A q \in Peers \ {p} : inbox'[q] = inbox[q] /\ last'[q] = last[q] /\ peer'[q] = peer[q]
    BY <1>1 DEF Fresh
  <1>3. Connected' = Connected /\ Sent' = Sent
    BY <1>1 DEF Connected, Sent
  <1>4. BacklogInv'
    <2> SUFFICES ASSUME NEW i \in 1 .. Len(backlog) PROVE Waits(i)'
      BY <1>1 DEF BacklogInv
    <2>1. backlog[i] \in Peers /\ Waits(i)
      BY <1>1 DEF GapInv, BacklogInv
    <2>2. Fresh(backlog[i])' /\ peer'[backlog[i]] # "idle"
      BY <1>1, <1>2, <2>1 DEF Fresh, Waits
    <2> QED  BY <1>1, <1>3, <2>1, <2>2 DEF Waits
  <1>5. PeerInv'
    BY <1>1, <1>2, <1>3 DEF GapInv, PeerInv, Fresh
  <1>6. StreamInv'
    <2> SUFFICES ASSUME NEW q \in Peers
                 PROVE  Gapless(q)' /\ (q \in Connected => Newest(q)' \in {0, Sent})
      BY <1>3 DEF StreamInv
    <2>1. CASE q = p
      <3>1. Len(inbox'[q]) = 0 /\ last'[q] = 0
        BY <1>2, <2>1 DEF Fresh
      <3> QED  BY <3>1 DEF Gapless, Newest, At
    <2>2. CASE q # p
      BY <1>2, <2>2 DEF GapInv, StreamInv, Gapless, Newest, At
    <2> QED  BY <2>1, <2>2
  <1> QED  BY <1>4, <1>5, <1>6 DEF GapInv

\* What is read becomes the last one.
LEMMA ReceiveKeepsGap ==
    ASSUME TypeInv, GapInv, NEW p \in Peers, ReceiveSocket(p)
    PROVE  GapInv'
  <1>1. /\ inbox[p] # <<>> /\ last' = [last EXCEPT ![p] = Head(inbox[p])]
        /\ inbox' = [inbox EXCEPT ![p] = Tail(inbox[p])]
        /\ UNCHANGED <<clients, backlog, peer, spc, seq>>
        /\ backlog \in Seq(Peers)
        /\ inbox \in [Peers -> Seq(0 .. MaxTicks)] /\ last \in [Peers -> 0 .. MaxTicks]
    BY DEF TypeInv, SocketTypes, ReceiveSocket, OthersUnchanged, serverVars
  <1>2. \A r \in Peers \ {p} : inbox'[r] = inbox[r] /\ last'[r] = last[r]
    BY <1>1
  <1>3. Connected' = Connected /\ Sent' = Sent
    BY <1>1 DEF Connected, Sent
  <1>4. ~Fresh(p)
    BY <1>1 DEF Fresh
  <1>5. BacklogInv'
    <2> SUFFICES ASSUME NEW i \in 1 .. Len(backlog) PROVE Waits(i)'
      BY <1>1 DEF BacklogInv
    <2>1. backlog[i] \in Peers /\ Waits(i) /\ backlog[i] # p
      BY <1>1, <1>4 DEF GapInv, BacklogInv, Waits
    <2>2. Fresh(backlog[i])'
      BY <1>1, <1>2, <2>1 DEF Fresh, Waits
    <2> QED  BY <1>1, <1>3, <2>1, <2>2 DEF Waits
  <1>6. PeerInv'
    <2> SUFFICES ASSUME NEW r \in Peers PROVE peer[r] # "open" => Fresh(r)'
      BY <1>1, <1>3 DEF GapInv, PeerInv
    <2>1. peer[r] # "open" => Fresh(r)
      BY DEF GapInv, PeerInv
    <2> QED  BY <1>2, <1>4, <2>1 DEF Fresh
  <1>7. StreamInv'
    <2> SUFFICES ASSUME NEW r \in Peers
                 PROVE  Gapless(r)' /\ (r \in Connected => Newest(r)' \in {0, Sent})
      BY <1>3 DEF StreamInv
    <2>1. CASE r = p
      <3>1. PICK n \in Nat \ {0} : n = Len(inbox[p])
        BY <1>1
      <3>2. /\ inbox'[p] = Tail(inbox[p]) /\ last'[p] = inbox[p][1]
            /\ Len(inbox'[p]) = n - 1
            /\ \A k \in 1 .. n - 1 : inbox'[p][k] = inbox[p][k + 1]
        BY <1>1, <3>1, Shifted
      <3>3. \A k \in 0 .. n - 1 : At(p, k)' = At(p, k + 1)
        BY <3>1, <3>2 DEF At
      <3>4. Gapless(p)'
        <4> SUFFICES ASSUME NEW k \in 1 .. n - 1
                     PROVE  At(p, k - 1)' = 0 \/ At(p, k)' = At(p, k - 1)' + 1
          BY <3>2 DEF Gapless
        <4>1. /\ k + 1 \in 1 .. n /\ k - 1 \in 0 .. n - 1 /\ k \in 0 .. n - 1
              /\ (k - 1) + 1 = k /\ (k + 1) - 1 = k
          BY <3>1
        <4>2. At(p, k) = 0 \/ At(p, k + 1) = At(p, k) + 1
          BY <3>1, <4>1 DEF GapInv, StreamInv, Gapless
        <4>3. At(p, k - 1)' = At(p, k) /\ At(p, k)' = At(p, k + 1)
          BY <3>3, <4>1
        <4> QED  BY <4>2, <4>3
      <3>5. Newest(p)' = Newest(p)
        <4>1. n - 1 \in 0 .. n - 1 /\ (n - 1) + 1 = n
          BY <3>1
        <4>2. At(p, n - 1)' = At(p, n)
          BY <3>3, <4>1
        <4> QED  BY <3>1, <3>2, <4>2 DEF Newest
      <3> QED  BY <2>1, <3>4, <3>5 DEF GapInv, StreamInv
    <2>2. CASE r # p
      BY <1>2, <2>2 DEF GapInv, StreamInv, Gapless, Newest, At
    <2> QED  BY <2>1, <2>2
  <1> QED  BY <1>5, <1>6, <1>7 DEF GapInv

\* Every step keeps the streams without a gap.
LEMMA GapStep == TypeInv /\ GapInv /\ [Next]_vars => GapInv'
  <1> SUFFICES ASSUME TypeInv, GapInv, [Next]_vars PROVE GapInv'
    OBVIOUS
  <1>1. CASE StartUp \/ SendQueue \/ SemWait \/ SemBlock \/ CopyFront \/ CopyBack \/ SemPost
             \/ Sleep \/ CleanUp
    <2>1. UNCHANGED sockVars
      BY <1>1 DEF StartUp, Create, SendQueue, SemWait, SemBlock, CopyFront, CopyBack, SemPost,
             Sleep, CleanUp
    <2>2. Sent' = Sent
      BY <1>1 DEF StartUp, Create, SendQueue, SemWait, SemBlock, CopyFront, CopyBack, SemPost,
             Sleep, CleanUp, Sent
    <2> QED  BY <2>1, <2>2, GapKept
  <1>2. CASE Accept
    BY <1>2, AcceptKeepsGap
  <1>3. CASE SendSockets
    BY <1>3, SendKeepsGap
  <1>4. CASE Close
    BY <1>4, GapEmptied DEF Close
  <1>5. CASE Sigusr1 \/ Sigint
    <2>1. CASE Sigint /\ ~running
      BY <2>1, GapEmptied DEF Sigint
    <2>2. CASE ~(Sigint /\ ~running)
      <3>1. UNCHANGED sockVars
        BY <1>5, <2>2 DEF Sigusr1, Sigint, sockVars
      <3>2. Sent' = Sent
        BY <1>5, <2>2 DEF Sigusr1, Sigint, Interrupt, Sent
      <3> QED  BY <3>1, <3>2, GapKept
    <2> QED  BY <2>1, <2>2
  <1>6. CASE (\E r \in Readers : Reader(r) \/ ReaderDies(r)) \/ ReceiveQueue \/ UNCHANGED vars
    <2>1. UNCHANGED sockVars /\ UNCHANGED serverVars
      BY <1>6 DEF Reader, OpenShm, OpenSem, AcquireSem, ReadFront, ReadBack, ReleaseSem, Unpack,
             ReaderDies, ReaderUnchanged, ReceiveQueue, OthersUnchanged, vars
    <2> QED  BY <2>1, GapKept DEF serverVars, Sent
  <1>7. CASE \E p \in Peers : Connect(p) \/ Disconnect(p) \/ ReceiveSocket(p)
    BY <1>7, ConnectKeepsGap, LeaveKeepsGap, ReceiveKeepsGap
  <1> QED  BY <1>1, <1>2, <1>3, <1>4, <1>5, <1>6, <1>7 DEF Next, Server, Quiet

\* NoGapInSocket: whatever connects, leaves, reads slowly or is interrupted, for any
\* sizes of table and sockets: a client gets consecutive messages.
THEOREM NoGap == Spec => []NoGapInSocket
  <1>1. TypeInv /\ GapInv => NoGapInSocket
    <2> SUFFICES ASSUME TypeInv, GapInv, NEW p \in Peers, NEW k \in 1 .. Len(inbox[p])
                 PROVE  LET all == <<last[p]>> \o inbox[p] IN all[k] = 0 \/ all[k + 1] = all[k] + 1
      BY DEF NoGapInSocket
    <2>1. inbox[p] \in Seq(0 .. MaxTicks) /\ last[p] \in 0 .. MaxTicks
      BY DEF TypeInv, SocketTypes
    <2>2. (<<last[p]>> \o inbox[p])[k + 1] = inbox[p][k]
      BY <2>1
    <2>3. (<<last[p]>> \o inbox[p])[k] = At(p, k - 1)
      BY <2>1 DEF At
    <2>4. At(p, k - 1) = 0 \/ inbox[p][k] = At(p, k - 1) + 1
      BY <2>1 DEF GapInv, StreamInv, Gapless, At
    <2> QED  BY <2>2, <2>3, <2>4
  <1> QED  BY <1>1, TypeInit, TypeStep, GapInit, GapStep, PTL DEF Spec
===============================================================================
