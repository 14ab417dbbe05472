------------------------------- MODULE EchoServer -------------------------------
(* seance_4/server_epoll.c and its client client_epoll.c: one thread waits    *)
(* with epoll for a listening socket, a timerfd and its clients, and echoes   *)
(* what it reads with writes that may block.  A client sends a line and reads *)
(* once: what the read does not bring is left for the reply of the next line. *)
(*                                                                            *)
(* The k-th byte that a client types is the number k.  A socket buffer is a   *)
(* sequence of bytes; the kernel may move them a few at a time.               *)
EXTENDS Naturals, Sequences, SequencesExt

CONSTANTS
    Clients,    \* as many as epoll_wait reports at once, less two
    Typed,      \* bound: the bytes that the user of each client types
    LineMax,    \* bytes that fgets takes at most, and that the client reads at most
    BufSize,    \* bytes that the server reads at most
    RoomUp, RoomDown    \* bounds: bytes under way to the server and to a client

\* What is assumed of the constants; the modules that instantiate this one say so.
EchoAssumption ==
    /\ Typed \in [Clients -> Nat]
    /\ {LineMax, BufSize, RoomUp, RoomDown} \subseteq Nat \ {0}

VARIABLES
    spc,        \* control point of the server
    batch,      \* descriptors that epoll_wait has reported and that are not handled yet
    fd,         \* the client whose bytes are echoed
    buf,        \* the bytes still to be written
    queue,      \* clients that are connected and not accepted
    open,       \* clients the server has a descriptor for
    expired,    \* the timerfd is readable
    epc,        \* control point of each client
    typed,      \* how many bytes its user has typed
    out,        \* the bytes of the line still to be sent
    received,   \* the bytes it has read
    up, down,   \* bytes under way to the server and to the client
    gone        \* what the server's kernel knows of the end of the client

serverVars == <<spc, batch, fd, buf, queue, open, expired>>
clientVars == <<epc, typed, out, received>>
socketVars == <<up, down, gone>>
vars == <<serverVars, clientVars, socketVars>>

ListenFd == "listen_fd"
TimerFd == "timer_fd"
Nobody == "no client"
Alive == spc \notin {"exited", "killed"}

Init ==
    /\ spc = "setup"
    /\ batch = {} /\ fd = Nobody /\ buf = <<>> /\ queue = {} /\ open = {}
    /\ expired = FALSE
    /\ epc = [c \in Clients |-> "connect"]
    /\ typed = [c \in Clients |-> 0]
    /\ gone = [c \in Clients |-> "no"]
    /\ out = [c \in Clients |-> <<>>]
    /\ received = out /\ up = out /\ down = out

-----------------------------------------------------------------------------
(* The server. *)

\* socket, bind, listen, the timer and epoll: any error ends the program.
Setup ==
    /\ spc = "setup"
    /\ spc' \in {"epoll_wait", "exited"}
    /\ UNCHANGED <<batch, fd, buf, queue, open, expired, clientVars, socketVars>>

\* Level-triggered: a client is reported as long as there is something to read,
\* its end of the stream and its errors included.
Readable ==
    {c \in open : up[c] # <<>> \/ gone[c] # "no"}
    \cup (IF queue # {} THEN {ListenFd} ELSE {})
    \cup (IF expired THEN {TimerFd} ELSE {})

EpollWait ==
    /\ spc = "epoll_wait"
    /\ Readable # {}
    /\ batch' = Readable
    /\ spc' = "dispatch"
    /\ UNCHANGED <<fd, buf, queue, open, expired, clientVars, socketVars>>

\* The for loop goes on with what is left of the batch.
Handled(f) ==
    /\ batch' = batch \ {f}
    /\ spc' = IF batch = {f} THEN "epoll_wait" ELSE "dispatch"

\* handle_new_connection; a failing accept leaves the connection in the queue.
Accept ==
    /\ spc = "dispatch" /\ ListenFd \in batch
    /\ \E c \in queue : queue' = queue \ {c} /\ open' = open \cup {c}
    /\ Handled(ListenFd)
    /\ UNCHANGED <<fd, buf, expired, clientVars, socketVars>>

AcceptFails ==
    /\ spc = "dispatch" /\ ListenFd \in batch
    /\ Handled(ListenFd)
    /\ UNCHANGED <<fd, buf, queue, open, expired, clientVars, socketVars>>

\* Mutant: the timerfd is not read.
NotRead == expired
ReadTimer == FALSE

HandleTimer ==
    /\ spc = "dispatch" /\ TimerFd \in batch
    /\ expired' = ReadTimer
    /\ Handled(TimerFd)
    /\ UNCHANGED <<fd, buf, queue, open, clientVars, socketVars>>

\* handle_client_data reads; its write loop follows.
ReadClient ==
    /\ spc = "dispatch"
    /\ \E c \in batch \cap open :
           LET n == IF Len(up[c]) < BufSize THEN Len(up[c]) ELSE BufSize IN
           /\ n > 0
           /\ buf' = SubSeq(up[c], 1, n)
           /\ up' = [up EXCEPT ![c] = SubSeq(@, n + 1, Len(@))]
           /\ fd' = c
           /\ batch' = batch \ {c}
           /\ spc' = "write"
    /\ UNCHANGED <<queue, open, expired, clientVars, down, gone>>

\* read returns 0 or an error: EPOLL_CTL_DEL and close.
CloseClient ==
    /\ spc = "dispatch"
    /\ \E c \in batch \cap open :
           /\ up[c] = <<>>
           /\ open' = open \ {c}
           /\ Handled(c)
    /\ UNCHANGED <<fd, buf, queue, expired, clientVars, socketVars>>

\* Mutant: write begins with the first byte of buf again.
RestFromTheStart(w) == SubSeq(buf, 1, Len(buf) - w)

RestToWrite(w) == SubSeq(buf, w + 1, Len(buf))

NextInBatch == spc' = (IF batch = {} THEN "epoll_wait" ELSE "dispatch")
Written(w) ==
    /\ buf' = RestToWrite(w)
    /\ IF w = Len(buf) THEN NextInBatch /\ fd' = Nobody ELSE UNCHANGED <<spc, fd>>
    /\ UNCHANGED <<batch, queue, expired, open, clientVars, up>>

\* write takes what there is room for, and blocks when there is none.
WriteSome ==
    /\ spc = "write" /\ gone[fd] = "no"
    /\ \E w \in 1 .. Len(buf) :
           /\ Len(down[fd]) + w <= RoomDown
           /\ down' = [down EXCEPT ![fd] = @ \o SubSeq(buf, 1, w)]
           /\ Written(w)
    /\ UNCHANGED gone

\* The client has closed its end: the bytes are answered with a reset.
WriteToClosed ==
    /\ spc = "write" /\ gone[fd] = "closed"
    /\ gone' = [gone EXCEPT ![fd] = "broken"]
    /\ Written(Len(buf))
    /\ UNCHANGED down

\* After that, write raises SIGPIPE, which nobody handles.
WriteRaisesSigpipe ==
    /\ spc = "write" /\ gone[fd] = "broken"
    /\ spc' = "killed"
    /\ UNCHANGED <<batch, fd, buf, queue, open, expired, clientVars, socketVars>>

\* The client closed with bytes unread: write fails with ECONNRESET.
WriteFails ==
    /\ spc = "write" /\ gone[fd] = "reset"
    /\ open' = open \ {fd}
    /\ buf' = <<>> /\ fd' = Nobody
    /\ NextInBatch
    /\ UNCHANGED <<batch, queue, expired, clientVars, socketVars>>

Write == WriteSome \/ WriteToClosed \/ WriteRaisesSigpipe \/ WriteFails
ServerStep ==
    Setup \/ EpollWait \/ Accept \/ AcceptFails \/ HandleTimer \/ ReadClient \/ CloseClient \/ Write

\* The kernel: the timer expires.
Expire ==
    /\ Alive /\ ~expired
    /\ expired' = TRUE
    /\ UNCHANGED <<spc, batch, fd, buf, queue, open, clientVars, socketVars>>

-----------------------------------------------------------------------------
(* A client. *)

Go(c, point) == epc' = [epc EXCEPT ![c] = point]

Connect(c) ==
    /\ epc[c] = "connect"
    /\ IF Alive /\ spc # "setup"
       THEN queue' = queue \cup {c} /\ Go(c, "fgets")
       ELSE UNCHANGED queue /\ Go(c, "done")
    /\ UNCHANGED <<spc, batch, fd, buf, open, expired, typed, out, received, socketVars>>

TypeLine(c) ==
    /\ epc[c] = "fgets"
    /\ \E n \in 1 .. LineMax :
           /\ typed[c] + n <= Typed[c]
           /\ typed' = [typed EXCEPT ![c] = @ + n]
           /\ out' = [out EXCEPT ![c] = [i \in 1 .. n |-> typed[c] + i]]
    /\ Go(c, "send")
    /\ UNCHANGED <<serverVars, received, socketVars>>

\* send_all: a part of the line goes out; a full buffer blocks.
SendAll(c) ==
    /\ epc[c] = "send" /\ Alive
    /\ \E w \in 1 .. Len(out[c]) :
           /\ Len(up[c]) + w <= RoomUp
           /\ up' = [up EXCEPT ![c] = @ \o SubSeq(out[c], 1, w)]
           /\ out' = [out EXCEPT ![c] = SubSeq(@, w + 1, Len(@))]
           /\ Go(c, IF w = Len(out[c]) THEN "read" ELSE "send")
    /\ UNCHANGED <<serverVars, typed, received, down, gone>>

ReadReply(c) ==
    /\ epc[c] = "read" /\ down[c] # <<>>
    /\ LET n == IF Len(down[c]) < LineMax THEN Len(down[c]) ELSE LineMax IN
       /\ received' = [received EXCEPT ![c] = @ \o SubSeq(down[c], 1, n)]
       /\ down' = [down EXCEPT ![c] = SubSeq(@, n + 1, Len(@))]
    /\ Go(c, "fgets")
    /\ UNCHANGED <<serverVars, typed, out, up, gone>>

\* The server is dead: write fails, read brings the end of the stream.
LoseServer(c) ==
    /\ ~Alive
    /\ epc[c] = "send" \/ (epc[c] = "read" /\ down[c] = <<>>)
    /\ Go(c, "done")
    /\ UNCHANGED <<serverVars, typed, out, received, socketVars>>

\* close: the end of the file at fgets, or a signal at any point.
Leave(c) ==
    /\ epc[c] \in {"fgets", "send", "read"}
    /\ Go(c, "done")
    /\ gone' = [gone EXCEPT ![c] = IF down[c] = <<>> THEN "closed" ELSE "reset"]
    /\ down' = [down EXCEPT ![c] = <<>>]
    /\ UNCHANGED <<serverVars, typed, out, received, up>>

ClientStep(c) == Connect(c) \/ SendAll(c) \/ ReadReply(c) \/ LoseServer(c)

Next ==
    \/ ServerStep \/ Expire
    \/ \E c \in Clients : ClientStep(c) \/ TypeLine(c) \/ Leave(c)
    \/ ~Alive /\ (\A c \in Clients : epc[c] = "done") /\ UNCHANGED vars

\* accept fails while the process is out of descriptors, not for ever.
Fairness ==
    /\ WF_vars(ServerStep)
    /\ SF_vars(Accept)
    /\ \A c \in Clients : WF_vars(ClientStep(c))

Spec == Init /\ [][Next]_vars /\ Fairness

-----------------------------------------------------------------------------
(* Properties. *)

\* Types of the variables.
TypeOK ==
    /\ spc \in {"setup", "epoll_wait", "dispatch", "write", "exited", "killed"}
    /\ batch \subseteq Clients \cup {ListenFd, TimerFd}
    /\ queue \subseteq Clients /\ open \subseteq Clients
    /\ fd \in IF spc \in {"write", "killed"} THEN Clients ELSE {Nobody}
    /\ expired \in BOOLEAN
    /\ epc \in [Clients -> {"connect", "fgets", "send", "read", "done"}]
    /\ gone \in [Clients -> {"no", "closed", "reset", "broken"}]
    /\ \A c \in Clients : Len(up[c]) <= RoomUp /\ Len(down[c]) <= RoomDown

\* "echo back exactly what was received": what the client reads is the beginning of
\* what its user typed, and while both ends live every byte that is typed is on its
\* way, in order, however reads and writes cut the lines.
EchoIsExact ==
    /\ TypeOK
    /\ \A c \in Clients :
           LET text == [i \in 1 .. typed[c] |-> i] IN
           /\ IsPrefix(received[c], text)
           /\ Alive /\ epc[c] # "done" =>
                  received[c] \o down[c] \o (IF fd = c THEN buf ELSE <<>>) \o up[c] \o out[c] = text

\* The server waits in write for a client that does not read: its user types
\* nothing, or it is in send_all itself.
BlockedBy(c) ==
    spc = "write" /\ fd = c /\ gone[c] = "no" /\ Len(down[c]) = RoomDown /\ epc[c] # "read"

\* A tick is read and a client that waits for a reply gets one, unless a SIGPIPE kills
\* the server or it is blocked for ever by a client that does not read.
EchoServes ==
    (\A c \in Clients : []<>~BlockedBy(c)) =>
        /\ expired ~> (~expired \/ ~Alive)
        /\ \A c \in Clients : epc[c] = "read" ~> epc[c] # "read"
==============================================================================
