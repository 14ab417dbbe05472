----------------------------- MODULE DockerServer -----------------------------
(* The two servers of seance_4/docker and seance_4/docker2 and their clients.  *)
(* A server forks a child that runs "ls -l" and then answers one client after  *)
(* the other on a single thread.  docker/server.c waits for the child before   *)
(* its accept loop; docker2/server.c looks for it with WNOHANG in every round. *)
(* nohang says which of the two programs is running.                           *)
EXTENDS Naturals, Sequences

CONSTANTS
    Clients,     \* the client processes (client.c)
    Backlog      \* the second argument of listen

ASSUME BacklogAssumption == Backlog \in Nat

VARIABLES
    nohang,      \* the program is docker2/server.c
    ppc,         \* control point of the parent
    pid,         \* its variable pid
    reports,     \* how often it has reported the end of the child: 2 is "twice or more"
    conn,        \* the client that client_fd is connected to
    queue,       \* the kernel's queue of connections that are not accepted
    child,       \* control point of the child, then what the kernel keeps of it
    client,      \* control point of each client
    inbox,       \* the answer is in the client's receive buffer
    closed       \* the server's end of the connection has been closed

vars == <<nohang, ppc, pid, reports, conn, queue, child, client, inbox, closed>>
clientVars == <<client, inbox, closed>>
parentVars == <<ppc, pid, reports, conn>>

ChildPid == "child"
MinusOne == "-1"
NoClient == "no client"
Unset == "unset"

Running == {"popen", "read", "pclose"}
Listening == ppc \in {"waitpid", "accept", "send", "close"}
Waiting == {"connected", "sent"}     \* a client that has not had its answer

Init ==
    /\ nohang \in BOOLEAN
    /\ ppc = "fork"
    /\ pid = Unset
    /\ reports = 0
    /\ conn = NoClient
    /\ queue = <<>>
    /\ child = "none"
    /\ client = [c \in Clients |-> "ready"]
    /\ inbox = [c \in Clients |-> FALSE]
    /\ closed = [c \in Clients |-> FALSE]

-----------------------------------------------------------------------------
(* The child: popen, fgets until the end of the file, pclose, exit.          *)

Popen ==
    /\ child = "popen"
    /\ child' \in {"read", "zombie"}          \* without a pipe it exits at once
    /\ UNCHANGED <<nohang, parentVars, queue, clientVars>>

ReadListing ==
    /\ child = "read"
    /\ child' = "pclose"
    /\ UNCHANGED <<nohang, parentVars, queue, clientVars>>

\* Mutant: the call of exit is missing.
NeverExits == child

Exit == "zombie"

Pclose ==
    /\ child = "pclose"
    /\ child' = Exit
    /\ UNCHANGED <<nohang, parentVars, queue, clientVars>>

ChildStep == Popen \/ ReadListing \/ Pclose

\* A signal kills the child.
ChildKilled ==
    /\ child \in Running
    /\ child' = "zombie"
    /\ UNCHANGED <<nohang, parentVars, queue, clientVars>>

-----------------------------------------------------------------------------
(* The parent.                                                               *)

Fork ==
    /\ ppc = "fork"
    /\ \/ ppc' = "socket" /\ pid' = ChildPid /\ child' = "popen"
       \/ ppc' = "failed" /\ UNCHANGED <<pid, child>>
    /\ UNCHANGED <<nohang, reports, conn, queue, clientVars>>

\* socket, setsockopt, bind and listen: an error ends the parent alone.
Listen ==
    /\ ppc = "socket"
    /\ ppc' \in {"waitpid", "failed"}
    /\ UNCHANGED <<nohang, pid, reports, conn, queue, child, clientVars>>

Reported == IF reports = 0 THEN 1 ELSE 2

\* docker: waitpid blocks until the child has ended.
WaitForChild ==
    /\ ~nohang /\ ppc = "waitpid"
    /\ child = "zombie"
    /\ child' = "reaped"
    /\ reports' = Reported
    /\ ppc' = "accept"
    /\ UNCHANGED <<nohang, pid, conn, queue, clientVars>>

\* docker2: waitpid returns 0.
ChildStillRuns ==
    /\ nohang /\ ppc = "waitpid"
    /\ child \in Running
    /\ ppc' = "accept"
    /\ UNCHANGED <<nohang, pid, reports, conn, queue, child, clientVars>>

ForgetPid == MinusOne

\* docker2: waitpid returns the pid of the child, and its status.
ReapChild ==
    /\ nohang /\ ppc = "waitpid"
    /\ child = "zombie"
    /\ child' = "reaped"
    /\ reports' = Reported
    /\ pid' = ForgetPid
    /\ ppc' = "accept"
    /\ UNCHANGED <<nohang, conn, queue, clientVars>>

\* docker2 in the rounds after that: waitpid(-1) finds no child and returns -1,
\* which is the value of pid.  child_status has not been written in this round,
\* so whether it reads as an exit, a signal or neither is open.
WaitForAny ==
    /\ nohang /\ ppc = "waitpid"
    /\ child = "reaped"
    /\ reports' \in IF pid = MinusOne THEN {reports, Reported} ELSE {reports}
    /\ ppc' = "accept"
    /\ UNCHANGED <<nohang, pid, conn, queue, child, clientVars>>

Accept ==
    /\ ppc = "accept"
    /\ queue # <<>>
    /\ conn' = Head(queue)
    /\ queue' = Tail(queue)
    /\ ppc' = "send"
    /\ UNCHANGED <<nohang, pid, reports, child, clientVars>>

\* Mutants: the loop of docker2 begins at accept; accept stands before the loop.
NextRoundAccepts == "accept"
NextRoundSends == "send"

NextRound == IF nohang THEN "waitpid" ELSE "accept"

\* accept returns an error, for want of a descriptor or of memory.
AcceptFails ==
    /\ ppc = "accept"
    /\ queue # <<>>
    /\ ppc' = NextRound
    /\ UNCHANGED <<nohang, pid, reports, conn, queue, child, clientVars>>

\* Mutant: the answer is not sent.
NotDelivered == inbox

Delivered == [inbox EXCEPT ![conn] = TRUE]

Send ==
    /\ ppc = "send"
    /\ inbox' = Delivered
    /\ ppc' = "close"
    /\ UNCHANGED <<nohang, pid, reports, conn, queue, child, client, closed>>

Close ==
    /\ ppc = "close"
    /\ closed' = [closed EXCEPT ![conn] = TRUE]
    /\ conn' = NoClient
    /\ ppc' = NextRound
    /\ UNCHANGED <<nohang, pid, reports, queue, child, client, inbox>>

ParentStep ==
    \/ Fork \/ Listen \/ WaitForChild \/ ChildStillRuns \/ ReapChild \/ WaitForAny
    \/ Accept \/ AcceptFails \/ Send \/ Close

-----------------------------------------------------------------------------
(* The clients: connect, write, read once, close.                            *)

\* connect returns when the kernel has queued the connection; the queue holds one
\* more than the backlog, and with a full queue connect goes on trying.
Connect(c) ==
    /\ client[c] = "ready"
    /\ Listening
    /\ Len(queue) <= Backlog
    /\ queue' = Append(queue, c)
    /\ client' = [client EXCEPT ![c] = "connected"]
    /\ UNCHANGED <<nohang, parentVars, child, inbox, closed>>

\* The server never reads the greeting.
WriteHello(c) ==
    /\ client[c] = "connected"
    /\ client' = [client EXCEPT ![c] = "sent"]
    /\ UNCHANGED <<nohang, parentVars, queue, child, inbox, closed>>

\* read returns the answer, or 0 at the end of the stream.
ReadAnswer(c) ==
    /\ client[c] = "sent"
    /\ inbox[c] \/ closed[c]
    /\ client' = [client EXCEPT ![c] = IF inbox[c] THEN "answered" ELSE "unanswered"]
    /\ UNCHANGED <<nohang, parentVars, queue, child, inbox, closed>>

\* The client is killed; its connection stays until the server closes it.
KillClient(c) ==
    /\ client[c] \in Waiting
    /\ client' = [client EXCEPT ![c] = "killed"]
    /\ UNCHANGED <<nohang, parentVars, queue, child, inbox, closed>>

\* The client is started again.  Bound: its former connection is closed by then.
RunAgain(c) ==
    /\ client[c] \in {"answered", "unanswered", "killed"}
    /\ closed[c]
    /\ client' = [client EXCEPT ![c] = "ready"]
    /\ inbox' = [inbox EXCEPT ![c] = FALSE]
    /\ closed' = [closed EXCEPT ![c] = FALSE]
    /\ UNCHANGED <<nohang, parentVars, queue, child>>

ClientStep(c) == Connect(c) \/ WriteHello(c) \/ ReadAnswer(c) \/ KillClient(c) \/ RunAgain(c)

\* The parent has ended, and the child too.
Terminated ==
    /\ ppc = "failed"
    /\ child \notin Running
    /\ UNCHANGED vars

Next ==
    \/ ParentStep \/ ChildStep \/ ChildKilled \/ Terminated
    \/ \E c \in Clients : ClientStep(c)

\* The parent runs, and a shortage that makes accept fail does not last.  "ls -l"
\* ends, which docker needs; nothing is assumed of the child of docker2.  A client
\* that is connected writes and reads; nobody has to start one.
Fairness ==
    /\ WF_vars(ParentStep) /\ SF_vars(Accept)
    /\ WF_vars(~nohang /\ ChildStep)
    /\ \A c \in Clients : WF_vars(WriteHello(c)) /\ WF_vars(ReadAnswer(c))

Spec == Init /\ [][Next]_vars /\ Fairness

-----------------------------------------------------------------------------
(* Properties. *)

\* Types of the control points and of the connections.
TypeOK ==
    /\ nohang \in BOOLEAN
    /\ ppc \in {"fork", "socket", "waitpid", "accept", "send", "close", "failed"}
    /\ pid \in {Unset, ChildPid, MinusOne}
    /\ reports \in 0 .. 2
    /\ conn \in IF ppc \in {"send", "close"} THEN Clients ELSE {NoClient}
    /\ queue \in Seq(Clients)
    /\ Len(queue) <= Backlog + 1
    /\ child \in Running \cup {"none", "zombie", "reaped"}
    /\ client \in [Clients -> Waiting \cup {"ready", "answered", "unanswered", "killed"}]
    /\ inbox \in [Clients -> BOOLEAN]
    /\ closed \in [Clients -> BOOLEAN]

\* Nobody reads the end of the stream instead of the answer: a connection is
\* closed after its answer was sent, whatever other clients, living or killed,
\* were queued before it or come again.
NobodyLeavesUnanswered == \A c \in Clients : client[c] # "unanswered"

\* docker2 does not wait for the number of a child it has reaped, which the
\* kernel may have given to another process.
PidIsNotStale == nohang /\ pid = ChildPid => child # "reaped"

\* A client that has connected and written gets its answer: from docker once the
\* child has ended, from docker2 also when its child never ends.
ClientsAreAnswered ==
    \A c \in Clients : client[c] = "sent" ~> client[c] \in {"answered", "killed"}

\* The child does not stay a zombie while clients are accepted again and again.
ZombieIsReaped == []<>(ppc = "send") => []<>(child # "zombie")

\* The end of the child is reported once (docker2/server.c:178: "Set pid to -1 so
\* we don't wait for it again").
EndReportedOnce == reports <= 1
==============================================================================
