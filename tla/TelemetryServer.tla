--------------------------- MODULE TelemetryServer ---------------------------
(***************************************************************************)
(* The two-threaded telemetry server of seance6/project/main.c.            *)
(*                                                                         *)
(* The monitor thread watches the directory of config.json with inotify,   *)
(* parses the file and publishes (sw_version, period) in g_cfg, under a    *)
(* mutex; an eventfd tells the server thread to read it again.  The server *)
(* thread is one epoll loop over the listening socket, the FIFO, the       *)
(* timerfd, the eventfd and the sockets of the clients.  SIGINT sets a     *)
(* flag that both loops poll.                                              *)
(*                                                                         *)
(* A critical section of g_cfg.lock takes several steps, one per field, so *)
(* that what the mutex protects is visible.  The environment is the editor *)
(* of config.json, the peers of the TCP connections, the FIFO's writers,   *)
(* the clock, and the user who presses Ctrl+C.                             *)
(***************************************************************************)
EXTENDS Integers, Sequences, FiniteSets

CONSTANTS
    Conns,          \* the TCP connections the peers may open
    MaxClients,     \* MAX_CLIENTS, the size of the table of clients
    Periods,        \* the values of "period" an editor may write
    DefaultPeriod,  \* period_sec before the first successful parse
    InitialFiles,   \* what config.json may be when the program starts
    MaxEdits,       \* bound: how many times config.json is edited
    MaxFifo         \* bound: how many messages are written to the FIFO

ASSUME MaxClientsAssumption == MaxClients \in Nat \ {0}
ASSUME PeriodsAssumption == Periods \subseteq Int /\ DefaultPeriod \in Periods
ASSUME ConnsAssumption == "no connection" \notin Conns
ASSUME BoundsAssumption == MaxEdits \in Nat /\ MaxFifo \in Nat

\* A version string is abstracted to a number that grows with the edits of
\* the file; 0 is "unknown".
Versions == 0 .. (MaxEdits + 2)
Configs  == [version : Versions, period : Periods]
Default  == [version |-> 0, period |-> DefaultPeriod]

\* What config.json can be besides a readable configuration.
Absent    == [version |-> -1, period |-> 0]     \* no such file
Malformed == [version |-> -2, period |-> 0]     \* not JSON, or a field is missing
Truncated == [version |-> -3, period |-> 0]     \* opened for writing, not closed yet

ASSUME InitialFilesAssumption ==
    InitialFiles \subseteq {Absent, Malformed} \cup [version : {1}, period : Periods]

ListenFd  == 1
FifoFd    == 2
TimerFd   == 3
NotifyFd  == 4
\* add_client closes the one connection that does not fit, before the next accept.
ClientFds == 5 .. (5 + MaxClients)
NoFd      == 0
Slots     == 1 .. MaxClients
NoConn    == "no connection"

VARIABLES
    \* the file system, and what inotify has queued for the monitor
    file, edits, inotify,
    \* g_stop, and whether main has returned
    stop, exited,
    \* g_cfg (lock, the two fields, valid) and the counter of g_cfg_notify_fd
    lock, cfg, valid, notify,
    \* monitor thread: control point, events read, the pair just parsed, changed
    mpc, mevents, mcfg, changed,
    \* server thread: control point, caller of the critical section, local
    \* sw_version and period, rest of the epoll batch
    spc, sctx, local, batch,
    \* timerfd: the period it is armed with (0: disarmed), an unread expiration
    armed, expired,
    \* FIFO: unread messages, messages still to come
    fifo, fifoLeft,
    \* sockets: connections not accepted yet, open client descriptors, those
    \* registered with epoll, the table clients[], the peers, unread input, and
    \* the connections that were sent telemetry
    backlog, conn, epoll, clients, peer, unread, served

fileVars == <<file, edits, inotify>>
cfgVars  == <<lock, cfg, valid>>
monVars  == <<mpc, mevents, mcfg, changed>>
srvVars  == <<spc, sctx, local, batch>>
timeVars == <<armed, expired>>
fifoVars == <<fifo, fifoLeft>>
sockVars == <<backlog, conn, epoll, clients, peer, unread, served>>
vars == <<fileVars, stop, exited, cfgVars, notify, monVars, srvVars, timeVars,
          fifoVars, sockVars>>

Free == "free"
\* Mutant: the threads do not share the mutex.
AcquireNothing(thread) == lock' = thread
\* pthread_mutex_lock(&g_cfg.lock).
Acquire(thread) == lock = Free /\ lock' = thread

Used == {clients[i] : i \in Slots} \ {NoFd}

Init ==
    /\ file \in InitialFiles
    /\ edits = 0
    /\ inotify = <<>>
    /\ stop = FALSE
    /\ exited = FALSE
    /\ lock = Free
    /\ cfg = Default
    /\ valid = FALSE
    /\ notify = 0
    /\ mpc = "start"
    /\ mevents = <<>>
    /\ mcfg = Default
    /\ changed = FALSE
    /\ spc = "start"
    /\ sctx = "init"
    /\ local = Default
    /\ batch = {}
    /\ armed = 0
    /\ expired = FALSE
    /\ fifo = 0
    /\ fifoLeft = MaxFifo
    /\ backlog = <<>>
    /\ conn = [f \in ClientFds |-> NoConn]
    /\ epoll = {}
    /\ clients = [i \in Slots |-> NoFd]
    /\ peer = [c \in Conns |-> "idle"]
    /\ unread = [c \in Conns |-> FALSE]
    /\ served = {}

-----------------------------------------------------------------------------
(* The editor of config.json. *)

\* Mutant: the watch is installed after the initial load.
WatchedAfterLoad == mpc \in {"wait", "events"} \/ valid

\* inotify queues an event once the watch exists, until the thread closes it.
Watched == mpc \notin {"start", "failed", "done"}
Queue(event) == inotify' = IF Watched THEN Append(inotify, event) ELSE inotify

\* A new content: the latest version or the next one, any period, or bad JSON.
Contents == {Malformed} \cup
    {[version |-> v, period |-> p] : v \in {edits + 1, edits + 2}, p \in Periods}

Edit(content) ==
    /\ edits < MaxEdits
    /\ edits' = edits + 1
    /\ file' = content
    /\ UNCHANGED <<stop, exited, cfgVars, notify, monVars, srvVars, timeVars,
                   fifoVars, sockVars>>

\* In-place writing: the file is truncated first, IN_CLOSE_WRITE comes at close.
OpenForWriting == file # Truncated /\ Edit(Truncated) /\ UNCHANGED inotify
CloseAfterWriting ==
    file = Truncated /\ \E c \in Contents : Edit(c) /\ Queue("updated")
\* A complete file is renamed over config.json: IN_MOVED_TO.
RenameOver == \E c \in Contents : Edit(c) /\ Queue("updated")
\* IN_DELETE or IN_MOVED_FROM.
Remove == file # Absent /\ Edit(Absent) /\ Queue("removed")

-----------------------------------------------------------------------------
(* The monitor thread. *)

MonUnchanged == UNCHANGED <<stop, exited, srvVars, timeVars, fifoVars, sockVars>>

\* The watch is installed before the initial load; inotify may be unavailable.
MonWatch ==
    /\ mpc = "start"
    /\ mpc' \in {"load", "failed"}
    /\ UNCHANGED <<fileVars, cfgVars, notify, mevents, mcfg, changed>>
    /\ MonUnchanged

\* parse_config_file: succeeds only on a complete file with both fields.
ParseInto(onSuccess, onFailure) ==
    IF file \in Configs
      THEN mcfg' = file /\ mpc' = onSuccess
      ELSE mcfg' = mcfg /\ mpc' = onFailure

MonLoad ==
    /\ mpc = "load"
    /\ ParseInto("lock", IF stop THEN "done" ELSE "wait")
    /\ changed' = TRUE                  \* the initial load notifies in any case
    /\ UNCHANGED <<fileVars, cfgVars, notify, mevents>>
    /\ MonUnchanged

\* epoll_wait reports the queued events and the read takes all of them.  A wait
\* that times out is no step: only the test of g_stop after it is one.
MonWait ==
    /\ mpc = "wait"
    /\ inotify # <<>>
    /\ mpc' = "events"
    /\ mevents' = inotify
    /\ inotify' = <<>>
    /\ UNCHANGED <<file, edits, cfgVars, notify, mcfg, changed>>
    /\ MonUnchanged

\* The wait ends by EINTR or within its second, and g_stop is set.
MonStop ==
    /\ mpc = "wait"
    /\ stop
    /\ mpc' = "done"
    /\ UNCHANGED <<fileVars, cfgVars, notify, mevents, mcfg, changed>>
    /\ MonUnchanged

\* Mutant: the defaults come back when the file is removed.
ForgetConfig == mcfg' = Default /\ mpc' = "lock"

KeepConfig == UNCHANGED <<mcfg, mpc>>

MonEvent ==
    /\ mpc = "events"
    /\ mevents # <<>>
    /\ mevents' = Tail(mevents)
    /\ IF Head(mevents) = "updated"
         THEN ParseInto("lock", "events")
         ELSE KeepConfig                \* the last known configuration stays
    /\ changed' = FALSE
    /\ UNCHANGED <<fileVars, cfgVars, notify>>
    /\ MonUnchanged

MonEventsDone ==
    /\ mpc = "events"
    /\ mevents = <<>>
    /\ mpc' = IF stop THEN "done" ELSE "wait"
    /\ UNCHANGED <<fileVars, cfgVars, notify, mevents, mcfg, changed>>
    /\ MonUnchanged

MonLock ==
    /\ mpc = "lock"
    /\ Acquire("monitor")
    /\ mpc' = "write version"
    /\ UNCHANGED <<fileVars, cfg, valid, notify, mevents, mcfg, changed>>
    /\ MonUnchanged

\* Mutant: only sw_version is compared.
VersionDiffers == mcfg.version # cfg.version

Differs == mcfg # cfg

\* The comparison precedes the two writes; the initial load needs none.
MonWriteVersion ==
    /\ mpc = "write version"
    /\ changed' = (changed \/ Differs)
    /\ cfg' = [cfg EXCEPT !.version = mcfg.version]
    /\ mpc' = "write period"
    /\ UNCHANGED <<fileVars, lock, valid, notify, mevents, mcfg>>
    /\ MonUnchanged

MonWritePeriod ==
    /\ mpc = "write period"
    /\ cfg' = [cfg EXCEPT !.period = mcfg.period]
    /\ valid' = TRUE
    /\ lock' = Free
    /\ mpc' = IF changed THEN "notify" ELSE "events"
    /\ UNCHANGED <<fileVars, notify, mevents, mcfg, changed>>
    /\ MonUnchanged

MonNotify ==
    /\ mpc = "notify"
    /\ notify' = notify + 1
    /\ mpc' = "events"
    /\ UNCHANGED <<fileVars, cfgVars, mevents, mcfg, changed>>
    /\ MonUnchanged

Monitor ==
    \/ MonWatch \/ MonLoad \/ MonWait \/ MonStop \/ MonEvent \/ MonEventsDone
    \/ MonLock \/ MonWriteVersion \/ MonWritePeriod \/ MonNotify

-----------------------------------------------------------------------------
(* The server thread: start-up and the critical section it enters from three *)
(* places, at start, at a tick of the timer and on a notification.           *)

SrvUnchanged == UNCHANGED <<fileVars, stop, exited, monVars, cfg, valid>>

Listening == spc \notin {"start", "failed", "done"}

\* The port may be taken, or the FIFO impossible to make: the thread ends.
SrvStart ==
    /\ spc = "start"
    /\ spc' \in {"lock", "failed"}
    /\ UNCHANGED <<lock, notify, sctx, local, batch, timeVars, fifoVars, sockVars>>
    /\ SrvUnchanged

SrvLock ==
    /\ spc = "lock"
    /\ Acquire("server")
    /\ spc' = "read period"
    /\ UNCHANGED <<notify, sctx, local, batch, timeVars, fifoVars, sockVars>>
    /\ SrvUnchanged

\* A tick reads sw_version only and keeps the period the timer runs with.
SrvReadPeriod ==
    /\ spc = "read period"
    /\ local' = IF sctx = "tick" THEN local ELSE [local EXCEPT !.period = cfg.period]
    /\ spc' = "read version"
    /\ UNCHANGED <<lock, notify, sctx, batch, timeVars, fifoVars, sockVars>>
    /\ SrvUnchanged

SrvReadVersion ==
    /\ spc = "read version"
    /\ local' = [local EXCEPT !.version = cfg.version]
    /\ lock' = Free
    /\ spc' = IF sctx = "tick" THEN "broadcast" ELSE "arm"
    /\ UNCHANGED <<notify, sctx, batch, timeVars, fifoVars, sockVars>>
    /\ SrvUnchanged

\* Mutant: a negative period is taken.
TimerTakes(p) == TRUE

TimerAccepts(p) == p >= 0

\* timerfd_settime: 0 disarms the timer, a negative period is refused and the
\* timer keeps running; a successful call forgets an unread expiration.
SrvArm ==
    /\ spc = "arm"
    /\ IF TimerAccepts(local.period)
         THEN armed' = local.period /\ expired' = FALSE
         ELSE UNCHANGED timeVars
    /\ spc' = IF sctx # "init" THEN "dispatch" ELSE IF stop THEN "close" ELSE "wait"
    /\ UNCHANGED <<lock, notify, sctx, local, batch, fifoVars, sockVars>>
    /\ SrvUnchanged

-----------------------------------------------------------------------------
(* The server thread: the epoll loop. *)

\* clients[i] is the first slot that holds f.
FirstSlot(i, f) == clients[i] = f /\ \A j \in Slots : j < i => clients[j] # f

\* The server's end of these connections is closed; unread input is lost.
Finish(ended) ==
    /\ peer' = [c \in Conns |-> IF c \in ended THEN "over" ELSE peer[c]]
    /\ unread' = [c \in Conns |-> unread[c] /\ c \notin ended]
    /\ served' = served \ ended

Ready ==
    {f \in ClientFds : f \in epoll /\ (unread[conn[f]] \/ peer[conn[f]] \in {"closed", "reset"})}
    \cup {f \in {ListenFd} : backlog # <<>>}
    \cup {f \in {FifoFd} : fifo > 0}
    \cup {f \in {TimerFd} : expired}
    \cup {f \in {NotifyFd} : notify > 0}

\* At most 4 + MAX_CLIENTS descriptors are ready and MAX_EPOLL_EVENTS is 16:
\* the batch is all of them.
SrvWait ==
    /\ spc = "wait"
    /\ Ready # {}
    /\ batch' = Ready
    /\ spc' = "dispatch"
    /\ UNCHANGED <<lock, notify, sctx, local, timeVars, fifoVars, sockVars>>
    /\ SrvUnchanged

\* Mutant: no timeout, and the signal has interrupted the other thread.
SrvStopOnEvent ==
    /\ spc = "wait"
    /\ stop
    /\ Ready # {}
    /\ spc' = "close"
    /\ UNCHANGED <<lock, notify, sctx, local, batch, timeVars, fifoVars, sockVars>>
    /\ SrvUnchanged

\* The wait ends by EINTR or within its second, and g_stop is set.
SrvStop ==
    /\ spc = "wait"
    /\ stop
    /\ spc' = "close"
    /\ UNCHANGED <<lock, notify, sctx, local, batch, timeVars, fifoVars, sockVars>>
    /\ SrvUnchanged

SrvBatchDone ==
    /\ spc = "dispatch"
    /\ batch = {}
    /\ spc' = IF stop THEN "close" ELSE "wait"
    /\ UNCHANGED <<lock, notify, sctx, local, batch, timeVars, fifoVars, sockVars>>
    /\ SrvUnchanged

\* The events of a batch are handled one after the other, in any order.
Take(f) == spc = "dispatch" /\ f \in batch /\ batch' = batch \ {f}

SrvListen ==
    /\ Take(ListenFd)
    /\ spc' = "accept"
    /\ UNCHANGED <<lock, notify, sctx, local, timeVars, fifoVars, sockVars>>
    /\ SrvUnchanged

HasRoom == \E i \in Slots : clients[i] = NoFd

\* accept4, epoll_ctl and add_client; a connection the table has no room for
\* is closed again, which also takes it out of the epoll set.
SrvAccept ==
    /\ spc = "accept"
    /\ backlog # <<>>
    /\ LET c == Head(backlog) IN
       IF HasRoom
         THEN \E f \in ClientFds, i \in Slots :
                /\ conn[f] = NoConn
                /\ \A g \in ClientFds : g < f => conn[g] # NoConn
                /\ FirstSlot(i, NoFd)
                /\ conn' = [conn EXCEPT ![f] = c]
                /\ epoll' = epoll \cup {f}
                /\ clients' = [clients EXCEPT ![i] = f]
                /\ UNCHANGED <<peer, unread, served>>
         ELSE Finish({c}) /\ UNCHANGED <<conn, epoll, clients>>
    /\ backlog' = Tail(backlog)
    /\ UNCHANGED <<lock, notify, srvVars, timeVars, fifoVars>>
    /\ SrvUnchanged

SrvAcceptDone ==
    /\ spc = "accept"
    /\ backlog = <<>>
    /\ spc' = "dispatch"
    /\ UNCHANGED <<lock, notify, sctx, local, batch, timeVars, fifoVars, sockVars>>
    /\ SrvUnchanged

SrvFifo ==
    /\ Take(FifoFd)
    /\ spc' = "drain"
    /\ UNCHANGED <<lock, notify, sctx, local, timeVars, fifoVars, sockVars>>
    /\ SrvUnchanged

\* The FIFO is read until it is empty; nothing else is looked at meanwhile.
SrvDrain ==
    /\ spc = "drain"
    /\ IF fifo > 0
         THEN fifo' = fifo - 1 /\ UNCHANGED spc
         ELSE spc' = "dispatch" /\ UNCHANGED fifo
    /\ UNCHANGED <<lock, notify, sctx, local, batch, timeVars, fifoLeft, sockVars>>
    /\ SrvUnchanged

\* Mutant: nothing is sent before a configuration was read.
TickOfValidConfig == expired /\ valid

Tick == expired

\* The expiration may be gone: a notification of the same batch has set the timer.
SrvTimer ==
    /\ Take(TimerFd)
    /\ expired' = FALSE
    /\ IF Tick
         THEN sctx' = "tick" /\ spc' = "lock"
         ELSE UNCHANGED <<sctx, spc>>
    /\ UNCHANGED <<lock, notify, local, armed, fifoVars, sockVars>>
    /\ SrvUnchanged

\* Mutant: the slot stays in use.
KeepSlot(i) == UNCHANGED clients

ReleaseSlot(i) == clients' = [clients EXCEPT ![i] = NoFd]

\* remove_client: only a descriptor of the table is closed.
RemoveClient(f) ==
    IF f \in Used
      THEN /\ \E i \in Slots : FirstSlot(i, f) /\ ReleaseSlot(i)
           /\ conn' = [conn EXCEPT ![f] = NoConn]
           /\ epoll' = epoll \ {f}
           /\ Finish({conn[f]})
      ELSE UNCHANGED <<clients, conn, epoll, peer, unread, served>>

\* Mutant: a client whose write fails is removed at once.
SrvBroadcastAndRemove ==
    /\ spc = "broadcast"
    /\ spc' = "dispatch"
    /\ LET lost == {f \in Used : peer[conn[f]] = "reset"} IN
       IF lost # {}
         THEN \E f \in lost : RemoveClient(f)
         ELSE UNCHANGED <<clients, conn, epoll, peer, unread, served>>
    /\ UNCHANGED <<lock, notify, sctx, local, batch, timeVars, fifoVars, backlog>>
    /\ SrvUnchanged

\* The message is written to every client of the table; a failed write is only
\* reported, the epoll set tells later that the client is gone.
SrvBroadcast ==
    /\ spc = "broadcast"
    /\ served' = served \cup {conn[f] : f \in Used}
    /\ spc' = "dispatch"
    /\ UNCHANGED <<lock, notify, sctx, local, batch, timeVars, fifoVars, backlog,
                   conn, epoll, clients, peer, unread>>
    /\ SrvUnchanged

SrvNotify ==
    /\ Take(NotifyFd)
    /\ notify' = 0
    /\ sctx' = "notify"
    /\ spc' = "lock"
    /\ UNCHANGED <<lock, local, timeVars, fifoVars, sockVars>>
    /\ SrvUnchanged

\* Mutant: end of file is not looked at.
GoneOnError(f) == conn[f] = NoConn \/ peer[conn[f]] = "reset"

\* EPOLLHUP or EPOLLERR, end of file, or an error of read.
Gone(f) ==
    \/ conn[f] = NoConn
    \/ peer[conn[f]] = "reset"
    \/ peer[conn[f]] = "closed" /\ ~unread[conn[f]]

SrvClient ==
    /\ \E f \in ClientFds :
         /\ Take(f)
         /\ IF Gone(f)
              THEN RemoveClient(f)
              ELSE /\ unread' = [unread EXCEPT ![conn[f]] = FALSE]
                   /\ UNCHANGED <<clients, conn, epoll, peer, served>>
    /\ UNCHANGED <<lock, notify, spc, sctx, local, timeVars, fifoVars, backlog>>
    /\ SrvUnchanged

\* After the loop: the clients of the table, the listening socket and the rest
\* are closed, and the FIFO is unlinked.
SrvClose ==
    /\ spc = "close"
    /\ spc' = "done"
    /\ conn' = [f \in ClientFds |-> IF f \in Used THEN NoConn ELSE conn[f]]
    /\ epoll' = {}
    /\ backlog' = <<>>
    /\ Finish({conn[f] : f \in Used} \cup {backlog[k] : k \in 1 .. Len(backlog)})
    /\ armed' = 0
    /\ expired' = FALSE
    /\ UNCHANGED <<lock, notify, sctx, local, batch, fifoVars, clients>>
    /\ SrvUnchanged

Server ==
    \/ SrvStart \/ SrvLock \/ SrvReadPeriod \/ SrvReadVersion \/ SrvArm
    \/ SrvWait \/ SrvStop \/ SrvBatchDone \/ SrvListen \/ SrvAccept
    \/ SrvAcceptDone \/ SrvFifo \/ SrvDrain \/ SrvTimer \/ SrvBroadcast
    \/ SrvNotify \/ SrvClient \/ SrvClose

-----------------------------------------------------------------------------
(* The rest of the world. *)

EnvUnchanged == UNCHANGED <<fileVars, cfgVars, notify, monVars, srvVars>>

\* on_sigint.  The EINTR it causes only ends an epoll_wait early.
OnSigint ==
    /\ ~stop
    /\ stop' = TRUE
    /\ UNCHANGED <<exited, timeVars, fifoVars, sockVars>>
    /\ EnvUnchanged

\* main joins the two threads and returns.
MainReturns ==
    /\ ~exited
    /\ mpc \in {"failed", "done"}
    /\ spc \in {"failed", "done"}
    /\ exited' = TRUE
    /\ UNCHANGED <<stop, timeVars, fifoVars, sockVars>>
    /\ EnvUnchanged

Expire ==
    /\ armed > 0
    /\ ~expired
    /\ expired' = TRUE
    /\ UNCHANGED <<stop, exited, armed, fifoVars, sockVars>>
    /\ EnvUnchanged

WriteFifo ==
    /\ Listening
    /\ fifoLeft > 0
    /\ fifoLeft' = fifoLeft - 1
    /\ fifo' = fifo + 1
    /\ UNCHANGED <<stop, exited, timeVars, sockVars>>
    /\ EnvUnchanged

PeerUnchanged ==
    /\ UNCHANGED <<stop, exited, timeVars, fifoVars, conn, epoll, clients, served>>
    /\ EnvUnchanged

Connect(c) ==
    /\ Listening
    /\ peer[c] = "idle"
    /\ peer' = [peer EXCEPT ![c] = "open"]
    /\ backlog' = Append(backlog, c)
    /\ UNCHANGED unread
    /\ PeerUnchanged

Send(c) ==
    /\ peer[c] = "open"
    /\ unread' = [unread EXCEPT ![c] = TRUE]
    /\ UNCHANGED <<peer, backlog>>
    /\ PeerUnchanged

\* The peer shuts its end down, or the connection is reset and its data lost.
Disconnect(c) ==
    /\ peer[c] = "open"
    /\ \/ peer' = [peer EXCEPT ![c] = "closed"] /\ UNCHANGED unread
       \/ /\ peer' = [peer EXCEPT ![c] = "reset"]
          /\ unread' = [unread EXCEPT ![c] = FALSE]
    /\ UNCHANGED backlog
    /\ PeerUnchanged

Terminated == exited /\ UNCHANGED vars

Next ==
    \/ OpenForWriting \/ CloseAfterWriting \/ RenameOver \/ Remove
    \/ Monitor \/ Server
    \/ OnSigint \/ MainReturns \/ Expire \/ WriteFifo
    \/ \E c \in Conns : Connect(c) \/ Send(c) \/ Disconnect(c)
    \/ Terminated

\* Both threads and main keep running, and time passes; nobody has to edit the
\* file, connect, disconnect or press Ctrl+C.  The mutex is held for a few copies
\* once in a period: a thread that asks for it again and again gets it.
Fairness ==
    /\ WF_vars(Monitor)
    /\ WF_vars(Server)
    /\ SF_vars(MonLock)
    /\ SF_vars(SrvLock)
    /\ WF_vars(MainReturns)
    /\ WF_vars(Expire)

Spec == Init /\ [][Next]_vars /\ Fairness

-----------------------------------------------------------------------------
(* Properties. *)

MonPoints == {"start", "failed", "load", "wait", "events", "lock",
              "write version", "write period", "notify", "done"}
SrvPoints == {"start", "failed", "lock", "read period", "read version", "arm",
              "broadcast", "wait", "dispatch", "accept", "drain",
              "close", "done"}

\* Types of the shared data, of the threads' local variables and of the tables.
TypeOK ==
    /\ file \in Configs \cup {Absent, Malformed, Truncated}
    /\ edits \in 0 .. MaxEdits
    /\ inotify \in Seq({"updated", "removed"})
    /\ stop \in BOOLEAN
    /\ exited \in BOOLEAN
    /\ lock \in {Free, "monitor", "server"}
    /\ cfg \in Configs
    /\ valid \in BOOLEAN
    /\ notify \in Nat
    /\ mpc \in MonPoints
    /\ mevents \in Seq({"updated", "removed"})
    /\ mcfg \in Configs
    /\ changed \in BOOLEAN
    /\ spc \in SrvPoints
    /\ sctx \in {"init", "tick", "notify"}
    /\ local \in Configs
    /\ batch \subseteq {ListenFd, FifoFd, TimerFd, NotifyFd} \cup ClientFds
    /\ armed \in {p \in Periods : p >= 0} \cup {0}
    /\ expired \in BOOLEAN
    /\ fifo \in Nat
    /\ fifoLeft \in Nat
    /\ backlog \in Seq(Conns)
    /\ conn \in [ClientFds -> Conns \cup {NoConn}]
    /\ epoll \subseteq ClientFds
    /\ clients \in [Slots -> ClientFds \cup {NoFd}]
    /\ peer \in [Conns -> {"idle", "open", "closed", "reset", "over"}]
    /\ unread \in [Conns -> BOOLEAN]
    /\ served \subseteq Conns

\* The server has not read g_cfg since it started, or since it was notified.
AboutToRead ==
    \/ spc \in {"start", "failed"}
    \/ sctx \in {"init", "notify"} /\ spc \in {"lock", "read period"}
    \/ spc = "read version"

\* A notification is on its way to the server thread.
Announced ==
    \/ notify > 0
    \/ changed /\ mpc \in {"write period", "notify"}

\* Whenever the version or the period the server thread works with differs from
\* g_cfg, a notification is under way or the server is about to read g_cfg: a
\* telemetry message may mix a new version with the old period (the tick reads
\* sw_version only), but no update of the monitor can be missed.
StaleMeansNotified == local # cfg => AboutToRead \/ Announced

\* The server leaves its critical section with a version and a period that were
\* published together: never one field of an update and one of the previous.
SnapshotIsConsistent ==
    [][spc = "read version" /\ spc' = "arm" => local' = cfg /\ mpc # "write period"]_vars

\* Versions in telemetry never go back to an earlier configuration, although
\* parsing the file, publishing it and reading it are steps of two threads.
VersionsNeverGoBack == [][local'.version >= local.version]_vars

\* The table of clients, the epoll set and the open descriptors agree, and no
\* descriptor or connection is in the table twice: nothing leaks, and nothing
\* is polled or written to after it was closed.
TableIsEpollSet ==
    Listening =>
        /\ Used = epoll
        /\ epoll = {f \in ClientFds : conn[f] # NoConn}
        /\ \A i, j \in Slots : clients[i] = clients[j] /\ clients[i] # NoFd => i = j
        /\ \A f, g \in epoll : conn[f] = conn[g] => f = g

\* No handler of a batch closes a descriptor whose event is still to come in that
\* batch: the event would hit a closed descriptor, or its next owner.
BatchIsLive == \A f \in batch \cap ClientFds : conn[f] # NoConn

\* The server ends the connection of a peer that stays only when the table is
\* full or when it stops.
DropsOnlyWhenFull ==
    [][\A c \in Conns : peer[c] = "open" /\ peer'[c] = "over"
            => stop \/ Cardinality(Used) = MaxClients]_vars

BothRun == mpc # "failed" /\ spc # "failed"

\* Once the editing is over, the configuration on disk is the one published, the
\* one the server works with and the one the timer runs with (a negative period
\* leaves the timer alone).
ConfigIsApplied ==
    <>[](BothRun /\ ~stop /\ file \in Configs =>
            /\ cfg = file
            /\ local = file
            /\ file.period >= 0 => armed = file.period)

\* Ctrl+C ends both threads and main, whatever the two threads are doing.
StopEndsProcess == stop ~> exited

\* The descriptor of a peer that has left is closed.
GoneClientsLeave ==
    \A c \in Conns : peer[c] \in {"closed", "reset"} ~> (\A f \in ClientFds : conn[f] # c)

\* A connected client gets telemetry, unless it leaves, the table is full, the
\* timer is not armed, or the server stops.
ClientsAreServed ==
    \A c \in Conns : peer[c] = "open" ~> (c \in served \/ peer[c] # "open" \/ armed = 0 \/ stop)
==============================================================================
