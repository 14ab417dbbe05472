------------------------- MODULE TelemetryServerProofs -------------------------
(* Theorems about TelemetryServer, for any number of connections, any size of  *)
(* the table of clients, any set of periods and any number of edits: about its  *)
(* sockets and clients first, then about the channel from config.json to the    *)
(* server thread, g_cfg under its mutex and the eventfd.                        *)
EXTENDS TelemetryServer, FiniteSetTheorems, TLAPS

-----------------------------------------------------------------------------
(* Configurations. *)

\* A configuration is its two fields: writing one of them, as the critical
\* sections of g_cfg do, gives a configuration and leaves the other alone.
LEMMA ConfigFields ==
    ASSUME NEW c \in Configs, NEW d \in Configs
    PROVE  /\ [c EXCEPT !.version = d.version] \in Configs
           /\ [c EXCEPT !.version = d.version].version = d.version
           /\ [c EXCEPT !.version = d.version].period = c.period
           /\ [c EXCEPT !.period = d.period] \in Configs
           /\ [c EXCEPT !.period = d.period].version = c.version
           /\ [c EXCEPT !.period = d.period].period = d.period
           /\ c.version \in Int /\ c.version >= 0
           /\ c.period \in Periods
BY DEF Configs, Versions

\* Two configurations that agree on both fields are the same.
LEMMA SameConfig ==
    ASSUME NEW c \in Configs, NEW d \in Configs,
           c.version = d.version, c.period = d.period
    PROVE  c = d
BY DEF Configs

\* The value g_cfg starts with is a configuration.
LEMMA DefaultIsConfig == Default \in Configs
BY PeriodsAssumption, BoundsAssumption DEF Configs, Default, Versions

\* The editor writes configurations or bad JSON, as long as it may edit at all.
LEMMA ContentsAreConfigs ==
    ASSUME edits \in 0 .. MaxEdits, edits < MaxEdits
    PROVE  Contents \subseteq Configs \cup {Malformed}
BY BoundsAssumption DEF Contents, Configs, Versions

-----------------------------------------------------------------------------
(* Type correctness, with the invariant of the table of clients it rests on:   *)
(* a descriptor in clients[] must have a connection for a broadcast to reach.  *)

\* Until the server has closed everything, each slot in use holds a descriptor of
\* its own, and the descriptors in slots are those polled and those connected.
TableAgrees ==
    spc # "done" =>
        /\ \A i \in Slots : clients[i] # NoFd => clients[i] \in epoll
        /\ \A f \in epoll : \E i \in Slots : clients[i] = f
        /\ \A i, j \in Slots : clients[i] = clients[j] /\ clients[i] # NoFd => i = j
        /\ \A f \in ClientFds : f \in epoll <=> conn[f] # NoConn

\* The static data and the stack of both threads start with the right types.
LEMMA TypeInit == Init => TypeOK
<1> SUFFICES ASSUME Init PROVE TypeOK
    OBVIOUS
<1>1. file \in Configs \cup {Absent, Malformed, Truncated}
      BY InitialFilesAssumption, BoundsAssumption DEF Init, Configs, Versions
<1>2. armed \in {p \in Periods : p >= 0} \cup {0}
      BY DEF Init
<1>3. /\ cfg \in Configs
      /\ mcfg \in Configs
      /\ local \in Configs
      BY DefaultIsConfig DEF Init
<1>4. /\ edits \in 0 .. MaxEdits
      /\ fifoLeft \in Nat
      /\ notify \in Nat
      /\ fifo \in Nat
      BY BoundsAssumption DEF Init
<1>5. /\ inotify \in Seq({"updated", "removed"})
      /\ mevents \in Seq({"updated", "removed"})
      /\ backlog \in Seq(Conns)
      BY DEF Init
<1>6. mpc \in MonPoints /\ spc \in SrvPoints
      BY DEF Init, MonPoints, SrvPoints
<1>7. /\ conn \in [ClientFds -> Conns \cup {NoConn}]
      /\ clients \in [Slots -> ClientFds \cup {NoFd}]
      /\ peer \in [Conns -> {"idle", "open", "closed", "reset", "over"}]
      /\ unread \in [Conns -> BOOLEAN]
      BY DEF Init
<1> QED BY <1>1, <1>2, <1>3, <1>4, <1>5, <1>6, <1>7 DEF Init, TypeOK

-----------------------------------------------------------------------------
(* The types by owner of the state: a step touches few of these groups, and    *)
(* keeps each of the others by leaving its variables alone.                    *)

WorldTypes ==
    /\ file \in Configs \cup {Absent, Malformed, Truncated}
    /\ edits \in 0 .. MaxEdits
    /\ inotify \in Seq({"updated", "removed"})
    /\ fifoLeft \in Nat

ProcessTypes ==
    /\ stop \in BOOLEAN
    /\ exited \in BOOLEAN
    /\ lock \in {Free, "monitor", "server"}
    /\ cfg \in Configs
    /\ valid \in BOOLEAN
    /\ notify \in Nat

MonTypes ==
    /\ mpc \in MonPoints
    /\ mevents \in Seq({"updated", "removed"})
    /\ mcfg \in Configs
    /\ changed \in BOOLEAN

SrvTypes ==
    /\ spc \in SrvPoints
    /\ sctx \in {"init", "tick", "notify"}
    /\ local \in Configs
    /\ batch \subseteq {ListenFd, FifoFd, TimerFd, NotifyFd} \cup ClientFds
    /\ armed \in {p \in Periods : p >= 0} \cup {0}
    /\ expired \in BOOLEAN
    /\ fifo \in Nat

SockTypes ==
    /\ backlog \in Seq(Conns)
    /\ conn \in [ClientFds -> Conns \cup {NoConn}]
    /\ epoll \subseteq ClientFds
    /\ clients \in [Slots -> ClientFds \cup {NoFd}]
    /\ peer \in [Conns -> {"idle", "open", "closed", "reset", "over"}]
    /\ unread \in [Conns -> BOOLEAN]
    /\ served \subseteq Conns

\* The groups make up the types, in a state and in the next one.
LEMMA TypeGroups ==
    /\ TypeOK => WorldTypes /\ ProcessTypes /\ MonTypes /\ SrvTypes /\ SockTypes
    /\ WorldTypes' /\ ProcessTypes' /\ MonTypes' /\ SrvTypes' /\ SockTypes' => TypeOK'
BY ZenonT(20) DEF TypeOK, WorldTypes, ProcessTypes, MonTypes, SrvTypes, SockTypes

\* The inotify queue and the writer of the FIFO as they were.
LEMMA WorldTypesKept == ASSUME WorldTypes, UNCHANGED fileVars, UNCHANGED fifoLeft PROVE WorldTypes'
BY DEF WorldTypes, fileVars

\* The globals of the process as they were.
LEMMA ProcessTypesKept ==
    ASSUME ProcessTypes, UNCHANGED <<stop, exited, lock, cfg, valid, notify>>
    PROVE  ProcessTypes'
BY DEF ProcessTypes

\* The monitor thread where it was.
LEMMA MonTypesKept == ASSUME MonTypes, UNCHANGED monVars PROVE MonTypes'
BY DEF MonTypes, monVars

\* The server thread where it was, with its timer and its FIFO.
LEMMA SrvTypesKept ==
    ASSUME SrvTypes, UNCHANGED <<srvVars, timeVars, fifo>>
    PROVE  SrvTypes'
BY DEF SrvTypes, srvVars, timeVars

\* The sockets as they were.
LEMMA SockTypesKept == ASSUME SockTypes, UNCHANGED sockVars PROVE SockTypes'
BY DEF SockTypes, sockVars

\* A step of the server thread that leaves the sockets, the world and all of the
\* process but the mutex alone keeps the types if it keeps those of its own state.
LEMMA ServerOwnStep ==
    ASSUME TypeOK, SrvTypes', lock' \in {Free, "monitor", "server"},
           UNCHANGED fileVars, UNCHANGED <<fifoLeft, stop, exited, cfg, valid, notify>>,
           UNCHANGED monVars, UNCHANGED sockVars
    PROVE  TypeOK'
<1>1. WorldTypes' /\ MonTypes' /\ SockTypes'
      BY TypeGroups, WorldTypesKept, MonTypesKept, SockTypesKept
<1>2. ProcessTypes'
      BY TypeGroups DEF ProcessTypes
<1> QED BY <1>1, <1>2, TypeGroups

\* Each step preserves the types, whichever thread or part of the world takes it.
LEMMA TypeStep == TypeOK /\ TableAgrees /\ [Next]_vars => TypeOK'
<1> SUFFICES ASSUME TypeOK, TableAgrees, [Next]_vars
             PROVE  TypeOK'
    OBVIOUS
<1> USE DEF fileVars, cfgVars, monVars, srvVars, timeVars, fifoVars, sockVars,
            MonUnchanged, SrvUnchanged, EnvUnchanged, PeerUnchanged
<1>1. CASE OpenForWriting \/ CloseAfterWriting \/ RenameOver \/ Remove
  <2> DEFINE File == Configs \cup {Absent, Malformed, Truncated}
  <2>1. /\ file' \in File
        /\ edits' \in 0 .. MaxEdits
        BY <1>1, ContentsAreConfigs, BoundsAssumption
        DEF OpenForWriting, CloseAfterWriting, RenameOver, Remove, Edit, TypeOK
  <2>2. inotify' \in Seq({"updated", "removed"})
    <3>1. \/ inotify' = inotify
          \/ inotify' = Append(inotify, "updated")
          \/ inotify' = Append(inotify, "removed")
      <4>1. CASE OpenForWriting
            BY <4>1 DEF OpenForWriting
      <4>2. CASE CloseAfterWriting
            BY <4>2 DEF CloseAfterWriting, Queue, Watched
      <4>3. CASE RenameOver
            BY <4>3 DEF RenameOver, Queue, Watched
      <4>4. CASE Remove
            BY <4>4 DEF Remove, Queue, Watched
      <4> QED BY <1>1, <4>1, <4>2, <4>3, <4>4
    <3>2. /\ inotify \in Seq({"updated", "removed"})
          /\ Append(inotify, "updated") \in Seq({"updated", "removed"})
          /\ Append(inotify, "removed") \in Seq({"updated", "removed"})
          BY DEF TypeOK
    <3> QED BY <3>1, <3>2
  <2>3. UNCHANGED <<stop, exited, cfgVars, notify, monVars, srvVars, timeVars,
                    fifoVars, sockVars>>
        BY <1>1 DEF OpenForWriting, CloseAfterWriting, RenameOver, Remove, Edit
  <2> QED BY <2>1, <2>2, <2>3 DEF TypeOK
<1>2. CASE Monitor
  <2>1. CASE MonWatch
    <3>1. mpc' \in MonPoints
          BY <2>1 DEF MonWatch, MonPoints
    <3> QED BY <2>1, <3>1 DEF MonWatch, TypeOK
  <2>2. CASE MonLoad
    <3>1. mcfg' \in Configs /\ mpc' \in MonPoints
          BY <2>2, TypeGroups DEF MonLoad, ParseInto, MonPoints, MonTypes
    <3>2. mevents' = mevents /\ changed' = TRUE
          BY <2>2 DEF MonLoad
    <3>3. MonTypes'
          BY <3>1, <3>2, TypeGroups DEF MonTypes
    <3>4. /\ UNCHANGED fileVars /\ UNCHANGED fifoLeft
          /\ UNCHANGED <<stop, exited, lock, cfg, valid, notify>>
          /\ UNCHANGED <<srvVars, timeVars, fifo>> /\ UNCHANGED sockVars
          BY <2>2 DEF MonLoad
    <3>5. WorldTypes' /\ ProcessTypes' /\ SrvTypes' /\ SockTypes'
          BY <3>4, TypeGroups, WorldTypesKept, ProcessTypesKept, SrvTypesKept, SockTypesKept
    <3> QED BY <3>3, <3>5, TypeGroups
  <2>3. CASE MonWait
        BY <2>3 DEF MonWait, MonPoints, TypeOK
  <2>4. CASE MonStop
        BY <2>4 DEF MonStop, MonPoints, TypeOK
  <2>5. CASE MonEvent
    <3>1. mevents' \in Seq({"updated", "removed"})
          BY <2>5 DEF MonEvent, TypeOK
    <3>2. mcfg' \in Configs /\ mpc' \in MonPoints
          BY <2>5 DEF MonEvent, ParseInto, KeepConfig, MonPoints, TypeOK
    <3> QED BY <2>5, <3>1, <3>2 DEF MonEvent, TypeOK
  <2>6. CASE MonEventsDone
        BY <2>6 DEF MonEventsDone, MonPoints, TypeOK
  <2>7. CASE MonLock
        BY <2>7 DEF MonLock, Acquire, MonPoints, TypeOK
  <2>8. CASE MonWriteVersion
    <3>1. cfg' \in Configs
          BY <2>8, ConfigFields DEF MonWriteVersion, TypeOK
    <3>2. ProcessTypes /\ MonTypes
          BY TypeGroups
    <3>3. ProcessTypes'
          BY <2>8, <3>1, <3>2 DEF MonWriteVersion, ProcessTypes
    <3>4. MonTypes'
          BY <2>8, <3>2 DEF MonWriteVersion, MonPoints, MonTypes
    <3>5. /\ UNCHANGED fileVars /\ UNCHANGED fifoLeft
          /\ UNCHANGED <<srvVars, timeVars, fifo>> /\ UNCHANGED sockVars
          BY <2>8 DEF MonWriteVersion
    <3>6. WorldTypes' /\ SrvTypes' /\ SockTypes'
          BY <3>5, TypeGroups, WorldTypesKept, SrvTypesKept, SockTypesKept
    <3> QED BY <3>3, <3>4, <3>6, TypeGroups
  <2>9. CASE MonWritePeriod
    <3>1. cfg' \in Configs
          BY <2>9, ConfigFields DEF MonWritePeriod, TypeOK
    <3>2. ProcessTypes /\ MonTypes
          BY TypeGroups
    <3>3. ProcessTypes'
          BY <2>9, <3>1, <3>2 DEF MonWritePeriod, ProcessTypes
    <3>4. MonTypes'
          BY <2>9, <3>2 DEF MonWritePeriod, MonPoints, MonTypes
    <3>5. /\ UNCHANGED fileVars /\ UNCHANGED fifoLeft
          /\ UNCHANGED <<srvVars, timeVars, fifo>> /\ UNCHANGED sockVars
          BY <2>9 DEF MonWritePeriod
    <3>6. WorldTypes' /\ SrvTypes' /\ SockTypes'
          BY <3>5, TypeGroups, WorldTypesKept, SrvTypesKept, SockTypesKept
    <3> QED BY <3>3, <3>4, <3>6, TypeGroups
  <2>10. CASE MonNotify
         BY <2>10 DEF MonNotify, MonPoints, TypeOK
  <2> QED BY <1>2, <2>1, <2>2, <2>3, <2>4, <2>5, <2>6, <2>7, <2>8, <2>9, <2>10
          DEF Monitor
<1>3. CASE Server
  <2>1. CASE SrvStart
    <3>1. spc' \in SrvPoints
          BY <2>1 DEF SrvStart, SrvPoints
    <3> QED BY <2>1, <3>1 DEF SrvStart, TypeOK
  <2>2. CASE SrvLock
        BY <2>2 DEF SrvLock, Acquire, SrvPoints, TypeOK
  <2>3. CASE SrvReadPeriod
    <3>1. local' \in Configs
          BY <2>3, ConfigFields DEF SrvReadPeriod, TypeOK
    <3>2. SrvTypes'
          BY <2>3, <3>1, TypeGroups DEF SrvReadPeriod, SrvPoints, SrvTypes
    <3>3. /\ lock' \in {Free, "monitor", "server"}
          /\ UNCHANGED fileVars /\ UNCHANGED <<fifoLeft, stop, exited, cfg, valid, notify>>
          /\ UNCHANGED monVars /\ UNCHANGED sockVars
          BY <2>3, TypeGroups DEF SrvReadPeriod, ProcessTypes
    <3> QED BY <3>2, <3>3, ServerOwnStep
  <2>4. CASE SrvReadVersion
    <3>1. local' \in Configs
          BY <2>4, ConfigFields DEF SrvReadVersion, TypeOK
    <3>2. SrvTypes'
          BY <2>4, <3>1, TypeGroups DEF SrvReadVersion, SrvPoints, SrvTypes
    <3>3. /\ lock' \in {Free, "monitor", "server"}
          /\ UNCHANGED fileVars /\ UNCHANGED <<fifoLeft, stop, exited, cfg, valid, notify>>
          /\ UNCHANGED monVars /\ UNCHANGED sockVars
          BY <2>4 DEF SrvReadVersion
    <3> QED BY <3>2, <3>3, ServerOwnStep
  <2>5. CASE SrvArm
    <3>1. armed' \in {p \in Periods : p >= 0} \cup {0}
          BY <2>5, ConfigFields DEF SrvArm, TimerAccepts, TypeOK
    <3>2. expired' \in BOOLEAN
          BY <2>5, TypeGroups DEF SrvArm, SrvTypes
    <3>3. SrvTypes'
          BY <2>5, <3>1, <3>2, TypeGroups DEF SrvArm, SrvPoints, SrvTypes
    <3>4. /\ lock' \in {Free, "monitor", "server"}
          /\ UNCHANGED fileVars /\ UNCHANGED <<fifoLeft, stop, exited, cfg, valid, notify>>
          /\ UNCHANGED monVars /\ UNCHANGED sockVars
          BY <2>5, TypeGroups DEF SrvArm, ProcessTypes
    <3> QED BY <3>3, <3>4, ServerOwnStep
  <2>6. CASE SrvWait
    <3>1. batch' \subseteq {ListenFd, FifoFd, TimerFd, NotifyFd} \cup ClientFds
          BY <2>6 DEF SrvWait, Ready
    <3> QED BY <2>6, <3>1 DEF SrvWait, SrvPoints, TypeOK
  <2>7. CASE SrvStop
        BY <2>7 DEF SrvStop, SrvPoints, TypeOK
  <2>8. CASE SrvBatchDone
        BY <2>8 DEF SrvBatchDone, SrvPoints, TypeOK
  <2>9. CASE SrvListen
        BY <2>9 DEF SrvListen, Take, SrvPoints, TypeOK
  <2>10. CASE SrvAccept
    <3> DEFINE c == Head(backlog)
    <3>1. c \in Conns /\ backlog' \in Seq(Conns)
          BY <2>10 DEF SrvAccept, TypeOK
    <3>2. /\ conn' \in [ClientFds -> Conns \cup {NoConn}]
          /\ epoll' \subseteq ClientFds
          /\ clients' \in [Slots -> ClientFds \cup {NoFd}]
          /\ peer' \in [Conns -> {"idle", "open", "closed", "reset", "over"}]
          /\ unread' \in [Conns -> BOOLEAN]
          /\ served' \subseteq Conns
      <4>1. CASE HasRoom
            BY <2>10, <3>1, <4>1 DEF SrvAccept, TypeOK
      <4>2. CASE ~HasRoom
            BY <2>10, <4>2 DEF SrvAccept, Finish, TypeOK
      <4> QED BY <4>1, <4>2
    <3> QED BY <2>10, <3>1, <3>2 DEF SrvAccept, TypeOK
  <2>11. CASE SrvAcceptDone
         BY <2>11 DEF SrvAcceptDone, SrvPoints, TypeOK
  <2>12. CASE SrvFifo
         BY <2>12 DEF SrvFifo, Take, SrvPoints, TypeOK
  <2>13. CASE SrvDrain
    <3>1. SrvTypes /\ ProcessTypes
          BY TypeGroups
    <3>2. fifo' \in Nat /\ spc' \in SrvPoints
      <4>1. fifo \in Nat /\ spc \in SrvPoints
            BY <3>1 DEF SrvTypes
      <4>2. CASE fifo > 0
        <5>1. fifo' = fifo - 1 /\ spc' = spc
              BY <2>13, <4>2 DEF SrvDrain
        <5> QED BY <4>1, <4>2, <5>1
      <4>3. CASE ~(fifo > 0)
        <5>1. fifo' = fifo /\ spc' = "dispatch"
              BY <2>13, <4>3 DEF SrvDrain
        <5> QED BY <4>1, <5>1 DEF SrvPoints
      <4> QED BY <4>2, <4>3
    <3>3. UNCHANGED <<sctx, local, batch, armed, expired>>
          BY <2>13 DEF SrvDrain
    <3>4. SrvTypes'
          BY <3>1, <3>2, <3>3 DEF SrvTypes
    <3>5. /\ UNCHANGED fileVars /\ UNCHANGED <<fifoLeft, stop, exited, cfg, valid, notify>>
          /\ UNCHANGED monVars /\ UNCHANGED sockVars
          BY <2>13 DEF SrvDrain
    <3>6. lock' \in {Free, "monitor", "server"}
      <4>1. lock' = lock
            BY <2>13 DEF SrvDrain
      <4> QED BY <3>1, <4>1 DEF ProcessTypes
    <3> QED BY <3>4, <3>5, <3>6, ServerOwnStep
  <2>14. CASE SrvTimer
    <3>1. SrvTypes /\ ProcessTypes
          BY TypeGroups
    <3>2. batch' \subseteq batch
          BY <2>14 DEF SrvTimer, Take
    <3>3. sctx' \in {"init", "tick", "notify"} /\ spc' \in SrvPoints
          BY <2>14, <3>1 DEF SrvTimer, SrvPoints, SrvTypes
    <3>4. expired' = FALSE /\ UNCHANGED <<local, armed, fifo, lock>>
          BY <2>14 DEF SrvTimer
    <3>5. SrvTypes'
          BY <3>1, <3>2, <3>3, <3>4 DEF SrvTypes
    <3>6. /\ UNCHANGED fileVars /\ UNCHANGED <<fifoLeft, stop, exited, cfg, valid, notify>>
          /\ UNCHANGED monVars /\ UNCHANGED sockVars
          BY <2>14 DEF SrvTimer
    <3>7. lock' \in {Free, "monitor", "server"}
          BY <3>1, <3>4 DEF ProcessTypes
    <3> QED BY <3>5, <3>6, <3>7, ServerOwnStep
  <2>15. CASE SrvBroadcast
    <3>1. \A f \in Used : conn[f] \in Conns
          BY <2>15 DEF SrvBroadcast, Used, TableAgrees, TypeOK
    <3>2. served' \subseteq Conns
          BY <2>15, <3>1 DEF SrvBroadcast, TypeOK
    <3> QED BY <2>15, <3>2 DEF SrvBroadcast, SrvPoints, TypeOK
  <2>16. CASE SrvNotify
         BY <2>16 DEF SrvNotify, Take, SrvPoints, TypeOK
  <2>17. CASE SrvClient
    <3>1. PICK f \in ClientFds :
            /\ Take(f)
            /\ IF Gone(f)
                 THEN RemoveClient(f)
                 ELSE /\ unread' = [unread EXCEPT ![conn[f]] = FALSE]
                      /\ UNCHANGED <<clients, conn, epoll, peer, served>>
          BY <2>17 DEF SrvClient
    <3>2. batch' \subseteq {ListenFd, FifoFd, TimerFd, NotifyFd} \cup ClientFds
          BY <3>1 DEF Take, TypeOK
    <3>3. /\ conn' \in [ClientFds -> Conns \cup {NoConn}]
          /\ epoll' \subseteq ClientFds
          /\ clients' \in [Slots -> ClientFds \cup {NoFd}]
          /\ peer' \in [Conns -> {"idle", "open", "closed", "reset", "over"}]
          /\ unread' \in [Conns -> BOOLEAN]
          /\ served' \subseteq Conns
      <4>1. CASE Gone(f) /\ f \in Used
            BY <3>1, <4>1 DEF RemoveClient, ReleaseSlot, Finish, TypeOK
      <4>2. CASE Gone(f) /\ f \notin Used
            BY <3>1, <4>2 DEF RemoveClient, TypeOK
      <4>3. CASE ~Gone(f)
            BY <3>1, <4>3 DEF TypeOK
      <4> QED BY <4>1, <4>2, <4>3
    <3> QED BY <2>17, <3>2, <3>3 DEF SrvClient, TypeOK
  <2>18. CASE SrvClose
    <3>1. /\ conn' \in [ClientFds -> Conns \cup {NoConn}]
          /\ epoll' \subseteq ClientFds
          /\ backlog' \in Seq(Conns)
          BY <2>18 DEF SrvClose, TypeOK
    <3>2. /\ peer' \in [Conns -> {"idle", "open", "closed", "reset", "over"}]
          /\ unread' \in [Conns -> BOOLEAN]
          /\ served' \subseteq Conns
          BY <2>18 DEF SrvClose, Finish, TypeOK
    <3>3. armed' = 0 /\ expired' = FALSE /\ spc' \in SrvPoints
          BY <2>18 DEF SrvClose, SrvPoints
    <3> QED BY <2>18, <3>1, <3>2, <3>3 DEF SrvClose, TypeOK
  <2> QED BY <1>3, <2>1, <2>2, <2>3, <2>4, <2>5, <2>6, <2>7, <2>8, <2>9, <2>10,
             <2>11, <2>12, <2>13, <2>14, <2>15, <2>16, <2>17, <2>18 DEF Server
<1>4. CASE OnSigint \/ MainReturns \/ Expire
  <2>1. WorldTypes' /\ MonTypes' /\ SockTypes'
    <3>1. UNCHANGED <<fileVars, fifoLeft, monVars, sockVars>>
          BY <1>4 DEF OnSigint, MainReturns, Expire
    <3> QED BY <3>1, TypeGroups, WorldTypesKept, MonTypesKept, SockTypesKept
  <2>2. ProcessTypes'
        BY <1>4, TypeGroups DEF OnSigint, MainReturns, Expire, ProcessTypes
  <2>3. SrvTypes'
        BY <1>4, TypeGroups DEF OnSigint, MainReturns, Expire, SrvTypes
  <2> QED BY <2>1, <2>2, <2>3, TypeGroups
<1>5. CASE WriteFifo
  <2>1. fifo' \in Nat /\ fifoLeft' \in Nat
        BY <1>5 DEF WriteFifo, TypeOK
  <2> QED BY <1>5, <2>1 DEF WriteFifo, TypeOK
<1>6. CASE \E c \in Conns : Connect(c) \/ Send(c) \/ Disconnect(c)
  <2>1. PICK c \in Conns : Connect(c) \/ Send(c) \/ Disconnect(c)
        BY <1>6
  <2>2. CASE Connect(c)
        BY <2>2 DEF Connect, TypeOK
  <2>3. CASE Send(c)
        BY <2>3 DEF Send, TypeOK
  <2>4. CASE Disconnect(c)
    <3>1. peer' \in [Conns -> {"idle", "open", "closed", "reset", "over"}]
          BY <2>4 DEF Disconnect, TypeOK
    <3>2. unread' \in [Conns -> BOOLEAN]
          BY <2>4 DEF Disconnect, TypeOK
    <3> QED BY <2>4, <3>1, <3>2 DEF Disconnect, TypeOK
  <2> QED BY <2>1, <2>2, <2>3, <2>4
<1>7. CASE Terminated \/ UNCHANGED vars
      BY <1>7 DEF Terminated, vars, TypeOK
<1> QED BY <1>1, <1>2, <1>3, <1>4, <1>5, <1>6, <1>7 DEF Next

-----------------------------------------------------------------------------
(* The sockets: the table of clients, the epoll set and the batch of events.   *)

\* The descriptors are numbers of their own, none of them 0.
LEMMA Descriptors == NoFd \notin ClientFds
BY MaxClientsAssumption DEF NoFd, ClientFds

\* Connections, at most one descriptor each: those accepted, and those in the
\* backlog, once each and not accepted; a peer that has not connected has neither.
OneDescriptorEach ==
    spc # "done" =>
        /\ \A f, g \in epoll : conn[f] = conn[g] => f = g
        /\ \A f \in epoll : peer[conn[f]] # "idle"
        /\ \A k \in 1 .. Len(backlog) :
              /\ peer[backlog[k]] # "idle"
              /\ \A f \in epoll : conn[f] # backlog[k]
        /\ \A k, m \in 1 .. Len(backlog) : backlog[k] = backlog[m] => k = m

\* The slots, the epoll set and the open descriptors change together.
LEMMA TableStep == TypeOK /\ TableAgrees /\ [Next]_vars => TableAgrees'
<1> SUFFICES ASSUME TypeOK, TableAgrees, [Next]_vars
             PROVE  TableAgrees'
    OBVIOUS
<1> USE DEF fileVars, cfgVars, monVars, srvVars, timeVars, fifoVars, sockVars,
            MonUnchanged, SrvUnchanged, EnvUnchanged, PeerUnchanged
<1>1. CASE UNCHANGED <<conn, epoll, clients>> /\ (spc = "done" => spc' = "done")
      BY <1>1 DEF TableAgrees
<1>2. CASE OpenForWriting \/ CloseAfterWriting \/ RenameOver \/ Remove
      BY <1>1, <1>2 DEF OpenForWriting, CloseAfterWriting, RenameOver, Remove, Edit
<1>3. CASE Monitor
      BY <1>1, <1>3 DEF Monitor, MonWatch, MonLoad, MonWait, MonStop, MonEvent,
                        MonEventsDone, MonLock, MonWriteVersion, MonWritePeriod, MonNotify
<1>4. CASE Server
  <2>1. CASE SrvAccept
    <3>1. CASE HasRoom
      <4>1. PICK f \in ClientFds, i \in Slots :
               /\ conn[f] = NoConn
               /\ FirstSlot(i, NoFd)
               /\ conn' = [conn EXCEPT ![f] = Head(backlog)]
               /\ epoll' = epoll \cup {f}
               /\ clients' = [clients EXCEPT ![i] = f]
            BY <2>1, <3>1 DEF SrvAccept
      <4>2. Head(backlog) \in Conns
            BY <2>1 DEF SrvAccept, TypeOK
      <4>3. Head(backlog) # NoConn
            BY <4>2, ConnsAssumption DEF NoConn
      <4>4. spc # "done" /\ f \notin epoll
            BY <2>1, <4>1 DEF SrvAccept, TableAgrees
      <4>5. clients[i] = NoFd
            BY <4>1 DEF FirstSlot
      <4> QED BY <4>1, <4>3, <4>4, <4>5, Descriptors DEF TableAgrees, TypeOK
    <3>2. CASE ~HasRoom
          BY <1>1, <2>1, <3>2 DEF SrvAccept
    <3> QED BY <3>1, <3>2
  <2>2. CASE SrvClient
    <3>1. PICK f \in ClientFds :
            /\ Take(f)
            /\ IF Gone(f)
                 THEN RemoveClient(f)
                 ELSE UNCHANGED <<clients, conn, epoll>>
          BY <2>2 DEF SrvClient
    <3>2. CASE Gone(f) /\ f \in Used
      <4>1. PICK i \in Slots :
               /\ FirstSlot(i, f)
               /\ clients' = [clients EXCEPT ![i] = NoFd]
               /\ conn' = [conn EXCEPT ![f] = NoConn]
               /\ epoll' = epoll \ {f}
            BY <3>1, <3>2 DEF RemoveClient, ReleaseSlot
      <4>2. clients[i] = f /\ spc # "done" /\ f # NoFd
            BY <3>1, <4>1, Descriptors DEF FirstSlot, Take
      <4> QED BY <4>1, <4>2 DEF TableAgrees, TypeOK
    <3>3. CASE ~(Gone(f) /\ f \in Used)
          BY <1>1, <2>2, <3>1, <3>3 DEF SrvClient, RemoveClient
    <3> QED BY <3>2, <3>3
  <2>3. CASE SrvClose
        BY <2>3 DEF SrvClose, TableAgrees
  <2>4. CASE SrvStart \/ SrvLock \/ SrvReadPeriod \/ SrvReadVersion \/ SrvArm
        BY <1>1, <2>4 DEF SrvStart, SrvLock, SrvReadPeriod, SrvReadVersion, SrvArm
  <2>5. CASE SrvWait \/ SrvStop \/ SrvBatchDone \/ SrvAcceptDone \/ SrvDrain \/ SrvBroadcast
        BY <1>1, <2>5
        DEF SrvWait, SrvStop, SrvBatchDone, SrvAcceptDone, SrvDrain, SrvBroadcast
  <2>6. CASE SrvListen \/ SrvFifo \/ SrvTimer \/ SrvNotify
        BY <1>1, <2>6 DEF SrvListen, SrvFifo, SrvTimer, SrvNotify, Take
  <2> QED BY <1>4, <2>1, <2>2, <2>3, <2>4, <2>5, <2>6 DEF Server
<1>5. CASE OnSigint \/ MainReturns \/ Expire \/ WriteFifo
      BY <1>1, <1>5 DEF OnSigint, MainReturns, Expire, WriteFifo
<1>6. CASE \E c \in Conns : Connect(c) \/ Send(c) \/ Disconnect(c)
      BY <1>1, <1>6 DEF Connect, Send, Disconnect
<1>7. CASE Terminated \/ UNCHANGED vars
      BY <1>1, <1>7 DEF Terminated, vars
<1> QED BY <1>2, <1>3, <1>4, <1>5, <1>6, <1>7 DEF Next

\* A connection is accepted once and no descriptor is shared.
LEMMA DescriptorStep ==
    TypeOK /\ TableAgrees /\ OneDescriptorEach /\ [Next]_vars => OneDescriptorEach'
<1> SUFFICES ASSUME TypeOK, TableAgrees, OneDescriptorEach, [Next]_vars
             PROVE  OneDescriptorEach'
    OBVIOUS
<1> USE DEF fileVars, cfgVars, monVars, srvVars, timeVars, fifoVars, sockVars,
            MonUnchanged, SrvUnchanged, EnvUnchanged, PeerUnchanged
<1>1. CASE /\ UNCHANGED <<conn, epoll, backlog, peer>>
           /\ spc = "done" => spc' = "done"
      BY <1>1 DEF OneDescriptorEach
<1>2. CASE OpenForWriting \/ CloseAfterWriting \/ RenameOver \/ Remove
      BY <1>1, <1>2 DEF OpenForWriting, CloseAfterWriting, RenameOver, Remove, Edit
<1>3. CASE Monitor
      BY <1>1, <1>3 DEF Monitor, MonWatch, MonLoad, MonWait, MonStop, MonEvent,
                        MonEventsDone, MonLock, MonWriteVersion, MonWritePeriod, MonNotify
<1>4. CASE Server
  <2>1. CASE SrvAccept
    <3> DEFINE c == Head(backlog)
    <3>1. /\ c = backlog[1]
          /\ Len(backlog') = Len(backlog) - 1
          /\ 1 \in 1 .. Len(backlog)
          /\ \A k \in 1 .. Len(backlog') :
                backlog'[k] = backlog[k + 1] /\ k + 1 \in 1 .. Len(backlog)
          BY <2>1 DEF SrvAccept, TypeOK
    <3>2. \A k \in 1 .. Len(backlog) : backlog[k] \in Conns
          BY DEF TypeOK
    <3>3. spc # "done"
          BY <2>1 DEF SrvAccept
    <3>4. CASE HasRoom
      <4>1. PICK f \in ClientFds :
               /\ conn[f] = NoConn
               /\ conn' = [conn EXCEPT ![f] = c]
               /\ epoll' = epoll \cup {f}
               /\ peer' = peer
            BY <2>1, <3>4 DEF SrvAccept
      <4>2. f \notin epoll
            BY <3>3, <4>1 DEF TableAgrees
      <4>3. conn'[f] = c /\ \A g \in epoll : g \in ClientFds /\ g # f /\ conn'[g] = conn[g]
            BY <4>1, <4>2 DEF TypeOK
      <4>4. \A g \in epoll : conn[g] # c
            BY <3>1, <3>3 DEF OneDescriptorEach
      <4>5. \A k \in 1 .. Len(backlog') : backlog'[k] # c
        <5> SUFFICES ASSUME NEW k \in 1 .. Len(backlog') PROVE backlog'[k] # c
            OBVIOUS
        <5>1. k + 1 # 1
              OBVIOUS
        <5> QED BY <3>1, <3>3, <5>1 DEF OneDescriptorEach
      <4>6. \A k, m \in 1 .. Len(backlog') : backlog'[k] = backlog'[m] => k = m
        <5> SUFFICES ASSUME NEW k \in 1 .. Len(backlog'), NEW m \in 1 .. Len(backlog'),
                            backlog'[k] = backlog'[m]
                     PROVE  k = m
            OBVIOUS
        <5>1. k + 1 = m + 1
              BY <3>1, <3>3 DEF OneDescriptorEach
        <5> QED BY <5>1
      <4>7. peer[c] # "idle"
            BY <3>1, <3>3 DEF OneDescriptorEach
      <4>8. \A k \in 1 .. Len(backlog') :
               peer[backlog'[k]] # "idle" /\ \A g \in epoll : conn[g] # backlog'[k]
            BY <3>1, <3>3 DEF OneDescriptorEach
      <4>9. \A g \in epoll : peer[conn[g]] # "idle"
            BY <3>3 DEF OneDescriptorEach
      <4>10. \A g, h \in epoll : conn[g] = conn[h] => g = h
            BY <3>3 DEF OneDescriptorEach
      <4> QED BY <4>1, <4>3, <4>4, <4>5, <4>6, <4>7, <4>8, <4>9, <4>10
              DEF OneDescriptorEach
    <3>5. CASE ~HasRoom
      <4>1. /\ UNCHANGED <<conn, epoll>>
            /\ \A d \in Conns : peer'[d] # "idle" \/ peer'[d] = peer[d]
            BY <2>1, <3>5 DEF SrvAccept, Finish
      <4>2. \A k, m \in 1 .. Len(backlog') : backlog'[k] = backlog'[m] => k = m
        <5> SUFFICES ASSUME NEW k \in 1 .. Len(backlog'), NEW m \in 1 .. Len(backlog'),
                            backlog'[k] = backlog'[m]
                     PROVE  k = m
            OBVIOUS
        <5>1. k + 1 = m + 1
              BY <3>1, <3>3 DEF OneDescriptorEach
        <5> QED BY <5>1
      <4>3. \A k \in 1 .. Len(backlog') :
               peer'[backlog'[k]] # "idle" /\ \A g \in epoll : conn[g] # backlog'[k]
            BY <3>1, <3>2, <3>3, <4>1 DEF OneDescriptorEach
      <4>4. \A g \in epoll : conn[g] \in Conns
            BY <3>3 DEF TableAgrees, TypeOK
      <4> QED BY <3>3, <4>1, <4>2, <4>3, <4>4 DEF OneDescriptorEach
    <3> QED BY <3>4, <3>5
  <2>2. CASE SrvClient
    <3>1. PICK f \in ClientFds :
            /\ Take(f)
            /\ IF Gone(f)
                 THEN RemoveClient(f)
                 ELSE UNCHANGED <<clients, conn, epoll, peer>>
          BY <2>2 DEF SrvClient
    <3>2. CASE Gone(f) /\ f \in Used
      <4>1. /\ conn' = [conn EXCEPT ![f] = NoConn]
            /\ epoll' = epoll \ {f}
            /\ backlog' = backlog
            /\ \A d \in Conns : peer'[d] # "idle" \/ peer'[d] = peer[d]
            BY <2>2, <3>1, <3>2 DEF SrvClient, RemoveClient, Finish
      <4>2. \A g \in epoll' : g \in epoll /\ conn'[g] = conn[g]
            BY <4>1 DEF TypeOK
      <4>3. spc # "done"
            BY <3>1 DEF Take
      <4>4. \A g \in epoll : conn[g] \in Conns
            BY <4>3 DEF TableAgrees, TypeOK
      <4>5. \A k \in 1 .. Len(backlog) : backlog[k] \in Conns
            BY DEF TypeOK
      <4> QED BY <4>1, <4>2, <4>3, <4>4, <4>5 DEF OneDescriptorEach
    <3>3. CASE ~(Gone(f) /\ f \in Used)
          BY <1>1, <2>2, <3>1, <3>3 DEF SrvClient, RemoveClient
    <3> QED BY <3>2, <3>3
  <2>3. CASE SrvClose
        BY <2>3 DEF SrvClose, OneDescriptorEach
  <2>4. CASE SrvStart \/ SrvLock \/ SrvReadPeriod \/ SrvReadVersion \/ SrvArm
        BY <1>1, <2>4 DEF SrvStart, SrvLock, SrvReadPeriod, SrvReadVersion, SrvArm
  <2>5. CASE SrvWait \/ SrvStop \/ SrvBatchDone \/ SrvAcceptDone \/ SrvDrain \/ SrvBroadcast
        BY <1>1, <2>5
        DEF SrvWait, SrvStop, SrvBatchDone, SrvAcceptDone, SrvDrain, SrvBroadcast
  <2>6. CASE SrvListen \/ SrvFifo \/ SrvTimer \/ SrvNotify
        BY <1>1, <2>6 DEF SrvListen, SrvFifo, SrvTimer, SrvNotify, Take
  <2> QED BY <1>4, <2>1, <2>2, <2>3, <2>4, <2>5, <2>6 DEF Server
<1>5. CASE OnSigint \/ MainReturns \/ Expire \/ WriteFifo
      BY <1>1, <1>5 DEF OnSigint, MainReturns, Expire, WriteFifo
<1>6. CASE \E c \in Conns : Connect(c) \/ Send(c) \/ Disconnect(c)
  <2>1. PICK c \in Conns : Connect(c) \/ Send(c) \/ Disconnect(c)
        BY <1>6
  <2>2. CASE Connect(c)
    <3>1. /\ spc # "done"
          /\ UNCHANGED <<conn, epoll, spc>>
          /\ peer[c] = "idle"
          /\ peer' = [peer EXCEPT ![c] = "open"]
          /\ backlog' = Append(backlog, c)
          BY <2>2 DEF Connect, Listening
    <3>2. /\ Len(backlog') = Len(backlog) + 1
          /\ backlog'[Len(backlog) + 1] = c
          /\ \A k \in 1 .. Len(backlog) : backlog'[k] = backlog[k]
          /\ \A k \in 1 .. Len(backlog') :
                k \in 1 .. Len(backlog) \/ k = Len(backlog) + 1
          BY <3>1 DEF TypeOK
    <3>3. \A d \in Conns : peer[d] # "idle" => peer'[d] # "idle" /\ d # c
          BY <3>1 DEF TypeOK
    <3>4. \A g \in epoll : conn[g] \in Conns /\ peer[conn[g]] # "idle"
          BY <3>1 DEF TableAgrees, OneDescriptorEach, TypeOK
    <3>5. \A k \in 1 .. Len(backlog) :
             backlog[k] \in Conns /\ peer[backlog[k]] # "idle"
          BY <3>1 DEF OneDescriptorEach, TypeOK
    <3>6. peer'[c] # "idle"
          BY <3>1 DEF TypeOK
    <3> QED BY <3>1, <3>2, <3>3, <3>4, <3>5, <3>6 DEF OneDescriptorEach
  <2>3. CASE Send(c)
        BY <1>1, <2>3 DEF Send
  <2>4. CASE Disconnect(c)
    <3>1. /\ UNCHANGED <<conn, epoll, backlog, spc>>
          /\ \A d \in Conns : peer'[d] # "idle" \/ peer'[d] = peer[d]
          BY <2>4 DEF Disconnect, TypeOK
    <3>2. spc # "done" => \A g \in epoll : conn[g] \in Conns
          BY DEF TableAgrees, TypeOK
    <3>3. \A k \in 1 .. Len(backlog) : backlog[k] \in Conns
          BY DEF TypeOK
    <3> QED BY <3>1, <3>2, <3>3 DEF OneDescriptorEach
  <2> QED BY <2>1, <2>2, <2>3, <2>4
<1>7. CASE Terminated \/ UNCHANGED vars
      BY <1>1, <1>7 DEF Terminated, vars
<1> QED BY <1>2, <1>3, <1>4, <1>5, <1>6, <1>7 DEF Next

\* No connection has been made when the program starts.
LEMMA SocketsInit == Init => TableAgrees /\ OneDescriptorEach
BY DEF Init, TableAgrees, OneDescriptorEach

\* Types, table and descriptors hold together in every reachable state.
SocketInv == TypeOK /\ TableAgrees /\ OneDescriptorEach

\* SocketInv for every number of clients: the server's table cannot drift from the
\* descriptors it has open.
THEOREM SocketInvariant == Spec => []SocketInv
<1>1. Init => SocketInv
      BY TypeInit, SocketsInit DEF SocketInv
<1>2. SocketInv /\ [Next]_vars => SocketInv'
      BY TypeStep, TableStep, DescriptorStep DEF SocketInv
<1> QED BY <1>1, <1>2, PTL DEF Spec

\* Type correctness: every variable of both threads, of the tables and of the
\* environment keeps its type, and the broadcast only ever reaches connections.
THEOREM TypeCorrect == Spec => []TypeOK
<1>1. SocketInv => TypeOK
      BY DEF SocketInv
<1> QED BY <1>1, SocketInvariant, PTL

\* add_client, remove_client and epoll_ctl never disagree about who is connected.
THEOREM TableIsRight == Spec => []TableIsEpollSet
<1>1. SocketInv => TableIsEpollSet
  <2> SUFFICES ASSUME SocketInv, Listening
               PROVE  TableIsEpollSet
      BY DEF TableIsEpollSet
  <2>1. spc # "done"
        BY DEF Listening
  <2>2. Used \subseteq epoll
        BY <2>1 DEF SocketInv, TableAgrees, Used
  <2>3. epoll \subseteq Used
        BY <2>1, Descriptors DEF SocketInv, TableAgrees, TypeOK, Used
  <2>4. epoll = {f \in ClientFds : conn[f] # NoConn}
        BY <2>1 DEF SocketInv, TableAgrees, TypeOK
  <2> QED BY <2>1, <2>2, <2>3, <2>4 DEF SocketInv, TableAgrees, OneDescriptorEach,
                                        TableIsEpollSet
<1> QED BY <1>1, SocketInvariant, PTL

-----------------------------------------------------------------------------
(* The batch of events.                                                        *)

\* Outside the handling of a batch there is none; in a batch, the events of
\* clients are those of open connections.
BatchInv ==
    /\ spc \in {"start", "failed", "wait", "close", "done"} => batch = {}
    /\ sctx = "init" /\ spc \in {"lock", "read period", "read version", "arm"}
         => batch = {}
    /\ spc = "start" => sctx = "init"
    /\ BatchIsLive

\* Only the handler of a client closes a descriptor, and its event is taken.
LEMMA BatchStep == SocketInv /\ BatchInv /\ [Next]_vars => BatchInv'
<1> SUFFICES ASSUME SocketInv, BatchInv, [Next]_vars
             PROVE  BatchInv'
    OBVIOUS
<1> USE DEF fileVars, cfgVars, monVars, srvVars, timeVars, fifoVars, sockVars,
            MonUnchanged, SrvUnchanged, EnvUnchanged, PeerUnchanged
<1>1. CASE UNCHANGED <<spc, sctx, batch, conn>>
      BY <1>1 DEF BatchInv, BatchIsLive
<1>2. CASE OpenForWriting \/ CloseAfterWriting \/ RenameOver \/ Remove
      BY <1>1, <1>2 DEF OpenForWriting, CloseAfterWriting, RenameOver, Remove, Edit
<1>3. CASE Monitor
      BY <1>1, <1>3 DEF Monitor, MonWatch, MonLoad, MonWait, MonStop, MonEvent,
                        MonEventsDone, MonLock, MonWriteVersion, MonWritePeriod, MonNotify
<1>4. CASE Server
  <2>1. CASE SrvWait
    <3>1. \A f \in batch' \cap ClientFds : conn[f] # NoConn
          BY <2>1 DEF SrvWait, Ready, SocketInv, TableAgrees, ListenFd, FifoFd, TimerFd,
                      NotifyFd, ClientFds
    <3> QED BY <2>1, <3>1 DEF SrvWait, BatchInv, BatchIsLive
  <2>2. CASE SrvAccept
    <3>1. \A f \in ClientFds : conn[f] # NoConn => conn'[f] # NoConn
      <4>1. Head(backlog) \in Conns
            BY <2>2 DEF SrvAccept, SocketInv, TypeOK
      <4>2. Head(backlog) # NoConn
            BY <4>1, ConnsAssumption DEF NoConn
      <4> QED BY <2>2, <4>2 DEF SrvAccept, SocketInv, TypeOK
    <3> QED BY <2>2, <3>1 DEF SrvAccept, BatchInv, BatchIsLive
  <2>3. CASE SrvClient
    <3>1. PICK f \in ClientFds : Take(f) /\ (IF Gone(f) THEN RemoveClient(f) ELSE conn' = conn)
          BY <2>3 DEF SrvClient
    <3>2. \A g \in ClientFds \ {f} : conn'[g] = conn[g]
          BY <3>1 DEF RemoveClient, SocketInv, TypeOK
    <3> QED BY <2>3, <3>1, <3>2 DEF SrvClient, Take, BatchInv, BatchIsLive
  <2>4. CASE SrvClose
        BY <2>4 DEF SrvClose, BatchInv, BatchIsLive
  <2>5. CASE SrvStart \/ SrvLock \/ SrvReadPeriod \/ SrvReadVersion \/ SrvArm
        BY <2>5 DEF SrvStart, SrvLock, SrvReadPeriod, SrvReadVersion, SrvArm, BatchInv,
                    BatchIsLive
  <2>6. CASE SrvStop \/ SrvBatchDone \/ SrvAcceptDone \/ SrvDrain \/ SrvBroadcast
        BY <2>6 DEF SrvStop, SrvBatchDone, SrvAcceptDone, SrvDrain, SrvBroadcast,
                    BatchInv, BatchIsLive
  <2>7. CASE SrvListen \/ SrvFifo \/ SrvTimer \/ SrvNotify
        BY <2>7 DEF SrvListen, SrvFifo, SrvTimer, SrvNotify, Take, BatchInv, BatchIsLive
  <2> QED BY <1>4, <2>1, <2>2, <2>3, <2>4, <2>5, <2>6, <2>7 DEF Server
<1>5. CASE OnSigint \/ MainReturns \/ Expire \/ WriteFifo
      BY <1>1, <1>5 DEF OnSigint, MainReturns, Expire, WriteFifo
<1>6. CASE \E c \in Conns : Connect(c) \/ Send(c) \/ Disconnect(c)
      BY <1>1, <1>6 DEF Connect, Send, Disconnect
<1>7. CASE Terminated \/ UNCHANGED vars
      BY <1>1, <1>7 DEF Terminated, vars
<1> QED BY <1>2, <1>3, <1>4, <1>5, <1>6, <1>7 DEF Next

\* No event of a batch belongs to a descriptor that was closed earlier in the same
\* batch: read and remove_client always act on a live connection.
THEOREM NoStaleEvent == Spec => []BatchIsLive
<1>1. Init => BatchInv
      BY DEF Init, BatchInv, BatchIsLive
<1>2. BatchInv => BatchIsLive
      BY DEF BatchInv
<1> QED BY <1>1, <1>2, BatchStep, SocketInvariant, PTL DEF Spec

-----------------------------------------------------------------------------
(* Connections that the server ends.                                           *)

\* The table has no free slot exactly when MAX_CLIENTS descriptors are in it.
LEMMA FullTable ==
    ASSUME TypeOK, TableAgrees, spc # "done", ~HasRoom
    PROVE  Cardinality(Used) = MaxClients
<1>1. /\ clients \in [Slots -> Used]
      /\ \A i, j \in Slots : clients[i] = clients[j] => i = j
      /\ \A f \in Used : \E i \in Slots : clients[i] = f
  <2>1. \A i \in Slots : clients[i] # NoFd
        BY DEF HasRoom
  <2>2. clients \in [Slots -> Used]
    <3>1. \A i \in Slots : clients[i] \in Used
          BY <2>1 DEF Used
    <3> QED BY <3>1 DEF TypeOK
  <2>3. \A i, j \in Slots : clients[i] = clients[j] => i = j
        BY <2>1 DEF TableAgrees
  <2>4. \A f \in Used : \E i \in Slots : clients[i] = f
        BY DEF Used
  <2> QED BY <2>2, <2>3, <2>4
<1>2. ExistsBijection(Slots, Used)
  <2>1. clients \in Bijection(Slots, Used)
        BY <1>1 DEF Bijection, Injection, IsInjective, Surjection
  <2> QED BY <2>1 DEF ExistsBijection
<1>3. IsFiniteSet(Slots) /\ Cardinality(Slots) = MaxClients
      BY FS_Interval, MaxClientsAssumption DEF Slots
<1> QED BY <1>2, <1>3, FS_Bijection

\* The server closes everything only after it has seen g_stop.
CloseMeansStop == spc = "close" => stop

\* Only the tests of g_stop lead to the end of the server thread.
LEMMA CloseStep == CloseMeansStop /\ [Next]_vars => CloseMeansStop'
<1> SUFFICES ASSUME CloseMeansStop, [Next]_vars
             PROVE  CloseMeansStop'
    OBVIOUS
<1> USE DEF fileVars, cfgVars, monVars, srvVars, timeVars, fifoVars, sockVars,
            MonUnchanged, SrvUnchanged, EnvUnchanged, PeerUnchanged, CloseMeansStop
<1>1. CASE UNCHANGED <<spc, stop>>
      BY <1>1
<1>2. CASE OpenForWriting \/ CloseAfterWriting \/ RenameOver \/ Remove
      BY <1>1, <1>2 DEF OpenForWriting, CloseAfterWriting, RenameOver, Remove, Edit
<1>3. CASE Monitor
      BY <1>1, <1>3 DEF Monitor, MonWatch, MonLoad, MonWait, MonStop, MonEvent,
                        MonEventsDone, MonLock, MonWriteVersion, MonWritePeriod, MonNotify
<1>4. CASE Server
  <2>1. CASE SrvStart \/ SrvLock \/ SrvReadPeriod \/ SrvReadVersion \/ SrvArm
        BY <2>1 DEF SrvStart, SrvLock, SrvReadPeriod, SrvReadVersion, SrvArm
  <2>2. CASE SrvWait \/ SrvStop \/ SrvBatchDone \/ SrvAccept \/ SrvAcceptDone \/ SrvClose
        BY <2>2 DEF SrvWait, SrvStop, SrvBatchDone, SrvAccept, SrvAcceptDone, SrvClose
  <2>3. CASE SrvListen \/ SrvFifo \/ SrvDrain \/ SrvTimer \/ SrvBroadcast \/ SrvNotify
             \/ SrvClient
        BY <2>3 DEF SrvListen, SrvFifo, SrvDrain, SrvTimer, SrvBroadcast, SrvNotify,
                    SrvClient, Take
  <2> QED BY <1>4, <2>1, <2>2, <2>3 DEF Server
<1>5. CASE OnSigint \/ MainReturns \/ Expire \/ WriteFifo
      BY <1>5 DEF OnSigint, MainReturns, Expire, WriteFifo
<1>6. CASE \E c \in Conns : Connect(c) \/ Send(c) \/ Disconnect(c)
      BY <1>1, <1>6 DEF Connect, Send, Disconnect
<1>7. CASE Terminated \/ UNCHANGED vars
      BY <1>1, <1>7 DEF Terminated, vars
<1> QED BY <1>2, <1>3, <1>4, <1>5, <1>6, <1>7 DEF Next

\* A peer that stays is cut off only by a full table or by Ctrl+C.
THEOREM OnlyFullTablesDrop == Spec => DropsOnlyWhenFull
<1> DEFINE Cut(c) == peer[c] = "open" /\ peer'[c] = "over"
           Kept == \A c \in Conns : Cut(c) => stop \/ Cardinality(Used) = MaxClients
<1>1. SocketInv /\ CloseMeansStop /\ [Next]_vars => [Kept]_vars
  <2> SUFFICES ASSUME SocketInv, CloseMeansStop, [Next]_vars, NEW c \in Conns, Cut(c)
               PROVE  stop \/ Cardinality(Used) = MaxClients
      OBVIOUS
  <2> USE DEF fileVars, cfgVars, monVars, srvVars, timeVars, fifoVars, sockVars,
              MonUnchanged, SrvUnchanged, EnvUnchanged, PeerUnchanged
  <2>1. CASE UNCHANGED peer
        BY <2>1
  <2>2. CASE OpenForWriting \/ CloseAfterWriting \/ RenameOver \/ Remove
        BY <2>1, <2>2 DEF OpenForWriting, CloseAfterWriting, RenameOver, Remove, Edit
  <2>3. CASE Monitor
        BY <2>1, <2>3 DEF Monitor, MonWatch, MonLoad, MonWait, MonStop, MonEvent,
                          MonEventsDone, MonLock, MonWriteVersion, MonWritePeriod, MonNotify
  <2>4. CASE Server
    <3>1. CASE SrvAccept
          BY <2>1, <3>1, FullTable DEF SrvAccept, SocketInv
    <3>2. CASE SrvClient
      <4>1. PICK f \in ClientFds :
              /\ Take(f)
              /\ IF Gone(f)
                   THEN RemoveClient(f)
                   ELSE UNCHANGED <<clients, conn, epoll, peer>>
            BY <3>2 DEF SrvClient
      <4>2. Gone(f) /\ f \in Used /\ conn[f] = c
            BY <2>1, <4>1 DEF RemoveClient, Finish
      <4>3. conn[f] # NoConn
            BY <4>2, ConnsAssumption DEF NoConn
      <4>4. peer[c] # "open"
            BY <4>2, <4>3 DEF Gone
      <4> QED BY <4>4
    <3>3. CASE SrvClose
          BY <3>3 DEF SrvClose, CloseMeansStop
    <3>4. CASE SrvStart \/ SrvLock \/ SrvReadPeriod \/ SrvReadVersion \/ SrvArm
          BY <2>1, <3>4 DEF SrvStart, SrvLock, SrvReadPeriod, SrvReadVersion, SrvArm
    <3>5. CASE SrvWait \/ SrvStop \/ SrvBatchDone \/ SrvAcceptDone \/ SrvDrain \/ SrvBroadcast
          BY <2>1, <3>5
          DEF SrvWait, SrvStop, SrvBatchDone, SrvAcceptDone, SrvDrain, SrvBroadcast
    <3>6. CASE SrvListen \/ SrvFifo \/ SrvTimer \/ SrvNotify
          BY <2>1, <3>6 DEF SrvListen, SrvFifo, SrvTimer, SrvNotify
    <3> QED BY <2>4, <3>1, <3>2, <3>3, <3>4, <3>5, <3>6 DEF Server
  <2>5. CASE OnSigint \/ MainReturns \/ Expire \/ WriteFifo
        BY <2>1, <2>5 DEF OnSigint, MainReturns, Expire, WriteFifo
  <2>6. CASE \E d \in Conns : Connect(d) \/ Send(d) \/ Disconnect(d)
        BY <2>6 DEF Connect, Send, Disconnect, SocketInv, TypeOK
  <2>7. CASE Terminated \/ UNCHANGED vars
        BY <2>1, <2>7 DEF Terminated, vars
  <2> QED BY <2>2, <2>3, <2>4, <2>5, <2>6, <2>7 DEF Next
<1>2. Init => CloseMeansStop
      BY DEF Init, CloseMeansStop
<1> QED BY <1>1, <1>2, CloseStep, SocketInvariant, PTL DEF Spec, DropsOnlyWhenFull

-----------------------------------------------------------------------------
(* Mutual exclusion, and what each thread knows inside its critical section.   *)

\* The mutex is held by the thread that is between lock and unlock.
MutexInv ==
    /\ lock = "monitor" <=> mpc \in {"write version", "write period"}
    /\ lock = "server" <=> spc \in {"read period", "read version"}

\* Half-way through the update, g_cfg has the new version, and the old period
\* unless nothing differs; half-way through a copy, the period is the current one.
HalfwayInv ==
    /\ mpc = "write period" => cfg.version = mcfg.version
    /\ mpc = "write period" /\ ~changed => cfg = mcfg
    /\ spc = "read version" /\ sctx # "tick" => local.period = cfg.period

\* A notification will make the server read the period again, or it is about to.
AboutToReadPeriod ==
    \/ spc \in {"start", "failed"}
    \/ sctx \in {"init", "notify"} /\ spc \in {"lock", "read period"}

\* Each field that the server has and that is out of date will be read again.
FreshInv ==
    /\ spc = "start" => sctx = "init"
    /\ local.period # cfg.period => AboutToReadPeriod \/ Announced
    /\ local.version # cfg.version => AboutToRead \/ Announced

ChannelInv == MutexInv /\ HalfwayInv /\ FreshInv

\* At start the server has the defaults that g_cfg holds.
LEMMA ChannelInit == Init => ChannelInv
BY DEF Init, ChannelInv, MutexInv, HalfwayInv, FreshInv, Free

\* The environment and the socket side of the server leave the channel alone.
LEMMA ChannelFrame ==
    ASSUME ChannelInv, UNCHANGED <<lock, cfg, notify, mpc, mcfg, changed, spc, sctx, local>>
    PROVE  ChannelInv'
BY DEF ChannelInv, MutexInv, HalfwayInv, FreshInv, AboutToReadPeriod, AboutToRead, Announced

\* Writing to the eventfd leaves its counter positive.
LEMMA CounterGrows == \A n \in Nat : n + 1 > 0
OBVIOUS

\* The monitor's steps: its notification follows the update it announces.
LEMMA MonitorKeepsChannel == TypeOK /\ ChannelInv /\ Monitor => ChannelInv'
<1> SUFFICES ASSUME TypeOK, ChannelInv, Monitor
             PROVE  ChannelInv'
    OBVIOUS
<1> USE DEF fileVars, cfgVars, monVars, srvVars, MonUnchanged, ChannelInv, MutexInv,
            HalfwayInv, FreshInv, AboutToReadPeriod, AboutToRead, Announced
<1>1. CASE MonWatch
      BY <1>1 DEF MonWatch
<1>2. CASE MonLoad
      BY <1>2 DEF MonLoad, ParseInto
<1>3. CASE MonWait \/ MonStop \/ MonEventsDone
      BY <1>3 DEF MonWait, MonStop, MonEventsDone
<1>4. CASE MonEvent
      BY <1>4 DEF MonEvent, ParseInto, KeepConfig
<1>5. CASE MonLock
      BY <1>5 DEF MonLock, Acquire, Free
<1>6. CASE MonWriteVersion
  <2>1. /\ cfg'.version = mcfg.version
        /\ cfg'.period = cfg.period
        /\ mcfg = cfg => cfg' = cfg
    <3>1. cfg' = [cfg EXCEPT !.version = mcfg.version] /\ cfg \in Configs /\ mcfg \in Configs
          BY <1>6 DEF MonWriteVersion, TypeOK
    <3>2. /\ cfg' \in Configs
          /\ cfg'.version = mcfg.version
          /\ cfg'.period = cfg.period
          BY <3>1, ConfigFields
    <3>3. mcfg = cfg => cfg' = cfg
          BY <3>1, <3>2, SameConfig
    <3> QED BY <3>2, <3>3
  <2>2. /\ lock' = lock /\ lock = "monitor"
        /\ mpc' = "write period"
        /\ mcfg' = mcfg
        /\ UNCHANGED <<notify, spc, sctx, local>>
        BY <1>6 DEF MonWriteVersion
  <2>3. changed' \/ (mcfg = cfg /\ ~changed)
        BY <1>6 DEF MonWriteVersion, Differs
  <2>4. CASE changed'
        BY <2>1, <2>2, <2>4
  <2>5. CASE ~changed'
        BY <1>6, <2>1, <2>2, <2>3, <2>5
  <2> QED BY <2>4, <2>5
<1>7. CASE MonWritePeriod
  <2>1. /\ cfg'.period = mcfg.period
        /\ cfg'.version = cfg.version
        /\ mcfg = cfg => cfg' = cfg
    <3>1. cfg' = [cfg EXCEPT !.period = mcfg.period] /\ cfg \in Configs /\ mcfg \in Configs
          BY <1>7 DEF MonWritePeriod, TypeOK
    <3>2. /\ cfg' \in Configs
          /\ cfg'.period = mcfg.period
          /\ cfg'.version = cfg.version
          BY <3>1, ConfigFields
    <3>3. mcfg = cfg => cfg' = cfg
          BY <3>1, <3>2, SameConfig
    <3> QED BY <3>2, <3>3
  <2>2. /\ lock = "monitor" /\ lock' = "free"
        /\ spc \notin {"read period", "read version"}
        /\ UNCHANGED <<notify, spc, sctx, local, changed, mcfg>>
        BY <1>7 DEF MonWritePeriod, Free
  <2>3. CASE changed
        BY <1>7, <2>1, <2>2, <2>3 DEF MonWritePeriod
  <2>4. CASE ~changed
        BY <1>7, <2>1, <2>2, <2>4 DEF MonWritePeriod
  <2> QED BY <2>3, <2>4
<1>8. CASE MonNotify
  <2>1. /\ notify' = notify + 1
        /\ mpc' = "events" /\ mpc = "notify"
        /\ UNCHANGED <<lock, cfg, mcfg, changed, spc, sctx, local>>
        BY <1>8 DEF MonNotify
  <2>2. notify \in Nat
        BY DEF TypeOK
  <2>3. notify' > 0
        BY <2>1, <2>2, CounterGrows
  <2> QED BY <2>1, <2>3
<1> QED BY <1>1, <1>2, <1>3, <1>4, <1>5, <1>6, <1>7, <1>8 DEF Monitor

\* The server's steps: it reads g_cfg after it has taken the notification.
LEMMA ServerKeepsChannel == TypeOK /\ ChannelInv /\ Server => ChannelInv'
<1> SUFFICES ASSUME TypeOK, ChannelInv, Server
             PROVE  ChannelInv'
    OBVIOUS
<1> USE DEF fileVars, monVars, srvVars, SrvUnchanged, ChannelInv, MutexInv,
            HalfwayInv, FreshInv, AboutToReadPeriod, AboutToRead, Announced
<1>1. CASE SrvStart
      BY <1>1 DEF SrvStart
<1>2. CASE SrvLock
      BY <1>2 DEF SrvLock, Acquire, Free
<1>3. CASE SrvReadPeriod
  <2>1. /\ local'.version = local.version
        /\ IF sctx = "tick" THEN local' = local ELSE local'.period = cfg.period
        BY <1>3, ConfigFields DEF SrvReadPeriod, TypeOK
  <2> QED BY <1>3, <2>1 DEF SrvReadPeriod, TypeOK
<1>4. CASE SrvReadVersion
  <2>1. /\ local'.version = cfg.version
        /\ local'.period = local.period
        BY <1>4, ConfigFields DEF SrvReadVersion, TypeOK
  <2> QED BY <1>4, <2>1 DEF SrvReadVersion, TypeOK, Free
<1>5. CASE SrvArm \/ SrvBroadcast
      BY <1>5 DEF SrvArm, SrvBroadcast
<1>6. CASE SrvWait \/ SrvStop \/ SrvBatchDone
      BY <1>6 DEF SrvWait, SrvStop, SrvBatchDone
<1>7. CASE SrvListen \/ SrvAccept \/ SrvAcceptDone
      BY <1>7 DEF SrvListen, SrvAccept, SrvAcceptDone, Take
<1>8. CASE SrvFifo \/ SrvDrain
      BY <1>8 DEF SrvFifo, SrvDrain, Take
<1>9. CASE SrvTimer
      BY <1>9 DEF SrvTimer, Take
<1>10. CASE SrvNotify
      BY <1>10 DEF SrvNotify, Take
<1>11. CASE SrvClient \/ SrvClose
      BY <1>11 DEF SrvClient, SrvClose, Take
<1> QED BY <1>1, <1>2, <1>3, <1>4, <1>5, <1>6, <1>7, <1>8, <1>9, <1>10, <1>11 DEF Server

\* Every step of the system preserves the invariant of the channel.
LEMMA ChannelStep == TypeOK /\ ChannelInv /\ [Next]_vars => ChannelInv'
<1> SUFFICES ASSUME TypeOK, ChannelInv, [Next]_vars
             PROVE  ChannelInv'
    OBVIOUS
<1> USE DEF fileVars, cfgVars, monVars, srvVars, EnvUnchanged, PeerUnchanged
<1>1. CASE OpenForWriting \/ CloseAfterWriting \/ RenameOver \/ Remove
      BY <1>1, ChannelFrame DEF OpenForWriting, CloseAfterWriting, RenameOver, Remove, Edit
<1>2. CASE Monitor
      BY <1>2, MonitorKeepsChannel
<1>3. CASE Server
      BY <1>3, ServerKeepsChannel
<1>4. CASE OnSigint \/ MainReturns \/ Expire \/ WriteFifo
      BY <1>4, ChannelFrame DEF OnSigint, MainReturns, Expire, WriteFifo
<1>5. CASE \E c \in Conns : Connect(c) \/ Send(c) \/ Disconnect(c)
      BY <1>5, ChannelFrame DEF Connect, Send, Disconnect
<1>6. CASE Terminated \/ UNCHANGED vars
      BY <1>6, ChannelFrame DEF Terminated, vars
<1> QED BY <1>1, <1>2, <1>3, <1>4, <1>5, <1>6 DEF Next

\* Mutual exclusion on g_cfg, and freshness field by field, in every state.
THEOREM ChannelInvariant == Spec => []ChannelInv
BY ChannelInit, ChannelStep, TypeCorrect, PTL DEF Spec

\* No update is missed: a server that works with an old version or an old period
\* has a notification coming, whatever the interleaving of the two threads.
THEOREM NoMissedUpdate == Spec => []StaleMeansNotified
<1>1. TypeOK /\ ChannelInv => StaleMeansNotified
  <2> SUFFICES ASSUME TypeOK, ChannelInv, local # cfg
               PROVE  AboutToRead \/ Announced
      BY DEF StaleMeansNotified
  <2>1. local.version # cfg.version \/ local.period # cfg.period
        BY SameConfig DEF TypeOK
  <2>2. AboutToReadPeriod => AboutToRead
        BY DEF AboutToReadPeriod, AboutToRead
  <2> QED BY <2>1, <2>2 DEF ChannelInv, FreshInv
<1> QED BY <1>1, ChannelInvariant, TypeCorrect, PTL

\* What the server takes at start and on a notification is one configuration, not
\* the version of one and the period of another.
THEOREM NoTornSnapshot == Spec => SnapshotIsConsistent
<1> DEFINE Consistent == spc = "read version" /\ spc' = "arm"
                           => local' = cfg /\ mpc # "write period"
<1>1. TypeOK /\ ChannelInv /\ [Next]_vars => [Consistent]_vars
  <2> SUFFICES ASSUME TypeOK, ChannelInv, Next, spc = "read version", spc' = "arm"
               PROVE  local' = cfg /\ mpc # "write period"
      BY DEF vars, srvVars
  <2> USE DEF fileVars, cfgVars, monVars, srvVars, MonUnchanged, SrvUnchanged,
              EnvUnchanged, PeerUnchanged
  <2>1. SrvReadVersion
    <3>1. Server
      <4>1. spc' # spc
            OBVIOUS
      <4>2. ~(OpenForWriting \/ CloseAfterWriting \/ RenameOver \/ Remove)
            BY <4>1 DEF OpenForWriting, CloseAfterWriting, RenameOver, Remove, Edit
      <4>3. ~Monitor
            BY <4>1 DEF Monitor, MonWatch, MonLoad, MonWait, MonStop, MonEvent,
                        MonEventsDone, MonLock, MonWriteVersion, MonWritePeriod, MonNotify
      <4>4. ~(OnSigint \/ MainReturns \/ Expire \/ WriteFifo \/ Terminated)
            BY <4>1 DEF OnSigint, MainReturns, Expire, WriteFifo, Terminated, vars
      <4>5. ~(\E c \in Conns : Connect(c) \/ Send(c) \/ Disconnect(c))
            BY <4>1 DEF Connect, Send, Disconnect
      <4> QED BY <4>2, <4>3, <4>4, <4>5 DEF Next
    <3> QED BY <3>1 DEF Server, SrvStart, SrvLock, SrvReadPeriod, SrvArm, SrvWait, SrvStop,
               SrvBatchDone, SrvListen, SrvAccept, SrvAcceptDone, SrvFifo, SrvDrain, SrvTimer,
               SrvBroadcast, SrvNotify, SrvClient, SrvClose, Take
  <2>2. sctx # "tick"
        BY <2>1 DEF SrvReadVersion
  <2>3. local.period = cfg.period /\ mpc # "write period"
        BY <2>2 DEF ChannelInv, MutexInv, HalfwayInv
  <2>4. /\ local' \in Configs
        /\ local'.version = cfg.version
        /\ local'.period = cfg.period
        BY <2>1, <2>3, ConfigFields DEF SrvReadVersion, TypeOK
  <2>5. cfg \in Configs
        BY DEF TypeOK
  <2>6. local' = cfg
        BY <2>4, <2>5, SameConfig
  <2> QED BY <2>3, <2>6
<1> QED BY <1>1, ChannelInvariant, TypeCorrect, PTL DEF Spec, SnapshotIsConsistent

-----------------------------------------------------------------------------
(* The order of versions along the channel.                                    *)

\* From the file to the server thread, each stage is at most as new as the one it
\* gets its value from; no file is newer than the next edit can make it.
OrderInv ==
    /\ mcfg.version <= edits + 1
    /\ file \in Configs => mcfg.version <= file.version /\ file.version <= edits + 1
    /\ cfg.version <= mcfg.version
    /\ local.version <= cfg.version

\* The three marks for an unreadable file are not configurations.
LEMMA MarksAreNotConfigs ==
    Absent \notin Configs /\ Malformed \notin Configs /\ Truncated \notin Configs
BY DEF Absent, Malformed, Truncated, Configs, Versions

\* The first file has version 1, the defaults version 0.
LEMMA OrderInit == Init => OrderInv
<1> SUFFICES ASSUME Init PROVE OrderInv
    OBVIOUS
<1>1. file \in Configs => file.version = 1
  <2>1. file \in {Absent, Malformed} \cup [version : {1}, period : Periods]
        BY InitialFilesAssumption DEF Init
  <2>2. \A c \in [version : {1}, period : Periods] : c.version = 1
        OBVIOUS
  <2> QED BY <2>1, <2>2, MarksAreNotConfigs
<1>2. edits = 0 /\ mcfg.version = 0 /\ cfg.version = 0 /\ local.version = 0
      BY DEF Init, Default
<1> QED BY <1>1, <1>2 DEF OrderInv

\* Each stage copies from the one before it, which never gets older.
LEMMA OrderStep == TypeOK /\ OrderInv /\ [Next]_vars => OrderInv'
<1> SUFFICES ASSUME TypeOK, OrderInv, [Next]_vars
             PROVE  OrderInv'
    OBVIOUS
<1> USE DEF fileVars, cfgVars, monVars, srvVars, timeVars, fifoVars, sockVars,
            MonUnchanged, SrvUnchanged, EnvUnchanged, PeerUnchanged
<1>1. /\ edits \in Nat
      /\ cfg \in Configs /\ mcfg \in Configs /\ local \in Configs
      /\ cfg.version \in Int /\ mcfg.version \in Int /\ local.version \in Int
      /\ file \in Configs => file.version \in Int
  <2>1. edits \in Nat
        BY BoundsAssumption DEF TypeOK
  <2>2. cfg \in Configs /\ mcfg \in Configs /\ local \in Configs
        BY DEF TypeOK
  <2> QED BY <2>1, <2>2, ConfigFields
<1>2. CASE UNCHANGED <<file, edits, mcfg, cfg, local>>
      BY <1>2 DEF OrderInv
<1>3. CASE OpenForWriting \/ CloseAfterWriting \/ RenameOver \/ Remove
  <2>1. /\ edits' = edits + 1
        /\ UNCHANGED <<mcfg, cfg, local>>
        BY <1>3 DEF OpenForWriting, CloseAfterWriting, RenameOver, Remove, Edit
  <2>2. \/ file' \in Contents
        \/ file' \in {Truncated, Absent}
        BY <1>3 DEF OpenForWriting, CloseAfterWriting, RenameOver, Remove, Edit
  <2>3. file' \in Configs => file'.version \in {edits + 1, edits + 2}
    <3>1. \A c \in Contents : c = Malformed \/ c.version \in {edits + 1, edits + 2}
          BY DEF Contents
    <3> QED BY <2>2, <3>1, MarksAreNotConfigs
  <2>4. mcfg.version <= edits + 1 /\ cfg.version <= mcfg.version /\ local.version <= cfg.version
        BY DEF OrderInv
  <2>5. edits' + 1 = edits + 2
        BY <1>1, <2>1
  <2>6. CASE file' \in Configs
        BY <1>1, <2>1, <2>3, <2>4, <2>6 DEF OrderInv
  <2>7. CASE file' \notin Configs
        BY <1>1, <2>1, <2>4, <2>7 DEF OrderInv
  <2> QED BY <2>6, <2>7
<1>4. CASE Monitor
  <2>1. CASE MonLoad
        BY <1>1, <2>1 DEF MonLoad, ParseInto, OrderInv
  <2>2. CASE MonEvent
        BY <1>1, <2>2 DEF MonEvent, ParseInto, KeepConfig, OrderInv
  <2>3. CASE MonWriteVersion
    <3>1. cfg'.version = mcfg.version
          BY <1>1, <2>3, ConfigFields DEF MonWriteVersion
    <3>2. UNCHANGED <<file, edits, mcfg, local>>
          BY <2>3 DEF MonWriteVersion
    <3> QED BY <1>1, <3>1, <3>2 DEF OrderInv
  <2>4. CASE MonWritePeriod
    <3>1. cfg'.version = cfg.version
          BY <1>1, <2>4, ConfigFields DEF MonWritePeriod
    <3>2. UNCHANGED <<file, edits, mcfg, local>>
          BY <2>4 DEF MonWritePeriod
    <3> QED BY <1>1, <3>1, <3>2 DEF OrderInv
  <2>5. CASE MonWatch \/ MonWait \/ MonStop \/ MonEventsDone \/ MonLock \/ MonNotify
        BY <1>2, <2>5 DEF MonWatch, MonWait, MonStop, MonEventsDone, MonLock, MonNotify
  <2> QED BY <1>4, <2>1, <2>2, <2>3, <2>4, <2>5 DEF Monitor
<1>5. CASE Server
  <2>1. CASE SrvReadPeriod
    <3>1. local'.version = local.version
          BY <1>1, <2>1, ConfigFields DEF SrvReadPeriod
    <3>2. UNCHANGED <<file, edits, mcfg, cfg>>
          BY <2>1 DEF SrvReadPeriod
    <3> QED BY <1>1, <3>1, <3>2 DEF OrderInv
  <2>2. CASE SrvReadVersion
    <3>1. local'.version = cfg.version
          BY <1>1, <2>2, ConfigFields DEF SrvReadVersion
    <3>2. UNCHANGED <<file, edits, mcfg, cfg>>
          BY <2>2 DEF SrvReadVersion
    <3> QED BY <1>1, <3>1, <3>2 DEF OrderInv
  <2>3. CASE SrvStart \/ SrvLock \/ SrvArm \/ SrvBroadcast \/ SrvClose
        BY <1>2, <2>3 DEF SrvStart, SrvLock, SrvArm, SrvBroadcast, SrvClose
  <2>4. CASE SrvWait \/ SrvStop \/ SrvBatchDone \/ SrvAccept \/ SrvAcceptDone \/ SrvDrain
        BY <1>2, <2>4 DEF SrvWait, SrvStop, SrvBatchDone, SrvAccept, SrvAcceptDone, SrvDrain
  <2>5. CASE SrvListen \/ SrvFifo \/ SrvTimer \/ SrvNotify \/ SrvClient
        BY <1>2, <2>5 DEF SrvListen, SrvFifo, SrvTimer, SrvNotify, SrvClient
  <2> QED BY <1>5, <2>1, <2>2, <2>3, <2>4, <2>5 DEF Server
<1>6. CASE OnSigint \/ MainReturns \/ Expire \/ WriteFifo
      BY <1>2, <1>6 DEF OnSigint, MainReturns, Expire, WriteFifo
<1>7. CASE \E c \in Conns : Connect(c) \/ Send(c) \/ Disconnect(c)
      BY <1>2, <1>7 DEF Connect, Send, Disconnect
<1>8. CASE Terminated \/ UNCHANGED vars
      BY <1>2, <1>8 DEF Terminated, vars
<1> QED BY <1>3, <1>4, <1>5, <1>6, <1>7, <1>8 DEF Next

\* The versions sent to the clients are those of the file, in its order: the server
\* only ever takes g_cfg, and g_cfg is never older than what the server has.
THEOREM VersionsGrow == Spec => VersionsNeverGoBack
<1>1. TypeOK /\ OrderInv /\ [Next]_vars => [local'.version >= local.version]_vars
  <2> SUFFICES ASSUME TypeOK, OrderInv, [Next]_vars
               PROVE  local'.version >= local.version
      OBVIOUS
  <2> USE DEF fileVars, cfgVars, monVars, srvVars, timeVars, fifoVars, sockVars,
              MonUnchanged, SrvUnchanged, EnvUnchanged, PeerUnchanged
  <2>1. /\ cfg \in Configs /\ local \in Configs
        /\ cfg.version \in Int /\ local.version \in Int
        BY ConfigFields DEF TypeOK
  <2>2. CASE local' = local
        BY <2>1, <2>2
  <2>3. CASE OpenForWriting \/ CloseAfterWriting \/ RenameOver \/ Remove
        BY <2>2, <2>3 DEF OpenForWriting, CloseAfterWriting, RenameOver, Remove, Edit
  <2>4. CASE Monitor
        BY <2>2, <2>4 DEF Monitor, MonWatch, MonLoad, MonWait, MonStop, MonEvent,
                          MonEventsDone, MonLock, MonWriteVersion, MonWritePeriod, MonNotify
  <2>5. CASE Server
    <3>1. CASE SrvReadPeriod
      <4>1. local'.version = local.version
            BY <2>1, <3>1, ConfigFields DEF SrvReadPeriod
      <4> QED BY <2>1, <4>1
    <3>2. CASE SrvReadVersion
      <4>1. local'.version = cfg.version
            BY <2>1, <3>2, ConfigFields DEF SrvReadVersion
      <4> QED BY <2>1, <4>1 DEF OrderInv
    <3>3. CASE SrvStart \/ SrvLock \/ SrvArm \/ SrvBroadcast \/ SrvClose
          BY <2>2, <3>3 DEF SrvStart, SrvLock, SrvArm, SrvBroadcast, SrvClose
    <3>4. CASE SrvWait \/ SrvStop \/ SrvBatchDone \/ SrvAccept \/ SrvAcceptDone \/ SrvDrain
          BY <2>2, <3>4 DEF SrvWait, SrvStop, SrvBatchDone, SrvAccept, SrvAcceptDone, SrvDrain
    <3>5. CASE SrvListen \/ SrvFifo \/ SrvTimer \/ SrvNotify \/ SrvClient
          BY <2>2, <3>5 DEF SrvListen, SrvFifo, SrvTimer, SrvNotify, SrvClient
    <3> QED BY <2>5, <3>1, <3>2, <3>3, <3>4, <3>5 DEF Server
  <2>6. CASE OnSigint \/ MainReturns \/ Expire \/ WriteFifo
        BY <2>2, <2>6 DEF OnSigint, MainReturns, Expire, WriteFifo
  <2>7. CASE \E c \in Conns : Connect(c) \/ Send(c) \/ Disconnect(c)
        BY <2>2, <2>7 DEF Connect, Send, Disconnect
  <2>8. CASE Terminated \/ UNCHANGED vars
        BY <2>2, <2>8 DEF Terminated, vars
  <2> QED BY <2>3, <2>4, <2>5, <2>6, <2>7, <2>8 DEF Next
<1> QED BY <1>1, OrderInit, OrderStep, TypeCorrect, PTL DEF Spec, VersionsNeverGoBack
==============================================================================
