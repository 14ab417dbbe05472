------------------------------- MODULE MCSeance4 -------------------------------
(* The single-threaded servers of seance_4 and its timers.  They do not interact: *)
(* a behaviour runs one of them, and the others stay where they start.            *)
EXTENDS MCDockerServer, TLC

CONSTANTS
    EchoClients, Typed, LineMax, BufSize, RoomUp, RoomDown,     \* of the echo server
    Late                                                        \* of the timers

CONSTANTS c4, c5

TwoClients == {c4, c5}

\* A client of the echo server that types enough to fall behind by more than a socket
\* buffer holds, and one that types a single byte.
FourAndOne == (c4 :> 4) @@ (c5 :> 1)

VARIABLES
    exercise,
    spc, batch, fd, buf, backlog, open, expired, epc, typed, out, received, up, down, gone,
    program, tpc, period, due, fired

echoVars == <<spc, batch, fd, buf, backlog, open, expired, epc, typed, out, received, up, down, gone>>
timerVars == <<program, tpc, period, due, fired>>

Echo == INSTANCE EchoServer WITH Clients <- EchoClients, queue <- backlog

Timer == INSTANCE Timers

ASSUME Seance4Assumption == Echo!EchoAssumption /\ Timer!LateAssumption

\* Of the exercises that do not run, one initial state is enough.
Seance4Init ==
    /\ exercise \in {"docker", "echo", "timers"}
    /\ Init /\ (exercise # "docker" => nohang)
    /\ Echo!Init
    /\ Timer!Init /\ (exercise # "timers" => program = "alarm")

Seance4Next ==
    \/ exercise = "docker" /\ Next /\ UNCHANGED <<exercise, echoVars, timerVars>>
    \/ exercise = "echo" /\ Echo!Next /\ UNCHANGED <<exercise, vars, timerVars>>
    \/ exercise = "timers" /\ Timer!Next /\ UNCHANGED <<exercise, vars, echoVars>>

Seance4Spec ==
    /\ Seance4Init
    /\ [][Seance4Next]_<<exercise, vars, echoVars, timerVars>>
    /\ exercise = "docker" => Fairness
    /\ exercise = "echo" => Echo!Fairness
    /\ exercise = "timers" => Timer!Fairness

\* Of the echo server and of the timers: the properties of their modules.
EchoIsExact == Echo!EchoIsExact

\* Whoever waits for one of the servers is served.
EverybodyIsServed == ClientsAreAnswered /\ (exercise = "echo" => Echo!EchoServes)
==============================================================================
