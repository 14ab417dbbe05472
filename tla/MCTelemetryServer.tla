-------------------------- MODULE MCTelemetryServer --------------------------
(* Instances of TelemetryServer for TLC.  The configuration files choose the  *)
(* part of the server that is exercised: editing of config.json without       *)
(* clients, or clients with a fixed file.                                     *)
EXTENDS TelemetryServer

CONSTANTS c1, c2, c3

NoConns == {}
TwoConns == {c1, c2}
ThreeConns == {c1, c2, c3}

\* One period that is refused by the timer, one that disarms it, an ordinary one.
EdgePeriods == {-1, 0, 5}
OnePeriod == {5}

NoFile == {Absent}
AnyFile == {Absent} \cup [version : {1}, period : Periods]
==============================================================================
