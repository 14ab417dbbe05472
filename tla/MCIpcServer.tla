------------------------------ MODULE MCIpcServer ------------------------------
(* One reader of the shared memory, no client or two for a table of one. *)
EXTENDS IpcServer

CONSTANTS r1, p1, p2

OneReader == {r1}
TwoPeers == {p1, p2}
NoPeers == {}
==============================================================================
