---------------------------- MODULE MCDockerServer ----------------------------
(* Three clients and a backlog of one: two connections fit into the queue. *)
EXTENDS DockerServer

CONSTANTS c1, c2, c3
ThreeClients == {c1, c2, c3}
==============================================================================
