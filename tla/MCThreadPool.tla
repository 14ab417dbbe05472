----------------------------- MODULE MCThreadPool -----------------------------
(* Three workers, more tasks than the queue has room for. *)
EXTENDS ThreadPool

CONSTANTS w1, w2, w3

MCWorkers == {w1, w2, w3}
==============================================================================
