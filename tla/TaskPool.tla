------------------------------- MODULE TaskPool -------------------------------
(***************************************************************************)
(* What a pool of workers behind a bounded FIFO promises to the program    *)
(* that uses it (seance6/lab35_threadpool.c): a task is accepted or, only  *)
(* when the queue is full, turned away; accepted tasks are started in the  *)
(* order of their submission, each by one worker and once; and all of them *)
(* are finished.                                                           *)
(***************************************************************************)
EXTENDS Integers, Sequences

CONSTANTS Tasks, QueueSize

VARIABLES pending, running, finished, rejected, open

vars == <<pending, running, finished, rejected, open>>

New(t) == \A k \in 1 .. Len(pending) : pending[k] # t

Init ==
    /\ pending = <<>>
    /\ running = {}
    /\ finished = {}
    /\ rejected = {}
    /\ open = TRUE

Submit(t) ==
    /\ open
    /\ New(t)
    /\ t \notin running \cup finished \cup rejected
    /\ IF Len(pending) < QueueSize
         THEN pending' = Append(pending, t) /\ UNCHANGED rejected
         ELSE rejected' = rejected \cup {t} /\ UNCHANGED pending
    /\ UNCHANGED <<running, finished, open>>

Start ==
    /\ pending # <<>>
    /\ pending' = Tail(pending)
    /\ running' = running \cup {Head(pending)}
    /\ UNCHANGED <<finished, rejected, open>>

Finish(t) ==
    /\ t \in running
    /\ running' = running \ {t}
    /\ finished' = finished \cup {t}
    /\ UNCHANGED <<pending, rejected, open>>

Close ==
    /\ open
    /\ open' = FALSE
    /\ UNCHANGED <<pending, running, finished, rejected>>

Next == Start \/ Close \/ \E t \in Tasks : Submit(t) \/ Finish(t)

Spec == Init /\ [][Next]_vars /\ WF_vars(Start) /\ \A t \in Tasks : WF_vars(Finish(t))
==============================================================================
