------------------------------ MODULE ThreadPool ------------------------------
(***************************************************************************)
(* The thread pool of seance6/lab35_threadpool.c: main creates the         *)
(* workers, submits NUM_TASKS tasks to a queue of QUEUE_SIZE, asks the     *)
(* pool to shut down and joins the workers.  One mutex, one condition      *)
(* variable.  A step that ends a critical section is the whole section: it *)
(* starts with the mutex held and releases it.                             *)
(***************************************************************************)
EXTENDS Integers, Sequences, FiniteSets

CONSTANTS
    Workers,    \* the threads, THREAD_POOL_SIZE of them
    QueueSize,  \* QUEUE_SIZE
    NumTasks    \* NUM_TASKS

ASSUME WorkersAssumption == IsFiniteSet(Workers) /\ "main" \notin Workers /\ "free" \notin Workers
ASSUME SizesAssumption == QueueSize \in Nat \ {0} /\ NumTasks \in Nat \ {0}

Tasks == 1 .. NumTasks
NoTask == 0
Free == "free"
Main == "main"

VARIABLES
    mutex,      \* who holds the mutex
    taskQueue,  \* the first taskCount elements of the array
    shutdown,
    wpc, task,  \* control point and local task of each worker
    mpc,        \* control point of main
    submitted,  \* main's loop counter: tasks given to submitTask so far
    rejected,   \* tasks that found the queue full
    finished    \* tasks whose function has returned

vars == <<mutex, taskQueue, shutdown, wpc, task, mpc, submitted, rejected, finished>>

Waiting == {w \in Workers : wpc[w] = "waiting"}

Init ==
    /\ mutex = Free
    /\ taskQueue = <<>>
    /\ shutdown = FALSE
    /\ wpc = [w \in Workers |-> "none"]
    /\ task = [w \in Workers |-> NoTask]
    /\ mpc = "create"
    /\ submitted = 0
    /\ rejected = {}
    /\ finished = {}

\* pthread_cond_signal: some waiter, if there is one, goes for the mutex again.
Signal ==
    IF Waiting = {}
      THEN UNCHANGED wpc
      ELSE \E w \in Waiting : wpc' = [wpc EXCEPT ![w] = "woken"]

Broadcast == wpc' = [w \in Workers |-> IF w \in Waiting THEN "woken" ELSE wpc[w]]

-----------------------------------------------------------------------------
(* main *)

\* pthread_create starts a worker; when it fails main returns, which ends the
\* process and every worker with it.
CreateWorker ==
    /\ mpc = "create"
    /\ \E w \in Workers : wpc[w] = "none" /\ wpc' = [wpc EXCEPT ![w] = "start"]
    /\ UNCHANGED <<mutex, taskQueue, shutdown, task, mpc, submitted, rejected, finished>>

CreateFails ==
    /\ mpc = "create"
    /\ \E w \in Workers : wpc[w] = "none"
    /\ mpc' = "aborted"
    /\ UNCHANGED <<mutex, taskQueue, shutdown, wpc, task, submitted, rejected, finished>>

CreateDone ==
    /\ mpc = "create"
    /\ \A w \in Workers : wpc[w] # "none"
    /\ mpc' = "submit"
    /\ UNCHANGED <<mutex, taskQueue, shutdown, wpc, task, submitted, rejected, finished>>

\* The two critical sections of main: submitTask while tasks are left, then
\* shutdownThreadPool.
MainLock ==
    /\ mpc \in {"submit", "shut down"}
    /\ mutex = Free
    /\ mutex' = Main
    /\ UNCHANGED <<taskQueue, shutdown, wpc, task, mpc, submitted, rejected, finished>>

\* Mutant: a worker is woken only when the queue was empty.
SignalFirst == IF taskQueue = <<>> THEN Signal ELSE UNCHANGED wpc

\* A task that arrives wakes one worker.
SignalWorker == Signal

\* Mutant: a full queue overwrites its last task.
HasSpaceOrLast == Len(taskQueue) <= QueueSize

HasSpace == Len(taskQueue) < QueueSize

SubmitTask ==
    /\ mpc = "submit"
    /\ mutex = Main
    /\ submitted' = submitted + 1
    /\ mpc' = IF submitted' = NumTasks THEN "shut down" ELSE "submit"
    /\ IF HasSpace
         THEN /\ taskQueue' = Append(taskQueue, submitted + 1)
              /\ SignalWorker
              /\ UNCHANGED rejected
         ELSE /\ rejected' = rejected \cup {submitted + 1}
              /\ UNCHANGED <<taskQueue, wpc>>
    /\ mutex' = Free
    /\ UNCHANGED <<shutdown, task, finished>>

\* Mutant: one worker is woken instead of all.
WakeOne == Signal

WakeAll == Broadcast

ShutdownThreadPool ==
    /\ mpc = "shut down"
    /\ mutex = Main
    /\ shutdown' = TRUE
    /\ WakeAll
    /\ mutex' = Free
    /\ mpc' = "join"
    /\ UNCHANGED <<taskQueue, task, submitted, rejected, finished>>

\* main joins the workers and then loops for ever, printing a line a second.
JoinWorkers ==
    /\ mpc = "join"
    /\ \A w \in Workers : wpc[w] = "done"
    /\ mpc' = "idle"
    /\ UNCHANGED <<mutex, taskQueue, shutdown, wpc, task, submitted, rejected, finished>>

-----------------------------------------------------------------------------
(* A worker.  All of them end when main aborts. *)

Live == mpc # "aborted"

\* pthread_mutex_lock at the top of the loop, or again inside pthread_cond_wait.
WorkerLock(w) ==
    /\ Live
    /\ wpc[w] \in {"start", "woken"}
    /\ mutex = Free
    /\ mutex' = w
    /\ wpc' = [wpc EXCEPT ![w] = "test"]
    /\ UNCHANGED <<taskQueue, shutdown, task, mpc, submitted, rejected, finished>>

\* pthread_cond_wait: the worker joins the waiters and releases the mutex in one step.
WorkerWait(w) ==
    /\ Live
    /\ wpc[w] = "test"
    /\ taskQueue = <<>>
    /\ ~shutdown
    /\ wpc' = [wpc EXCEPT ![w] = "waiting"]
    /\ mutex' = Free
    /\ UNCHANGED <<taskQueue, shutdown, task, mpc, submitted, rejected, finished>>

\* POSIX lets a wait end without a signal.
SpuriousWakeup(w) ==
    /\ Live
    /\ wpc[w] = "waiting"
    /\ wpc' = [wpc EXCEPT ![w] = "woken"]
    /\ UNCHANGED <<mutex, taskQueue, shutdown, task, mpc, submitted, rejected, finished>>

\* Mutant: the worker does not look at the queue before it leaves.
MayExitWithTasks == shutdown

MayExit == taskQueue = <<>> /\ shutdown

WorkerExit(w) ==
    /\ Live
    /\ wpc[w] = "test"
    /\ MayExit
    /\ wpc' = [wpc EXCEPT ![w] = "done"]
    /\ mutex' = Free
    /\ UNCHANGED <<taskQueue, shutdown, task, mpc, submitted, rejected, finished>>

Rest == Tail(taskQueue)

\* The first task is copied and the others move up.
WorkerTake(w) ==
    /\ Live
    /\ wpc[w] = "test"
    /\ taskQueue # <<>>
    /\ task' = [task EXCEPT ![w] = Head(taskQueue)]
    /\ taskQueue' = Rest
    /\ wpc' = [wpc EXCEPT ![w] = "execute"]
    /\ mutex' = Free
    /\ UNCHANGED <<shutdown, mpc, submitted, rejected, finished>>

\* The task runs without the mutex.
ExecuteTask(w) ==
    /\ Live
    /\ wpc[w] = "execute"
    /\ finished' = finished \cup {task[w]}
    /\ task' = [task EXCEPT ![w] = NoTask]
    /\ wpc' = [wpc EXCEPT ![w] = "start"]
    /\ UNCHANGED <<mutex, taskQueue, shutdown, mpc, submitted, rejected>>

MainStep ==
    \/ CreateWorker \/ CreateFails \/ CreateDone \/ MainLock
    \/ SubmitTask \/ ShutdownThreadPool \/ JoinWorkers

WorkerStep(w) ==
    WorkerLock(w) \/ WorkerWait(w) \/ WorkerExit(w) \/ WorkerTake(w) \/ ExecuteTask(w)

Idle == mpc \in {"idle", "aborted"} /\ UNCHANGED vars

Next ==
    \/ MainStep
    \/ \E w \in Workers : WorkerStep(w) \/ SpuriousWakeup(w)
    \/ Idle

\* Threads keep running, and one that asks for the mutex again and again gets it.
Fairness ==
    /\ WF_vars(MainStep)
    /\ SF_vars(MainLock)
    /\ \A w \in Workers : WF_vars(WorkerStep(w)) /\ SF_vars(WorkerLock(w))

Spec == Init /\ [][Next]_vars /\ Fairness

-----------------------------------------------------------------------------
(* Properties. *)

Queued == {taskQueue[k] : k \in 1 .. Len(taskQueue)}
InHand == {task[w] : w \in {v \in Workers : wpc[v] = "execute"}}

\* Types of the shared and of the local variables; the queue fits its array.
TypeOK ==
    /\ mutex \in {Free, Main} \cup Workers
    /\ taskQueue \in Seq(Tasks)
    /\ Len(taskQueue) <= QueueSize
    /\ shutdown \in BOOLEAN
    /\ wpc \in [Workers -> {"none", "start", "test", "waiting", "woken", "execute", "done"}]
    /\ task \in [Workers -> Tasks \cup {NoTask}]
    /\ mpc \in {"create", "aborted", "submit", "shut down", "join", "idle"}
    /\ submitted \in 0 .. NumTasks
    /\ rejected \subseteq Tasks
    /\ finished \subseteq Tasks

\* A submitted task is in exactly one place: in the queue, in the hands of one
\* worker, finished, or turned away.  None is lost and none runs twice.
EveryTaskInOnePlace ==
    /\ 1 .. submitted = Queued \cup InHand \cup finished \cup rejected
    /\ \A i, j \in 1 .. Len(taskQueue) : taskQueue[i] = taskQueue[j] => i = j
    /\ \A v, w \in Workers :
         wpc[v] = "execute" /\ wpc[w] = "execute" /\ task[v] = task[w] => v = w
    /\ Queued \cap InHand = {} /\ Queued \cap finished = {} /\ Queued \cap rejected = {}
    /\ InHand \cap finished = {} /\ InHand \cap rejected = {} /\ finished \cap rejected = {}

Awake == {w \in Workers : wpc[w] \in {"start", "test", "woken", "execute"}}

\* While a worker sleeps there are never more queued tasks than workers awake to
\* take them: one pthread_cond_signal for each task is enough, although a signal
\* is lost when nobody waits.
NoIdleBacklog == Waiting # {} => Len(taskQueue) <= Cardinality(Awake)

\* No worker sleeps once shutdown was requested: nobody would wake it, and main
\* would join it for ever.
NobodySleepsAfterShutdown == shutdown => Waiting = {}

\* The pool has the abstract task pool as its meaning, liveness included.
Pool == INSTANCE TaskPool WITH
    pending <- taskQueue, running <- InHand, open <- ~shutdown

PoolSpec == Pool!Spec

\* main gets past its joins, or returned because a worker could not be created.
MainGoesIdle == <>(mpc \in {"idle", "aborted"})
==============================================================================
