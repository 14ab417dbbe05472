--------------------------- MODULE ThreadPoolProofs ---------------------------
(* Theorems about ThreadPool, for any number of workers and of tasks and any     *)
(* size of the queue.                                                            *)
EXTENDS ThreadPool, FiniteSetTheorems, TLAPS

-----------------------------------------------------------------------------
(* Type correctness. *)

\* While it is creating workers or submitting, main has tasks left to submit.
CountInv == mpc \in {"create", "submit", "aborted"} => submitted < NumTasks

\* A worker that executes has a task in its hands.
HandInv == \A w \in Workers : wpc[w] = "execute" => task[w] # NoTask

\* The queue is empty and nothing is counted when the program starts.
LEMMA TypeInit == Init => TypeOK /\ CountInv /\ HandInv
<1> SUFFICES ASSUME Init PROVE TypeOK /\ CountInv /\ HandInv
    OBVIOUS
<1>1. taskQueue \in Seq(Tasks) /\ Len(taskQueue) <= QueueSize
  <2>1. taskQueue = <<>> /\ Len(taskQueue) = 0
        BY DEF Init
  <2> QED BY <2>1, SizesAssumption
<1>2. submitted \in 0 .. NumTasks /\ submitted < NumTasks
      BY SizesAssumption DEF Init
<1> QED BY <1>1, <1>2 DEF Init, TypeOK, CountInv, HandInv

\* The tasks are numbered in the order of main's loop.
LEMMA NextTask == \A n \in 0 .. NumTasks :
                     n < NumTasks => n + 1 \in Tasks /\ n + 1 \in 0 .. NumTasks
BY SizesAssumption DEF Tasks

\* A submitted task is one of those main has to submit, and has room in the queue.
LEMMA SubmitStep ==
    ASSUME TypeOK, CountInv, HandInv, SubmitTask
    PROVE  TypeOK' /\ CountInv' /\ HandInv' /\ submitted + 1 \in Tasks
<1> DEFINE t == submitted + 1
<1>1. /\ mpc = "submit"
      /\ submitted' = t
      /\ mpc' = IF submitted' = NumTasks THEN "shut down" ELSE "submit"
      BY DEF SubmitTask
<1>2. submitted \in 0 .. NumTasks /\ NumTasks \in Nat
      BY SizesAssumption DEF TypeOK
<1>3. submitted < NumTasks
      BY <1>1 DEF CountInv
<1>4. t \in Tasks /\ submitted' \in 0 .. NumTasks
      BY <1>1, <1>2, <1>3, NextTask
<1>5. mpc' \in {"submit", "shut down"}
      BY <1>1
<1>6. CountInv'
  <2>1. mpc' \in {"create", "submit", "aborted"} => submitted' # NumTasks
        BY <1>1
  <2> QED BY <1>2, <1>4, <2>1 DEF CountInv
<1>7. taskQueue' \in Seq(Tasks) /\ Len(taskQueue') <= QueueSize
  <2>1. CASE HasSpace
    <3>1. taskQueue' = Append(taskQueue, t) /\ Len(taskQueue) < QueueSize
          BY <2>1 DEF SubmitTask, HasSpace
    <3>2. taskQueue \in Seq(Tasks)
          BY DEF TypeOK
    <3>3. Len(taskQueue') = Len(taskQueue) + 1 /\ Len(taskQueue) \in Nat
          BY <3>1, <3>2
    <3>4. Len(taskQueue') <= QueueSize
          BY <3>1, <3>3, SizesAssumption
    <3>5. taskQueue' \in Seq(Tasks)
          BY <1>4, <3>1, <3>2
    <3> QED BY <3>4, <3>5
  <2>2. CASE ~HasSpace
        BY <2>2 DEF SubmitTask, TypeOK
  <2> QED BY <2>1, <2>2
<1>8. wpc' \in [Workers -> {"none", "start", "test", "waiting", "woken", "execute", "done"}]
  <2>1. wpc' = wpc \/ \E w \in Workers : wpc' = [wpc EXCEPT ![w] = "woken"]
        BY DEF SubmitTask, SignalWorker, Signal, Waiting
  <2> QED BY <2>1 DEF TypeOK
<1>9. rejected' \subseteq Tasks
      BY <1>4 DEF SubmitTask, TypeOK
<1>10. UNCHANGED <<shutdown, task, finished>> /\ mutex' = Free
       BY DEF SubmitTask
<1>11. HandInv'
  <2>1. \A w \in Workers : wpc'[w] = "execute" => wpc[w] = "execute"
        BY DEF SubmitTask, SignalWorker, Signal, Waiting, TypeOK
  <2> QED BY <1>10, <2>1 DEF HandInv
<1> QED BY <1>4, <1>5, <1>6, <1>7, <1>8, <1>9, <1>10, <1>11 DEF TypeOK

\* Taking the first task leaves a shorter queue of tasks.
LEMMA TakeStep ==
    ASSUME TypeOK, HandInv, NEW w \in Workers, WorkerTake(w)
    PROVE  TypeOK' /\ HandInv' /\ Head(taskQueue) \in Tasks
<1>1. taskQueue \in Seq(Tasks) /\ taskQueue # <<>>
      BY DEF WorkerTake, TypeOK
<1>2. /\ Head(taskQueue) \in Tasks
      /\ Tail(taskQueue) \in Seq(Tasks)
      /\ Len(Tail(taskQueue)) = Len(taskQueue) - 1
      /\ Len(taskQueue) \in Nat
      BY <1>1
<1>3. taskQueue' = Tail(taskQueue)
      BY DEF WorkerTake, Rest
<1>4. Len(taskQueue) <= QueueSize
      BY DEF TypeOK
<1>5. taskQueue' \in Seq(Tasks) /\ Len(taskQueue') <= QueueSize
      BY <1>2, <1>3, <1>4, SizesAssumption
<1>6. task' \in [Workers -> Tasks \cup {NoTask}]
      BY <1>2 DEF WorkerTake, TypeOK
<1>7. wpc' \in [Workers -> {"none", "start", "test", "waiting", "woken", "execute", "done"}]
      BY DEF WorkerTake, TypeOK
<1>8. UNCHANGED <<shutdown, mpc, submitted, rejected, finished>> /\ mutex' = Free
      BY DEF WorkerTake
<1>9. HandInv'
  <2>1. Head(taskQueue) # NoTask
        BY <1>2, SizesAssumption DEF Tasks, NoTask
  <2> QED BY <2>1 DEF WorkerTake, HandInv, TypeOK
<1> QED BY <1>2, <1>5, <1>6, <1>7, <1>8, <1>9 DEF TypeOK

\* Each step of main and of a worker preserves the types and the count.
LEMMA TypeStep == TypeOK /\ CountInv /\ HandInv /\ [Next]_vars => TypeOK' /\ CountInv' /\ HandInv'
<1> SUFFICES ASSUME TypeOK, CountInv, HandInv, [Next]_vars
             PROVE  TypeOK' /\ CountInv' /\ HandInv'
    OBVIOUS
<1>1. CASE CreateWorker \/ MainLock
      BY <1>1 DEF CreateWorker, MainLock, TypeOK, CountInv, HandInv
<1>2. CASE CreateFails \/ CreateDone \/ JoinWorkers
      BY <1>2 DEF CreateFails, CreateDone, JoinWorkers, TypeOK, CountInv, HandInv
<1>3. CASE SubmitTask
      BY <1>3, SubmitStep
<1>4. CASE ShutdownThreadPool
      BY <1>4 DEF ShutdownThreadPool, WakeAll, Broadcast, TypeOK, CountInv, HandInv
<1>5. ASSUME NEW w \in Workers, WorkerStep(w) \/ SpuriousWakeup(w)
      PROVE  TypeOK' /\ CountInv' /\ HandInv'
  <2>1. CountInv'
        BY <1>5 DEF WorkerStep, WorkerLock, WorkerWait, WorkerExit, WorkerTake, ExecuteTask,
                    SpuriousWakeup, CountInv
  <2>2. CASE WorkerLock(w)
        BY <2>1, <2>2 DEF WorkerLock, TypeOK, HandInv
  <2>3. CASE WorkerWait(w) \/ WorkerExit(w) \/ SpuriousWakeup(w)
        BY <2>1, <2>3 DEF WorkerWait, WorkerExit, SpuriousWakeup, TypeOK, HandInv
  <2>4. CASE WorkerTake(w)
        BY <2>1, <2>4, TakeStep
  <2>5. CASE ExecuteTask(w)
    <3>1. task' \in [Workers -> Tasks \cup {NoTask}]
          BY <2>5 DEF ExecuteTask, TypeOK
    <3>2. finished' \subseteq Tasks
      <4>1. task[w] \in Tasks
            BY <2>5 DEF ExecuteTask, HandInv, TypeOK
      <4> QED BY <2>5, <4>1 DEF ExecuteTask, TypeOK
    <3>3. HandInv'
          BY <2>5 DEF ExecuteTask, HandInv, TypeOK
    <3> QED BY <2>1, <2>5, <3>1, <3>2, <3>3 DEF ExecuteTask, TypeOK
  <2> QED BY <1>5, <2>2, <2>3, <2>4, <2>5 DEF WorkerStep
<1>6. CASE Idle \/ UNCHANGED vars
      BY <1>6 DEF Idle, vars, TypeOK, CountInv, HandInv
<1> QED BY <1>1, <1>2, <1>3, <1>4, <1>5, <1>6 DEF Next, MainStep

\* The types, main's counter and the workers' hands in every reachable state.
TypeInv == TypeOK /\ CountInv /\ HandInv

\* TypeInv for every number of workers and every size of the queue.
THEOREM TypeInvariant == Spec => []TypeInv
BY TypeInit, TypeStep, PTL DEF Spec, TypeInv

\* Type correctness; in particular taskCount never exceeds QUEUE_SIZE, so that no
\* worker and no submission indexes the array out of its bounds.
THEOREM TypeCorrect == Spec => []TypeOK
<1>1. TypeInv => TypeOK
      BY DEF TypeInv
<1> QED BY <1>1, TypeInvariant, PTL

-----------------------------------------------------------------------------
(* Waking up.                                                                  *)

\* shutdownThreadPool wakes all workers, and none starts to wait afterwards.
LEMMA ShutdownStep ==
    TypeOK /\ NobodySleepsAfterShutdown /\ [Next]_vars => NobodySleepsAfterShutdown'
<1> SUFFICES ASSUME TypeOK, NobodySleepsAfterShutdown, [Next]_vars
             PROVE  NobodySleepsAfterShutdown'
    OBVIOUS
<1> USE DEF NobodySleepsAfterShutdown, Waiting, TypeOK
<1>1. CASE CreateWorker \/ CreateFails \/ CreateDone \/ MainLock \/ JoinWorkers
      BY <1>1 DEF CreateWorker, CreateFails, CreateDone, MainLock, JoinWorkers
<1>2. CASE SubmitTask
      BY <1>2 DEF SubmitTask, SignalWorker, Signal
<1>3. CASE ShutdownThreadPool
      BY <1>3 DEF ShutdownThreadPool, WakeAll, Broadcast
<1>4. ASSUME NEW w \in Workers, WorkerStep(w) \/ SpuriousWakeup(w)
      PROVE  NobodySleepsAfterShutdown'
      BY <1>4 DEF WorkerStep, WorkerLock, WorkerWait, WorkerExit, WorkerTake, ExecuteTask,
                  SpuriousWakeup
<1>5. CASE Idle \/ UNCHANGED vars
      BY <1>5 DEF Idle, vars
<1> QED BY <1>1, <1>2, <1>3, <1>4, <1>5 DEF Next, MainStep

\* After the request to shut down, main never joins a worker that nobody wakes.
THEOREM ShutdownWakesAll == Spec => []NobodySleepsAfterShutdown
<1>1. Init => NobodySleepsAfterShutdown
      BY DEF Init, NobodySleepsAfterShutdown
<1> QED BY <1>1, ShutdownStep, TypeCorrect, PTL DEF Spec

\* One more worker awake is one more of them, and none fewer otherwise.
LEMMA AwakeCount ==
    /\ IsFiniteSet(Awake) /\ Cardinality(Awake) \in Nat
    /\ \A w \in Workers \ Awake : Cardinality(Awake \cup {w}) = Cardinality(Awake) + 1
    /\ \A w \in Workers : Cardinality(Awake \cup {w}) >= Cardinality(Awake)
<1>1. IsFiniteSet(Awake) /\ Cardinality(Awake) \in Nat
  <2>1. Awake \in SUBSET Workers
        BY DEF Awake
  <2> QED BY <2>1, FS_Subset, FS_CardinalityType, WorkersAssumption
<1>2. ASSUME NEW w \in Workers \ Awake
      PROVE  Cardinality(Awake \cup {w}) = Cardinality(Awake) + 1
      BY <1>1, FS_AddElement
<1>3. ASSUME NEW w \in Workers
      PROVE  Cardinality(Awake \cup {w}) >= Cardinality(Awake)
  <2>1. CASE w \in Awake
    <3>1. Awake \cup {w} = Awake
          BY <2>1
    <3> QED BY <1>1, <3>1
  <2>2. CASE w \notin Awake
        BY <1>1, <1>2, <2>2
  <2> QED BY <2>1, <2>2
<1> QED BY <1>1, <1>2, <1>3

\* A task that arrives wakes a worker if one sleeps; a worker that takes a task
\* stays awake, and one goes to sleep only when the queue is empty.
LEMMA BacklogStep == TypeOK /\ NoIdleBacklog /\ [Next]_vars => NoIdleBacklog'
<1> SUFFICES ASSUME TypeOK, NoIdleBacklog, [Next]_vars, Waiting' # {}
             PROVE  Len(taskQueue') <= Cardinality(Awake')
    BY DEF NoIdleBacklog
<1>0. Len(taskQueue) \in Nat /\ Cardinality(Awake) \in Nat
  <2>1. taskQueue \in Seq(Tasks)
        BY DEF TypeOK
  <2> QED BY <2>1, AwakeCount
<1>1. CASE Waiting # {} /\ Len(taskQueue') <= Len(taskQueue) /\ Len(taskQueue') \in Nat
           /\ \/ Awake' = Awake
              \/ \E w \in Workers : Awake' = Awake \cup {w}
  <2>1. Cardinality(Awake') >= Cardinality(Awake) /\ Cardinality(Awake') \in Nat
    <3>1. CASE Awake' = Awake
          BY <1>0, <3>1
    <3>2. ASSUME NEW w \in Workers, Awake' = Awake \cup {w}
          PROVE  Cardinality(Awake') >= Cardinality(Awake) /\ Cardinality(Awake') \in Nat
      <4>1. IsFiniteSet(Awake')
            BY <3>2, AwakeCount, FS_AddElement
      <4> QED BY <3>2, <4>1, AwakeCount, FS_CardinalityType
    <3> QED BY <1>1, <3>1, <3>2
  <2>2. Len(taskQueue) <= Cardinality(Awake)
        BY <1>1 DEF NoIdleBacklog
  <2> QED BY <1>0, <1>1, <2>1, <2>2
<1>2. CASE UNCHANGED <<taskQueue, wpc>>
      BY <1>0, <1>1, <1>2 DEF Waiting, Awake
<1>3. CASE CreateWorker
  <2>1. PICK w \in Workers : wpc' = [wpc EXCEPT ![w] = "start"]
        BY <1>3 DEF CreateWorker
  <2>2. Awake' = Awake \cup {w} /\ Waiting # {}
        BY <2>1 DEF Awake, Waiting, TypeOK
  <2> QED BY <1>0, <1>1, <1>3, <2>2 DEF CreateWorker
<1>4. CASE CreateFails \/ CreateDone \/ MainLock \/ JoinWorkers
      BY <1>2, <1>4 DEF CreateFails, CreateDone, MainLock, JoinWorkers
<1>5. CASE SubmitTask
  <2>1. CASE HasSpace
    <3>1. Waiting # {}
          BY <1>5, <2>1 DEF SubmitTask, SignalWorker, Signal, Waiting
    <3>2. PICK w \in Waiting : wpc' = [wpc EXCEPT ![w] = "woken"]
          BY <1>5, <2>1, <3>1 DEF SubmitTask, SignalWorker, Signal
    <3>3. w \in Workers \ Awake /\ Awake' = Awake \cup {w}
          BY <3>2 DEF Waiting, Awake, TypeOK
    <3>4. taskQueue' = Append(taskQueue, submitted + 1)
          BY <1>5, <2>1 DEF SubmitTask
    <3>5. Len(taskQueue') = Len(taskQueue) + 1
      <4>1. taskQueue \in Seq(Tasks)
            BY DEF TypeOK
      <4> QED BY <3>4, <4>1
    <3>6. Cardinality(Awake') = Cardinality(Awake) + 1
          BY <3>3, AwakeCount
    <3>7. Len(taskQueue) <= Cardinality(Awake)
          BY <3>1 DEF NoIdleBacklog
    <3> QED BY <1>0, <3>5, <3>6, <3>7
  <2>2. CASE ~HasSpace
        BY <1>2, <1>5, <2>2 DEF SubmitTask
  <2> QED BY <2>1, <2>2
<1>6. CASE ShutdownThreadPool
      BY <1>6 DEF ShutdownThreadPool, WakeAll, Broadcast, Waiting, TypeOK
<1>7. ASSUME NEW w \in Workers, WorkerStep(w) \/ SpuriousWakeup(w)
      PROVE  Len(taskQueue') <= Cardinality(Awake')
  <2>1. CASE WorkerLock(w) \/ ExecuteTask(w)
    <3>1. Awake' = Awake /\ Waiting' = Waiting /\ taskQueue' = taskQueue
          BY <2>1 DEF WorkerLock, ExecuteTask, Awake, Waiting, TypeOK
    <3> QED BY <1>0, <1>1, <3>1
  <2>2. CASE SpuriousWakeup(w)
    <3>1. Awake' = Awake \cup {w} /\ Waiting # {} /\ taskQueue' = taskQueue
          BY <2>2 DEF SpuriousWakeup, Awake, Waiting, TypeOK
    <3> QED BY <1>0, <1>1, <3>1
  <2>3. CASE WorkerWait(w) \/ WorkerExit(w)
    <3>1. taskQueue' = <<>>
          BY <2>3 DEF WorkerWait, WorkerExit, MayExit
    <3>2. IsFiniteSet(Awake') /\ Cardinality(Awake') \in Nat
      <4>1. Awake' \in SUBSET Workers
            BY DEF Awake
      <4> QED BY <4>1, FS_Subset, FS_CardinalityType, WorkersAssumption
    <3> QED BY <3>1, <3>2
  <2>4. CASE WorkerTake(w)
    <3>1. Awake' = Awake /\ Waiting' = Waiting
          BY <2>4 DEF WorkerTake, Awake, Waiting, TypeOK
    <3>2. taskQueue' = Tail(taskQueue) /\ taskQueue # <<>> /\ taskQueue \in Seq(Tasks)
          BY <2>4 DEF WorkerTake, Rest, TypeOK
    <3>3. Len(taskQueue') = Len(taskQueue) - 1 /\ Len(taskQueue') \in Nat
          BY <3>2
    <3> QED BY <1>0, <1>1, <3>1, <3>3
  <2> QED BY <1>7, <2>1, <2>2, <2>3, <2>4 DEF WorkerStep
<1>8. CASE Idle \/ UNCHANGED vars
      BY <1>2, <1>8 DEF Idle, vars
<1> QED BY <1>3, <1>4, <1>5, <1>6, <1>7, <1>8 DEF Next, MainStep

\* One signal for each task is enough: a worker sleeps only while the workers that
\* are awake suffice for the tasks in the queue.
THEOREM SignalsSuffice == Spec => []NoIdleBacklog
<1>1. Init => NoIdleBacklog
      BY DEF Init, NoIdleBacklog, Waiting
<1> QED BY <1>1, BacklogStep, TypeCorrect, PTL DEF Spec

-----------------------------------------------------------------------------
(* Tasks: none is lost and none runs twice.                                    *)

Elements(q) == {q[k] : k \in 1 .. Len(q)}
Distinct(q) == \A i, j \in 1 .. Len(q) : q[i] = q[j] => i = j

\* A new task at the end of the array is one more element.
LEMMA AppendElements ==
    ASSUME NEW q \in Seq(Tasks), NEW t \in Tasks, Distinct(q), t \notin Elements(q)
    PROVE  /\ Elements(Append(q, t)) = Elements(q) \cup {t}
           /\ Distinct(Append(q, t))
<1>1. /\ Len(q) \in Nat
      /\ Len(Append(q, t)) = Len(q) + 1
      /\ \A k \in 1 .. Len(q) : Append(q, t)[k] = q[k] /\ q[k] # t
      /\ Append(q, t)[Len(q) + 1] = t
      BY DEF Elements
<1>2. 1 .. Len(q) + 1 = (1 .. Len(q)) \cup {Len(q) + 1}
      BY <1>1
<1>3. Elements(Append(q, t)) = Elements(q) \cup {t}
      BY <1>1, <1>2 DEF Elements
<1>4. Distinct(Append(q, t))
      BY <1>1, <1>2 DEF Distinct
<1> QED BY <1>3, <1>4

\* Moving the tasks up in the array removes the first and nothing else.
LEMMA TailElements ==
    ASSUME NEW q \in Seq(Tasks), q # <<>>, Distinct(q)
    PROVE  /\ Head(q) \in Elements(q)
           /\ Elements(Tail(q)) = Elements(q) \ {Head(q)}
           /\ Distinct(Tail(q))
<1>1. /\ Len(q) \in Nat /\ Len(q) >= 1
      /\ Head(q) = q[1]
      /\ Len(Tail(q)) = Len(q) - 1
      /\ \A k \in 1 .. Len(q) - 1 : Tail(q)[k] = q[k + 1]
      OBVIOUS
<1>2. \A k \in 1 .. Len(q) - 1 : k + 1 \in 1 .. Len(q) /\ k + 1 # 1
      BY <1>1
<1>3. \A k \in 1 .. Len(q) : k = 1 \/ (k - 1 \in 1 .. Len(q) - 1 /\ (k - 1) + 1 = k)
      BY <1>1
<1>4. 1 \in 1 .. Len(q)
      BY <1>1
<1>5. Elements(Tail(q)) \subseteq Elements(q) \ {Head(q)}
      BY <1>1, <1>2, <1>4 DEF Elements, Distinct
<1>6. Elements(q) \ {Head(q)} \subseteq Elements(Tail(q))
      BY <1>1, <1>3 DEF Elements
<1>7. Distinct(Tail(q))
  <2> SUFFICES ASSUME NEW i \in 1 .. Len(q) - 1, NEW j \in 1 .. Len(q) - 1,
                      Tail(q)[i] = Tail(q)[j]
               PROVE  i = j
      BY <1>1 DEF Distinct
  <2>1. i + 1 = j + 1
        BY <1>1, <1>2 DEF Distinct
  <2> QED BY <2>1
<1> QED BY <1>1, <1>4, <1>5, <1>6, <1>7 DEF Elements

Executing == {w \in Workers : wpc[w] = "execute"}

\* Steps that move no task.
LEMMA PlaceFrame ==
    ASSUME EveryTaskInOnePlace, Executing' = Executing,
           UNCHANGED <<submitted, taskQueue, task, finished, rejected>>
    PROVE  EveryTaskInOnePlace'
<1>1. InHand' = InHand /\ Queued' = Queued
      BY DEF InHand, Executing, Queued
<1>2. \A v, w \in Executing : task[v] = task[w] => v = w
      BY DEF EveryTaskInOnePlace, Executing
<1>3. \A v, w \in Workers :
         wpc'[v] = "execute" /\ wpc'[w] = "execute" /\ task'[v] = task'[w] => v = w
      BY <1>2 DEF Executing
<1> QED BY <1>1, <1>3 DEF EveryTaskInOnePlace

\* The next task is new, and goes to the queue or is turned away.
LEMMA SubmitPlace == TypeInv /\ EveryTaskInOnePlace /\ SubmitTask => EveryTaskInOnePlace'
<1> SUFFICES ASSUME TypeInv, EveryTaskInOnePlace, SubmitTask
             PROVE  EveryTaskInOnePlace'
    OBVIOUS
<1> DEFINE t == submitted + 1
<1>1. t \in Tasks /\ taskQueue \in Seq(Tasks) /\ submitted \in 0 .. NumTasks
      BY SubmitStep DEF TypeInv, TypeOK
<1>2. t \notin 1 .. submitted /\ 1 .. submitted' = (1 .. submitted) \cup {t}
  <2>1. submitted' = submitted + 1
        BY DEF SubmitTask
  <2>2. submitted \in Nat
        BY <1>1, SizesAssumption
  <2> QED BY <2>1, <2>2
<1>3. t \notin Queued /\ t \notin InHand /\ t \notin finished /\ t \notin rejected
      BY <1>2 DEF EveryTaskInOnePlace
<1>4. Executing' = Executing /\ task' = task /\ finished' = finished
  <2>1. \A w \in Workers : wpc'[w] = "execute" <=> wpc[w] = "execute"
        BY DEF SubmitTask, SignalWorker, Signal, Waiting, TypeInv, TypeOK
  <2> QED BY <2>1 DEF SubmitTask, Executing
<1>5. InHand' = InHand
      BY <1>4 DEF InHand, Executing
<1>6. \A v, w \in Workers :
         wpc'[v] = "execute" /\ wpc'[w] = "execute" /\ task'[v] = task'[w] => v = w
  <2>1. \A v, w \in Executing : task[v] = task[w] => v = w
        BY DEF EveryTaskInOnePlace, Executing
  <2> QED BY <1>4, <2>1 DEF Executing
<1>7. CASE HasSpace
  <2>1. taskQueue' = Append(taskQueue, t) /\ rejected' = rejected
        BY <1>7 DEF SubmitTask
  <2>2. Distinct(taskQueue) /\ t \notin Elements(taskQueue)
        BY <1>3 DEF EveryTaskInOnePlace, Distinct, Elements, Queued
  <2>3. Queued' = Queued \cup {t} /\ Distinct(taskQueue')
        BY <1>1, <2>1, <2>2, AppendElements DEF Queued, Elements
  <2> QED BY <1>2, <1>3, <1>4, <1>5, <1>6, <2>1, <2>3 DEF EveryTaskInOnePlace, Distinct
<1>8. CASE ~HasSpace
  <2>1. taskQueue' = taskQueue /\ rejected' = rejected \cup {t}
        BY <1>8 DEF SubmitTask
  <2>2. Queued' = Queued
        BY <2>1 DEF Queued
  <2> QED BY <1>2, <1>3, <1>4, <1>5, <1>6, <2>1, <2>2 DEF EveryTaskInOnePlace
<1> QED BY <1>7, <1>8

\* The first task goes from the queue to the hands of one worker.
LEMMA TakePlace ==
    ASSUME TypeInv, EveryTaskInOnePlace, NEW w \in Workers, WorkerTake(w)
    PROVE  /\ EveryTaskInOnePlace'
           /\ InHand' = InHand \cup {Head(taskQueue)}
<1> DEFINE t == Head(taskQueue)
<1>1. /\ taskQueue \in Seq(Tasks) /\ taskQueue # <<>>
      /\ taskQueue' = Tail(taskQueue)
      /\ Distinct(taskQueue)
      BY DEF WorkerTake, Rest, TypeInv, TypeOK, EveryTaskInOnePlace, Distinct
<1>2. t \in Queued /\ Queued' = Queued \ {t} /\ Distinct(taskQueue')
      BY <1>1, TailElements DEF Queued, Elements
<1>3. t \notin InHand /\ t \notin finished /\ t \notin rejected
      BY <1>2 DEF EveryTaskInOnePlace
<1>4. /\ Executing' = Executing \cup {w}
      /\ w \notin Executing
      /\ task'[w] = t
      /\ \A v \in Executing : task'[v] = task[v]
      BY DEF WorkerTake, Executing, TypeInv, TypeOK
<1>5. InHand = {task[v] : v \in Executing} /\ InHand' = {task'[v] : v \in Executing'}
      BY DEF InHand, Executing
<1>6. InHand' = InHand \cup {t}
      BY <1>4, <1>5
<1>7. \A u, v \in Executing' : task'[u] = task'[v] => u = v
  <2>1. \A u, v \in Executing : task[u] = task[v] => u = v
        BY DEF EveryTaskInOnePlace, Executing
  <2>2. \A v \in Executing : task[v] # t
        BY <1>3, <1>5
  <2> QED BY <1>4, <2>1, <2>2
<1>8. \A u, v \in Workers :
         wpc'[u] = "execute" /\ wpc'[v] = "execute" /\ task'[u] = task'[v] => u = v
      BY <1>7 DEF Executing
<1>9. UNCHANGED <<submitted, finished, rejected>>
      BY DEF WorkerTake
<1> QED BY <1>2, <1>3, <1>6, <1>8, <1>9 DEF EveryTaskInOnePlace, Distinct

\* A task that ends goes from the hands of its worker to the finished ones.
LEMMA ExecutePlace ==
    ASSUME TypeInv, EveryTaskInOnePlace, NEW w \in Workers, ExecuteTask(w)
    PROVE  /\ EveryTaskInOnePlace'
           /\ task[w] \in InHand
           /\ InHand' = InHand \ {task[w]}
<1>1. /\ Executing' = Executing \ {w}
      /\ w \in Executing
      /\ \A v \in Executing \ {w} : task'[v] = task[v]
      BY DEF ExecuteTask, Executing, TypeInv, TypeOK
<1>2. \A u, v \in Executing : task[u] = task[v] => u = v
      BY DEF EveryTaskInOnePlace, Executing
<1>3. InHand = {task[v] : v \in Executing} /\ InHand' = {task'[v] : v \in Executing'}
      BY DEF InHand, Executing
<1>4. task[w] \in InHand /\ InHand' = InHand \ {task[w]}
      BY <1>1, <1>2, <1>3
<1>5. \A u, v \in Workers :
         wpc'[u] = "execute" /\ wpc'[v] = "execute" /\ task'[u] = task'[v] => u = v
  <2>1. \A u, v \in Executing' : task'[u] = task'[v] => u = v
        BY <1>1, <1>2
  <2> QED BY <2>1 DEF Executing
<1>6. /\ finished' = finished \cup {task[w]}
      /\ UNCHANGED <<taskQueue, submitted, rejected>>
      BY DEF ExecuteTask
<1>7. Queued' = Queued
      BY <1>6 DEF Queued
<1> QED BY <1>4, <1>5, <1>6, <1>7 DEF EveryTaskInOnePlace

\* Every other step leaves each task where it is.
LEMMA PlaceStep ==
    TypeInv /\ EveryTaskInOnePlace /\ [Next]_vars => EveryTaskInOnePlace'
<1> SUFFICES ASSUME TypeInv, EveryTaskInOnePlace, [Next]_vars
             PROVE  EveryTaskInOnePlace'
    OBVIOUS
<1>1. CASE CreateWorker \/ CreateFails \/ CreateDone \/ MainLock \/ JoinWorkers
  <2>1. Executing' = Executing
        BY <1>1 DEF CreateWorker, CreateFails, CreateDone, MainLock, JoinWorkers, Executing,
                    TypeInv, TypeOK
  <2> QED BY <1>1, <2>1, PlaceFrame
          DEF CreateWorker, CreateFails, CreateDone, MainLock, JoinWorkers
<1>2. CASE SubmitTask
      BY <1>2, SubmitPlace
<1>3. CASE ShutdownThreadPool
  <2>1. Executing' = Executing
        BY <1>3 DEF ShutdownThreadPool, WakeAll, Broadcast, Waiting, Executing, TypeInv, TypeOK
  <2> QED BY <1>3, <2>1, PlaceFrame DEF ShutdownThreadPool
<1>4. ASSUME NEW w \in Workers, WorkerStep(w) \/ SpuriousWakeup(w)
      PROVE  EveryTaskInOnePlace'
  <2>1. CASE WorkerTake(w)
        BY <2>1, TakePlace
  <2>2. CASE ExecuteTask(w)
        BY <2>2, ExecutePlace
  <2>3. CASE WorkerLock(w) \/ WorkerWait(w) \/ WorkerExit(w) \/ SpuriousWakeup(w)
    <3>1. Executing' = Executing
          BY <2>3 DEF WorkerLock, WorkerWait, WorkerExit, SpuriousWakeup, Executing,
                      TypeInv, TypeOK
    <3> QED BY <2>3, <3>1, PlaceFrame DEF WorkerLock, WorkerWait, WorkerExit, SpuriousWakeup
  <2> QED BY <1>4, <2>1, <2>2, <2>3 DEF WorkerStep
<1>5. CASE Idle \/ UNCHANGED vars
  <2>1. Executing' = Executing
        BY <1>5 DEF Idle, vars, Executing
  <2> QED BY <1>5, <2>1, PlaceFrame DEF Idle, vars
<1> QED BY <1>1, <1>2, <1>3, <1>4, <1>5 DEF Next, MainStep

\* Whatever the interleaving, a submitted task is in one place: in the queue, with
\* one worker, finished or turned away.
THEOREM NoTaskLostOrRepeated == Spec => []EveryTaskInOnePlace
<1>1. Init => EveryTaskInOnePlace
  <2> SUFFICES ASSUME Init PROVE EveryTaskInOnePlace
      OBVIOUS
  <2>1. Queued = {} /\ InHand = {}
        BY DEF Init, Queued, InHand
  <2>2. 1 .. submitted = {}
        BY DEF Init
  <2> QED BY <2>1, <2>2 DEF Init, EveryTaskInOnePlace
<1> QED BY <1>1, PlaceStep, TypeInvariant, PTL DEF Spec

-----------------------------------------------------------------------------
(* The pool implements the abstract one.                                       *)

\* Tasks are submitted before shutdown is requested.
OpenInv == mpc \in {"create", "submit", "shut down", "aborted"} => ~shutdown

\* Only shutdownThreadPool sets shutdown, after the last submission.
LEMMA OpenStep == OpenInv /\ [Next]_vars => OpenInv'
BY DEF OpenInv, Next, vars, MainStep, CreateWorker, CreateFails, CreateDone, MainLock,
       SubmitTask, ShutdownThreadPool, JoinWorkers, WorkerStep, WorkerLock, WorkerWait,
       WorkerExit, WorkerTake, ExecuteTask, SpuriousWakeup, Idle

\* Steps that move no task and do not close the pool are stuttering steps.
LEMMA PoolFrame ==
    ASSUME Executing' = Executing,
           UNCHANGED <<taskQueue, task, finished, rejected, shutdown>>
    PROVE  UNCHANGED Pool!vars
<1>1. InHand' = InHand
      BY DEF InHand, Executing
<1> QED BY <1>1 DEF Pool!vars

\* Each step of the program is a step of the abstract pool, or none.
LEMMA PoolStep ==
    TypeInv /\ EveryTaskInOnePlace /\ OpenInv /\ [Next]_vars => [Pool!Next]_(Pool!vars)
<1> SUFFICES ASSUME TypeInv, EveryTaskInOnePlace, OpenInv, [Next]_vars
             PROVE  Pool!Next \/ UNCHANGED Pool!vars
    OBVIOUS
<1>1. CASE CreateWorker \/ CreateFails \/ CreateDone \/ MainLock \/ JoinWorkers
  <2>1. Executing' = Executing
        BY <1>1 DEF CreateWorker, CreateFails, CreateDone, MainLock, JoinWorkers, Executing,
                    TypeInv, TypeOK
  <2> QED BY <1>1, <2>1, PoolFrame
          DEF CreateWorker, CreateFails, CreateDone, MainLock, JoinWorkers
<1>2. CASE SubmitTask
  <2> DEFINE t == submitted + 1
  <2>1. t \in Tasks /\ submitted \in Nat
    <3>1. t \in Tasks
          BY <1>2, SubmitStep DEF TypeInv
    <3>2. submitted \in 0 .. NumTasks
          BY DEF TypeInv, TypeOK
    <3> QED BY <3>1, <3>2, SizesAssumption
  <2>2. t \notin 1 .. submitted
        BY <2>1
  <2>3. t \notin Queued /\ t \notin InHand \cup finished \cup rejected
        BY <2>2 DEF EveryTaskInOnePlace
  <2>4. Pool!New(t)
        BY <2>3 DEF Pool!New, Queued
  <2>5. ~shutdown /\ shutdown' = shutdown /\ finished' = finished
        BY <1>2 DEF SubmitTask, OpenInv
  <2>6. InHand' = InHand
    <3>1. \A w \in Workers : wpc'[w] = "execute" <=> wpc[w] = "execute"
          BY <1>2 DEF SubmitTask, SignalWorker, Signal, Waiting, TypeInv, TypeOK
    <3> QED BY <1>2, <3>1 DEF SubmitTask, InHand
  <2>7. IF Len(taskQueue) < QueueSize
          THEN taskQueue' = Append(taskQueue, t) /\ rejected' = rejected
          ELSE rejected' = rejected \cup {t} /\ taskQueue' = taskQueue
        BY <1>2 DEF SubmitTask, HasSpace
  <2>8. Pool!Submit(t)
        BY <2>3, <2>4, <2>5, <2>6, <2>7 DEF Pool!Submit
  <2> QED BY <2>1, <2>8 DEF Pool!Next
<1>3. CASE ShutdownThreadPool
  <2>1. Executing' = Executing
        BY <1>3 DEF ShutdownThreadPool, WakeAll, Broadcast, Waiting, Executing, TypeInv, TypeOK
  <2>2. InHand' = InHand
        BY <1>3, <2>1 DEF ShutdownThreadPool, InHand, Executing
  <2>3. ~shutdown /\ shutdown' /\ UNCHANGED <<taskQueue, finished, rejected>>
        BY <1>3 DEF ShutdownThreadPool, OpenInv
  <2>4. Pool!Close
        BY <2>2, <2>3 DEF Pool!Close
  <2> QED BY <2>4 DEF Pool!Next
<1>4. ASSUME NEW w \in Workers, WorkerStep(w) \/ SpuriousWakeup(w)
      PROVE  Pool!Next \/ UNCHANGED Pool!vars
  <2>1. CASE WorkerTake(w)
    <3>1. /\ InHand' = InHand \cup {Head(taskQueue)}
          /\ taskQueue # <<>> /\ taskQueue' = Tail(taskQueue)
          /\ UNCHANGED <<finished, rejected, shutdown>>
          BY <2>1, TakePlace DEF WorkerTake, Rest
    <3>2. Pool!Start
          BY <3>1 DEF Pool!Start
    <3> QED BY <3>2 DEF Pool!Next
  <2>2. CASE ExecuteTask(w)
    <3>1. /\ task[w] \in InHand /\ InHand' = InHand \ {task[w]}
          /\ finished' = finished \cup {task[w]}
          /\ UNCHANGED <<taskQueue, rejected, shutdown>>
          BY <2>2, ExecutePlace DEF ExecuteTask
    <3>2. task[w] \in Tasks
          BY <2>2 DEF ExecuteTask, TypeInv, HandInv, TypeOK
    <3>3. Pool!Finish(task[w])
          BY <3>1 DEF Pool!Finish
    <3> QED BY <3>2, <3>3 DEF Pool!Next
  <2>3. CASE WorkerLock(w) \/ WorkerWait(w) \/ WorkerExit(w) \/ SpuriousWakeup(w)
    <3>1. Executing' = Executing
          BY <2>3 DEF WorkerLock, WorkerWait, WorkerExit, SpuriousWakeup, Executing,
                      TypeInv, TypeOK
    <3> QED BY <2>3, <3>1, PoolFrame DEF WorkerLock, WorkerWait, WorkerExit, SpuriousWakeup
  <2> QED BY <1>4, <2>1, <2>2, <2>3 DEF WorkerStep
<1>5. CASE Idle \/ UNCHANGED vars
  <2>1. Executing' = Executing
        BY <1>5 DEF Idle, vars, Executing
  <2> QED BY <1>5, <2>1, PoolFrame DEF Idle, vars
<1> QED BY <1>1, <1>2, <1>3, <1>4, <1>5 DEF Next, MainStep

\* The safety part of the refinement: tasks are accepted unless the queue is full,
\* started in the order of their submission, each once, and then finished.
THEOREM ImplementsTaskPool == Spec => Pool!Init /\ [][Pool!Next]_(Pool!vars)
<1>1. Init => Pool!Init
  <2> SUFFICES ASSUME Init PROVE Pool!Init
      OBVIOUS
  <2>1. InHand = {}
        BY DEF Init, InHand
  <2> QED BY <2>1 DEF Init, Pool!Init
<1>2. Init => OpenInv
      BY DEF Init, OpenInv
<1> QED BY <1>1, <1>2, OpenStep, PoolStep, TypeInvariant, NoTaskLostOrRepeated, PTL DEF Spec
===============================================================================
