----------------------------- MODULE BoundedBuffer -----------------------------
(***************************************************************************)
(* The three threads of seance6/lab_multithreading_debug.c: a producer and *)
(* a consumer on a circular buffer, a periodic thread, and the handler of  *)
(* SIGINT, which clears g_running and broadcasts both condition variables  *)
(* without the mutex.  The kernel delivers SIGINT to the main thread,      *)
(* which sleeps in pthread_join, so the handler runs beside the others.    *)
(*                                                                         *)
(* A thread that waits tests its condition in one step and falls asleep in *)
(* the next; the handler can run in between.                               *)
(***************************************************************************)
EXTENDS Integers, FiniteSets, Sequences

CONSTANTS
    Capacity,   \* QUEUE_CAPACITY
    Modulus     \* bound: items are counted modulo this

ASSUME CapacityAssumption == Capacity \in Nat \ {0}
ASSUME ModulusAssumption == Modulus \in Nat /\ Modulus > Capacity + 1

Free == "free"
Producer == "producer"
Consumer == "consumer"
Indices == 0 .. Capacity - 1
Items == 0 .. Modulus - 1

VARIABLES
    running,                    \* g_running
    mutex,                      \* who holds queue_mutex
    buffer, head, tail, count,  \* queue_buffer and its three indices
    ppc, item,                  \* producer: control point, next item
    cpc, consumed,              \* consumer: control point, last item taken
    tpc,                        \* periodic thread
    hpc,                        \* handler, running on the main thread
    joined                      \* main is past its three joins

queueVars == <<buffer, head, tail, count>>
vars == <<running, mutex, queueVars, ppc, item, cpc, consumed, tpc, hpc, joined>>

Init ==
    /\ running = TRUE
    /\ mutex = Free
    /\ buffer = [i \in Indices |-> 0]
    /\ head = 0
    /\ tail = 0
    /\ count = 0
    /\ ppc = "loop"
    /\ item = 0
    /\ cpc = "loop"
    /\ consumed = Modulus - 1
    /\ tpc = "loop"
    /\ hpc = "idle"
    /\ joined = FALSE

-----------------------------------------------------------------------------
(* The producer.  not_full has one waiter at most, the producer. *)

ProducerUnchanged == UNCHANGED <<running, consumed, tpc, hpc, joined>>

ProducerLoop ==
    /\ ppc = "loop"
    /\ ppc' = IF running THEN "lock" ELSE "done"
    /\ UNCHANGED <<mutex, queueVars, item, cpc>>
    /\ ProducerUnchanged

ProducerLock ==
    /\ ppc \in {"lock", "woken"}
    /\ mutex = Free
    /\ mutex' = Producer
    /\ ppc' = "test"
    /\ UNCHANGED <<queueVars, item, cpc>>
    /\ ProducerUnchanged

ProducerTest ==
    /\ ppc = "test"
    /\ ppc' = IF count = Capacity /\ running THEN "fall asleep" ELSE "check"
    /\ UNCHANGED <<mutex, queueVars, item, cpc>>
    /\ ProducerUnchanged

\* pthread_cond_wait releases the mutex and sleeps in one step.
ProducerWait ==
    /\ ppc = "fall asleep"
    /\ ppc' = "waiting"
    /\ mutex' = Free
    /\ UNCHANGED <<queueVars, item, cpc>>
    /\ ProducerUnchanged

ProducerSpurious ==
    /\ ppc = "waiting"
    /\ ppc' = "woken"
    /\ UNCHANGED <<mutex, queueVars, item, cpc>>
    /\ ProducerUnchanged

ProducerExit ==
    /\ ppc = "check"
    /\ ~running
    /\ ppc' = "done"
    /\ mutex' = Free
    /\ UNCHANGED <<queueVars, item, cpc>>
    /\ ProducerUnchanged

\* Mutant: the consumer is woken only by an item that makes the buffer full.
SignalNotEmptyLate == cpc' = IF cpc = "waiting" /\ count' = Capacity THEN "woken" ELSE cpc

SignalNotEmpty == cpc' = IF cpc = "waiting" THEN "woken" ELSE cpc

\* Mutant: the tail may reach the size of the array.
NextTailUnwrapped(i) == IF i < Capacity THEN i + 1 ELSE 0

NextTail(i) == (i + 1) % Capacity

Produce ==
    /\ ppc = "check"
    /\ running
    /\ buffer' = [buffer EXCEPT ![tail] = item]
    /\ tail' = NextTail(tail)
    /\ count' = count + 1
    /\ item' = (item + 1) % Modulus
    /\ SignalNotEmpty
    /\ mutex' = Free
    /\ ppc' = "loop"
    /\ UNCHANGED head
    /\ ProducerUnchanged

-----------------------------------------------------------------------------
(* The consumer.  not_empty has one waiter at most, the consumer. *)

ConsumerUnchanged == UNCHANGED <<running, item, tpc, hpc, joined>>

ConsumerLoop ==
    /\ cpc = "loop"
    /\ cpc' = IF running THEN "lock" ELSE "done"
    /\ UNCHANGED <<mutex, queueVars, ppc, consumed>>
    /\ ConsumerUnchanged

\* Mutant: the condition is not tested again after a wake-up.
ConsumerLockNoRetest ==
    /\ cpc \in {"lock", "woken"}
    /\ mutex = Free
    /\ mutex' = Consumer
    /\ cpc' = IF cpc = "woken" THEN "check" ELSE "test"
    /\ UNCHANGED <<queueVars, ppc, consumed>>
    /\ ConsumerUnchanged

ConsumerLock ==
    /\ cpc \in {"lock", "woken"}
    /\ mutex = Free
    /\ mutex' = Consumer
    /\ cpc' = "test"
    /\ UNCHANGED <<queueVars, ppc, consumed>>
    /\ ConsumerUnchanged

ConsumerTest ==
    /\ cpc = "test"
    /\ cpc' = IF count = 0 /\ running THEN "fall asleep" ELSE "check"
    /\ UNCHANGED <<mutex, queueVars, ppc, consumed>>
    /\ ConsumerUnchanged

ConsumerWait ==
    /\ cpc = "fall asleep"
    /\ cpc' = "waiting"
    /\ mutex' = Free
    /\ UNCHANGED <<queueVars, ppc, consumed>>
    /\ ConsumerUnchanged

ConsumerSpurious ==
    /\ cpc = "waiting"
    /\ cpc' = "woken"
    /\ UNCHANGED <<mutex, queueVars, ppc, consumed>>
    /\ ConsumerUnchanged

ConsumerExit ==
    /\ cpc = "check"
    /\ ~running
    /\ cpc' = "done"
    /\ mutex' = Free
    /\ UNCHANGED <<queueVars, ppc, consumed>>
    /\ ConsumerUnchanged

\* Mutant: the producer is not woken.
SignalNobody == UNCHANGED ppc

SignalNotFull == ppc' = IF ppc = "waiting" THEN "woken" ELSE ppc

Consume ==
    /\ cpc = "check"
    /\ running
    /\ consumed' = buffer[head]
    /\ head' = (head + 1) % Capacity
    /\ count' = count - 1
    /\ SignalNotFull
    /\ mutex' = Free
    /\ cpc' = "loop"
    /\ UNCHANGED <<buffer, tail>>
    /\ ConsumerUnchanged

-----------------------------------------------------------------------------
(* The periodic thread, the handler and main. *)

OthersUnchanged == UNCHANGED <<mutex, queueVars, item, consumed>>

\* A keepalive line, then two seconds of sleep; both end in another test.
Periodic ==
    /\ tpc = "loop"
    /\ ~running
    /\ tpc' = "done"
    /\ UNCHANGED <<running, ppc, cpc, hpc, joined>>
    /\ OthersUnchanged

\* Ctrl+C: the first step of the handler.
Sigint ==
    /\ hpc = "idle"
    /\ ~joined
    /\ running' = FALSE
    /\ hpc' = "wake producer"
    /\ UNCHANGED <<ppc, cpc, tpc, joined>>
    /\ OthersUnchanged

WakeProducer ==
    /\ hpc = "wake producer"
    /\ SignalNotFull
    /\ hpc' = "wake consumer"
    /\ UNCHANGED <<running, cpc, tpc, joined>>
    /\ OthersUnchanged

\* Mutant: the second broadcast is forgotten.
BroadcastForgotten == UNCHANGED cpc

BroadcastNotEmpty == cpc' = IF cpc = "waiting" THEN "woken" ELSE cpc

WakeConsumer ==
    /\ hpc = "wake consumer"
    /\ BroadcastNotEmpty
    /\ hpc' = "idle"
    /\ UNCHANGED <<running, ppc, tpc, joined>>
    /\ OthersUnchanged

Join ==
    /\ hpc = "idle"
    /\ <<ppc, cpc, tpc>> = <<"done", "done", "done">>
    /\ ~joined
    /\ joined' = TRUE
    /\ UNCHANGED <<running, ppc, cpc, tpc, hpc>>
    /\ OthersUnchanged

ProducerStep ==
    ProducerLoop \/ ProducerLock \/ ProducerTest \/ ProducerWait \/ ProducerExit \/ Produce
ConsumerStep ==
    ConsumerLoop \/ ConsumerLock \/ ConsumerTest \/ ConsumerWait \/ ConsumerExit \/ Consume
HandlerStep == WakeProducer \/ WakeConsumer

Terminated == joined /\ UNCHANGED vars

Next ==
    \/ ProducerStep \/ ProducerSpurious \/ ConsumerStep \/ ConsumerSpurious
    \/ Periodic \/ Sigint \/ HandlerStep \/ Join
    \/ Terminated

\* Every thread keeps running, a handler that has started finishes, and a thread
\* that asks for the mutex again and again gets it, as does main for its join
\* between two key presses.  Spurious wake-ups may stop.
Fairness ==
    /\ WF_vars(ProducerStep) /\ SF_vars(ProducerLock)
    /\ WF_vars(ConsumerStep) /\ SF_vars(ConsumerLock)
    /\ WF_vars(Periodic) /\ WF_vars(HandlerStep) /\ SF_vars(Join)

Spec == Init /\ [][Next]_vars /\ Fairness

\* The user presses Ctrl+C again as long as the program has not ended.
Pressing == WF_vars(~running /\ Sigint)
SpecPressing == Spec /\ Pressing

-----------------------------------------------------------------------------
(* Properties. *)

\* Types of the buffer and of the control points; the buffer never overflows.
TypeOK ==
    /\ running \in BOOLEAN
    /\ mutex \in {Free, Producer, Consumer}
    /\ buffer \in [Indices -> Items]
    /\ head \in Indices
    /\ tail \in Indices
    /\ count \in 0 .. Capacity
    /\ ppc \in {"loop", "lock", "test", "fall asleep", "waiting", "woken", "check", "done"}
    /\ cpc \in {"loop", "lock", "test", "fall asleep", "waiting", "woken", "check", "done"}
    /\ item \in Items
    /\ consumed \in Items
    /\ tpc \in {"loop", "done"}
    /\ hpc \in {"idle", "wake producer", "wake consumer"}
    /\ joined \in BOOLEAN

\* The circular buffer with its indices is a channel with Capacity places: each
\* step of any thread or of the handler is a step of the channel or leaves it alone.
Stream == INSTANCE Channel WITH
    contents <- [k \in 1 .. count |-> buffer[(head + k - 1) % Capacity]],
    sent <- item,
    taken <- consumed
PassesItemsOn == Stream!Spec

\* A thread sleeps only while its condition holds: the producer on a full buffer,
\* the consumer on an empty one, so they never both sleep.
SleepersHaveAReason ==
    /\ ppc = "waiting" => count = Capacity
    /\ cpc = "waiting" => count = 0

\* Items keep flowing until the program is told to stop.
ItemsFlow == \A i \in Items : []<>(consumed = i \/ ~running)

\* The program stops after Ctrl+C.
StopsAllThreads == ~running ~> joined
==============================================================================
