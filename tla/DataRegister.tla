----------------------------- MODULE DataRegister -----------------------------
(* seance6/producer_consumer1.c and producer_consumer2.c: a transmitter writes *)
(* words to one shared register and a receiver reads them.  The second program *)
(* adds the flags TXE and RXNE, a mutex and two condition variables.           *)
(* handshake says which of the two programs is running.                        *)
EXTENDS Integers, Sequences

CONSTANT Modulus     \* bound: words are counted modulo this

\* What is assumed of the constants; the modules that instantiate this one say so.
WordsAssumption == Modulus \in Nat /\ Modulus > 2

VARIABLES
    handshake,    \* the program is producer_consumer2.c
    running,      \* g_running
    mutex,        \* who holds lock
    data_reg, TXE, RXNE,
    ppc, item,    \* the producer: control point and next word
    cpc,          \* the consumer: control point
    received,     \* the last word the consumer has read
    hpc,          \* the handler of SIGINT, running on the main thread
    joined        \* main is past its two joins

vars == <<handshake, running, mutex, data_reg, TXE, RXNE, ppc, item, cpc, received, hpc, joined>>
register == <<data_reg, TXE, RXNE>>

Words == 0 .. Modulus - 1

Init ==
    /\ handshake \in BOOLEAN
    /\ running = TRUE
    /\ mutex = "nobody"
    /\ data_reg = 0 /\ TXE = 1 /\ RXNE = 0
    /\ ppc = "loop" /\ item = 0
    /\ cpc = "loop" /\ received = Modulus - 1
    /\ hpc = "idle" /\ joined = FALSE

NextWord == (item + 1) % Modulus

Lock(t) == mutex = "nobody" /\ mutex' = t
Unlock == mutex' = "nobody"

-----------------------------------------------------------------------------
(* The producer.                                                             *)

ProducerUnchanged == UNCHANGED <<handshake, running, cpc, received, hpc, joined>>

ProducerLoop ==
    /\ ppc = "loop"
    /\ ppc' = IF ~running THEN "done" ELSE IF handshake THEN "lock" ELSE "bare"
    /\ UNCHANGED <<mutex, register, item>>
    /\ ProducerUnchanged

ProducerLock ==
    /\ ppc \in {"lock", "woken"}
    /\ Lock("producer")
    /\ ppc' = "test"
    /\ UNCHANGED <<register, item>>
    /\ ProducerUnchanged

\* Mutant: the producer does not look at TXE.
WriteAnyway == TRUE

MayWrite == TXE = 1

ProducerTest ==
    /\ ppc = "test"
    /\ ppc' = IF ~MayWrite /\ running THEN "fall asleep" ELSE "check"
    /\ UNCHANGED <<mutex, register, item>>
    /\ ProducerUnchanged

ProducerWait ==
    /\ ppc = "fall asleep"
    /\ Unlock
    /\ ppc' = "waiting"
    /\ UNCHANGED <<register, item>>
    /\ ProducerUnchanged

ProducerSpurious ==
    /\ ppc = "waiting"
    /\ ppc' = "woken"
    /\ UNCHANGED <<mutex, register, item>>
    /\ ProducerUnchanged

ProducerExit ==
    /\ ppc = "check"
    /\ ~running
    /\ Unlock
    /\ ppc' = "done"
    /\ UNCHANGED <<register, item>>
    /\ ProducerUnchanged

SignalRxne == cpc' = IF cpc = "waiting" THEN "woken" ELSE cpc

\* Nobody looks at the flags without the mutex, so the three writes are one step.
ProducerWrite ==
    /\ ppc = "check"
    /\ running
    /\ data_reg' = item /\ TXE' = 0 /\ RXNE' = 1
    /\ SignalRxne
    /\ Unlock
    /\ item' = NextWord
    /\ ppc' = "loop"
    /\ UNCHANGED <<handshake, running, received, hpc, joined>>

\* producer_consumer1: the second test of g_running and the write.
BareWrite ==
    /\ ppc = "bare"
    /\ \/ ~running /\ ppc' = "done" /\ UNCHANGED <<data_reg, item>>
       \/ running /\ data_reg' = item /\ item' = NextWord /\ ppc' = "loop"
    /\ UNCHANGED <<mutex, TXE, RXNE>>
    /\ ProducerUnchanged

ProducerStep ==
    \/ ProducerLoop \/ ProducerLock \/ ProducerTest \/ ProducerWait \/ ProducerSpurious
    \/ ProducerExit \/ ProducerWrite \/ BareWrite

-----------------------------------------------------------------------------
(* The consumer.                                                             *)

ConsumerUnchanged == UNCHANGED <<handshake, running, ppc, item, hpc, joined>>

ConsumerLoop ==
    /\ cpc = "loop"
    /\ cpc' = IF ~running THEN "done" ELSE IF handshake THEN "lock" ELSE "bare"
    /\ UNCHANGED <<mutex, register, received>>
    /\ ConsumerUnchanged

ConsumerLock ==
    /\ cpc \in {"lock", "woken"}
    /\ Lock("consumer")
    /\ cpc' = "test"
    /\ UNCHANGED <<register, received>>
    /\ ConsumerUnchanged

ConsumerTest ==
    /\ cpc = "test"
    /\ cpc' = IF RXNE = 0 /\ running THEN "fall asleep" ELSE "check"
    /\ UNCHANGED <<mutex, register, received>>
    /\ ConsumerUnchanged

ConsumerWait ==
    /\ cpc = "fall asleep"
    /\ Unlock
    /\ cpc' = "waiting"
    /\ UNCHANGED <<register, received>>
    /\ ConsumerUnchanged

ConsumerSpurious ==
    /\ cpc = "waiting"
    /\ cpc' = "woken"
    /\ UNCHANGED <<mutex, register, received>>
    /\ ConsumerUnchanged

ConsumerExit ==
    /\ cpc = "check"
    /\ ~running
    /\ Unlock
    /\ cpc' = "done"
    /\ UNCHANGED <<register, received>>
    /\ ConsumerUnchanged

SignalTxe == ppc' = IF ppc = "waiting" THEN "woken" ELSE ppc

MarkRead == RXNE' = 0 /\ TXE' = 1

ConsumerRead ==
    /\ cpc = "check"
    /\ running
    /\ received' = data_reg
    /\ MarkRead
    /\ SignalTxe
    /\ Unlock
    /\ cpc' = "loop"
    /\ UNCHANGED <<handshake, running, data_reg, item, hpc, joined>>

\* producer_consumer1: the second test of g_running and the read.
BareRead ==
    /\ cpc = "bare"
    /\ \/ ~running /\ cpc' = "done" /\ UNCHANGED received
       \/ running /\ received' = data_reg /\ cpc' = "loop"
    /\ UNCHANGED <<mutex, register>>
    /\ ConsumerUnchanged

ConsumerStep ==
    \/ ConsumerLoop \/ ConsumerLock \/ ConsumerTest \/ ConsumerWait \/ ConsumerSpurious
    \/ ConsumerExit \/ ConsumerRead \/ BareRead

-----------------------------------------------------------------------------
(* The handler and main.                                                     *)

OthersUnchanged == UNCHANGED <<handshake, mutex, register, item, received>>

Sigint ==
    /\ hpc = "idle" /\ ~joined
    /\ running' = FALSE
    /\ hpc' = IF handshake THEN "wake producer" ELSE "idle"
    /\ UNCHANGED <<ppc, cpc, joined>>
    /\ OthersUnchanged

WakeProducer ==
    /\ hpc = "wake producer"
    /\ SignalTxe
    /\ hpc' = "wake consumer"
    /\ UNCHANGED <<running, cpc, joined>>
    /\ OthersUnchanged

WakeConsumer ==
    /\ hpc = "wake consumer"
    /\ SignalRxne
    /\ hpc' = "idle"
    /\ UNCHANGED <<running, ppc, joined>>
    /\ OthersUnchanged

Join ==
    /\ hpc = "idle" /\ ~joined
    /\ ppc = "done" /\ cpc = "done"
    /\ joined' = TRUE
    /\ UNCHANGED <<running, ppc, cpc, hpc>>
    /\ OthersUnchanged

Terminated == joined /\ UNCHANGED vars

Next ==
    \/ ProducerStep \/ ConsumerStep
    \/ Sigint \/ WakeProducer \/ WakeConsumer \/ Join \/ Terminated

Spec == Init /\ [][Next]_vars

-----------------------------------------------------------------------------
(* Properties. *)

\* Types of the register, its flags and the threads.
TypeOK ==
    /\ handshake \in BOOLEAN
    /\ running \in BOOLEAN
    /\ mutex \in {"nobody", "producer", "consumer"}
    /\ data_reg \in Words
    /\ TXE \in {0, 1}
    /\ RXNE = 1 - TXE
    /\ ppc \in {"loop", "bare", "lock", "test", "fall asleep", "waiting", "woken", "check", "done"}
    /\ cpc \in {"loop", "bare", "lock", "test", "fall asleep", "waiting", "woken", "check", "done"}
    /\ item \in Words
    /\ received \in Words
    /\ hpc \in {"idle", "wake producer", "wake consumer"}
    /\ joined \in BOOLEAN

\* The register with its flags is a channel with one place.
Stream == INSTANCE Channel WITH
    Capacity <- 1,
    contents <- IF RXNE = 1 THEN <<data_reg>> ELSE <<>>,
    sent <- item,
    taken <- received

\* In producer_consumer2 every word is read once and in the order of writing: each
\* step is a step of the channel.  (producer_consumer1 repeats and skips words.)
PassesWordsOn == (handshake => Stream!Init) /\ [][handshake => Stream!Next]_(Stream!vars)
==============================================================================
