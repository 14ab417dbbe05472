-------------------------- MODULE BoundedBufferProofs --------------------------
(***************************************************************************)
(* What BoundedBuffer keeps for every size of the buffer: type correctness *)
(* with the bounds of the indices, mutual exclusion, the reason for which  *)
(* a thread sleeps, and that the buffer is a channel.  The handler takes   *)
(* no mutex; that it cannot break these is part of what is proved.         *)
(***************************************************************************)
EXTENDS BoundedBuffer, SequenceTheorems, TLAPS

ProducerInside == ppc \in {"test", "fall asleep", "check"}
ConsumerInside == cpc \in {"test", "fall asleep", "check"}

\* A thread is between its lock and its unlock exactly when it holds the mutex.
MutexInv ==
    /\ mutex = Producer <=> ProducerInside
    /\ mutex = Consumer <=> ConsumerInside

\* What a thread has read of count is still so while it holds the mutex; the flag
\* only ever falls, so a thread that finds it set has seen it set in its test.
TestInv ==
    /\ ppc = "check" /\ running => count < Capacity
    /\ ppc = "fall asleep" => count = Capacity
    /\ cpc = "check" /\ running => count > 0
    /\ cpc = "fall asleep" => count = 0

BufferInv == TypeOK /\ MutexInv /\ TestInv /\ SleepersHaveAReason

USE DEF Free, Producer, Consumer

\* The remainder of a division is an index.
LEMMA Remainder ==
    ASSUME NEW n \in Nat \ {0}, NEW i \in Nat
    PROVE  i % n \in 0 .. n - 1
  OBVIOUS

\* The type invariant holds at the start.
LEMMA TypeInit == Init => TypeOK
  <1>1. Capacity \in Nat \ {0} /\ Modulus \in Nat /\ Modulus > Capacity + 1
    BY CapacityAssumption, ModulusAssumption
  <1>2. ASSUME Init PROVE head \in Indices /\ tail \in Indices /\ count \in 0 .. Capacity
    BY <1>1, <1>2 DEF Init, Indices
  <1>3. ASSUME Init PROVE item \in Items /\ consumed \in Items
    BY <1>1, <1>3 DEF Init, Items
  <1>4. ASSUME Init PROVE buffer \in [Indices -> Items]
    <2>1. 0 \in Items
      BY <1>1 DEF Items
    <2> QED  BY <1>4, <2>1 DEF Init
  <1> QED  BY <1>2, <1>3, <1>4 DEF Init, TypeOK

\* The whole invariant holds at the start.
LEMMA InvInit == Init => BufferInv
  <1>1. ASSUME Init PROVE MutexInv /\ TestInv /\ SleepersHaveAReason
    BY <1>1 DEF Init, MutexInv, TestInv, SleepersHaveAReason, ProducerInside, ConsumerInside
  <1> QED  BY <1>1, TypeInit DEF BufferInv

\* A step of the producer that touches nothing but its control point and the mutex
\* keeps the types.
LEMMA ProducerTypes ==
    ASSUME TypeOK, UNCHANGED <<queueVars, item, cpc>>, ProducerUnchanged,
           ppc' \in {"loop", "lock", "test", "fall asleep", "waiting", "woken", "check", "done"},
           mutex' \in {Free, Producer, Consumer}
    PROVE  TypeOK'
  BY DEF TypeOK, queueVars, ProducerUnchanged, Indices, Items

\* The same for the consumer.
LEMMA ConsumerTypes ==
    ASSUME TypeOK, UNCHANGED <<queueVars, ppc, consumed>>, ConsumerUnchanged,
           cpc' \in {"loop", "lock", "test", "fall asleep", "waiting", "woken", "check", "done"},
           mutex' \in {Free, Producer, Consumer}
    PROVE  TypeOK'
  BY DEF TypeOK, queueVars, ConsumerUnchanged, Indices, Items

\* Putting an item into the buffer keeps the invariant.
LEMMA ProduceStep == ASSUME BufferInv, Produce PROVE BufferInv'
  <1>1. TypeOK /\ MutexInv /\ TestInv /\ SleepersHaveAReason
    BY DEF BufferInv
  <1>2. Capacity \in Nat \ {0} /\ Modulus \in Nat /\ Modulus > Capacity + 1
    BY CapacityAssumption, ModulusAssumption
  <1>3. ppc = "check" /\ running /\ tail \in Nat /\ item \in Nat /\ count \in 0 .. Capacity
    <2>1. tail \in Indices /\ item \in Items /\ count \in 0 .. Capacity
      BY <1>1 DEF TypeOK
    <2>2. tail \in Nat /\ item \in Nat
      BY <2>1, <1>2 DEF Indices, Items
    <2> QED  BY <2>1, <2>2 DEF Produce
  <1>4. tail' \in Indices
    <2>1. tail' = (tail + 1) % Capacity
      BY DEF Produce, NextTail
    <2>2. tail + 1 \in Nat
      BY <1>3
    <2> QED  BY <2>1, <2>2, <1>2, Remainder DEF Indices
  <1>5. item' \in Items
    <2>1. item' = (item + 1) % Modulus
      BY DEF Produce
    <2>2. item + 1 \in Nat /\ Modulus \in Nat \ {0}
      BY <1>2, <1>3
    <2> QED  BY <2>1, <2>2, Remainder DEF Items
  <1>6. count' \in 0 .. Capacity /\ count' > 0
    <2>1. count < Capacity
      BY <1>1, <1>3 DEF TestInv
    <2>2. count' = count + 1
      BY DEF Produce
    <2> QED  BY <2>1, <2>2, <1>2, <1>3
  <1>7. buffer' \in [Indices -> Items]
    <2>1. buffer \in [Indices -> Items] /\ item \in Items
      BY <1>1 DEF TypeOK
    <2> QED  BY <2>1 DEF Produce
  <1>8. TypeOK'
    BY <1>1, <1>4, <1>5, <1>6, <1>7 DEF TypeOK, Produce, ProducerUnchanged, SignalNotEmpty
  <1>9. mutex = Producer /\ ~ConsumerInside
    BY <1>1, <1>3 DEF MutexInv, ProducerInside, ConsumerInside
  <1>10. MutexInv' /\ TestInv' /\ SleepersHaveAReason'
    BY <1>1, <1>9 DEF MutexInv, TestInv, SleepersHaveAReason, ProducerInside, ConsumerInside,
                      Produce, SignalNotEmpty, ProducerUnchanged
  <1> QED  BY <1>8, <1>10 DEF BufferInv

\* Taking an item out of the buffer keeps the invariant.
LEMMA ConsumeStep == ASSUME BufferInv, Consume PROVE BufferInv'
  <1>1. TypeOK /\ MutexInv /\ TestInv /\ SleepersHaveAReason
    BY DEF BufferInv
  <1>2. Capacity \in Nat \ {0}
    BY CapacityAssumption
  <1>3. cpc = "check" /\ running /\ head \in Nat /\ count \in 0 .. Capacity
    <2>1. head \in Indices /\ count \in 0 .. Capacity
      BY <1>1 DEF TypeOK
    <2>2. head \in Nat
      BY <2>1, <1>2 DEF Indices
    <2> QED  BY <2>1, <2>2 DEF Consume
  <1>4. head' \in Indices
    <2>1. head' = (head + 1) % Capacity
      BY DEF Consume
    <2>2. head + 1 \in Nat
      BY <1>3
    <2> QED  BY <2>1, <2>2, <1>2, Remainder DEF Indices
  <1>5. consumed' \in Items
    <2>1. buffer \in [Indices -> Items] /\ head \in Indices
      BY <1>1 DEF TypeOK
    <2> QED  BY <2>1 DEF Consume
  <1>6. count' \in 0 .. Capacity /\ count' < Capacity
    <2>1. count > 0
      BY <1>1, <1>3 DEF TestInv
    <2>2. count' = count - 1
      BY DEF Consume
    <2> QED  BY <2>1, <2>2, <1>2, <1>3
  <1>7. TypeOK'
    BY <1>1, <1>4, <1>5, <1>6 DEF TypeOK, Consume, ConsumerUnchanged, SignalNotFull
  <1>8. mutex = Consumer /\ ~ProducerInside
    BY <1>1, <1>3 DEF MutexInv, ProducerInside, ConsumerInside
  <1>9. MutexInv' /\ TestInv' /\ SleepersHaveAReason'
    BY <1>1, <1>8 DEF MutexInv, TestInv, SleepersHaveAReason, ProducerInside, ConsumerInside,
                      Consume, SignalNotFull, ConsumerUnchanged
  <1> QED  BY <1>7, <1>9 DEF BufferInv

\* Every other step of the producer keeps the invariant.
LEMMA ProducerStepInv ==
    ASSUME BufferInv,
           \/ ProducerLoop \/ ProducerLock \/ ProducerTest \/ ProducerWait
           \/ ProducerExit \/ ProducerSpurious
    PROVE  BufferInv'
  <1>1. TypeOK /\ MutexInv /\ TestInv /\ SleepersHaveAReason
    BY DEF BufferInv
  <1>2. Capacity \in Nat \ {0} /\ count \in 0 .. Capacity
    BY <1>1, CapacityAssumption DEF TypeOK
  <1>3. UNCHANGED <<queueVars, item, cpc>> /\ ProducerUnchanged
    BY DEF ProducerLoop, ProducerLock, ProducerTest, ProducerWait, ProducerExit, ProducerSpurious
  <1>4. /\ ppc' \in {"loop", "lock", "test", "fall asleep", "waiting", "woken", "check", "done"}
        /\ mutex' \in {Free, Producer, Consumer}
    BY <1>1 DEF TypeOK, ProducerLoop, ProducerLock, ProducerTest, ProducerWait, ProducerExit,
                ProducerSpurious
  <1>5. TypeOK'
    BY <1>1, <1>3, <1>4, ProducerTypes
  <1>6. MutexInv'
    BY <1>1, <1>3 DEF MutexInv, ProducerInside, ConsumerInside, ProducerLoop, ProducerLock,
                      ProducerTest, ProducerWait, ProducerExit, ProducerSpurious
  <1>7. UNCHANGED <<count, running, cpc>>
    BY <1>3 DEF queueVars, ProducerUnchanged
  <1>8. /\ ppc' = "check" /\ running => count < Capacity
        /\ ppc' = "fall asleep" => count = Capacity
        /\ ppc' = "waiting" => count = Capacity
    <2>1. CASE ProducerTest
      <3>1. count = Capacity \/ count < Capacity
        BY <1>2
      <3> QED  BY <2>1, <3>1 DEF ProducerTest
    <2>2. CASE ProducerWait
      BY <2>2, <1>1 DEF ProducerWait, TestInv
    <2>3. CASE ProducerLoop \/ ProducerLock \/ ProducerExit \/ ProducerSpurious
      BY <2>3 DEF ProducerLoop, ProducerLock, ProducerExit, ProducerSpurious
    <2> QED  BY <2>1, <2>2, <2>3
  <1>9. TestInv' /\ SleepersHaveAReason'
    BY <1>1, <1>7, <1>8 DEF TestInv, SleepersHaveAReason
  <1> QED  BY <1>5, <1>6, <1>9 DEF BufferInv

\* Every other step of the consumer keeps the invariant.
LEMMA ConsumerStepInv ==
    ASSUME BufferInv,
           \/ ConsumerLoop \/ ConsumerLock \/ ConsumerTest \/ ConsumerWait
           \/ ConsumerExit \/ ConsumerSpurious
    PROVE  BufferInv'
  <1>1. TypeOK /\ MutexInv /\ TestInv /\ SleepersHaveAReason
    BY DEF BufferInv
  <1>2. Capacity \in Nat \ {0} /\ count \in 0 .. Capacity
    BY <1>1, CapacityAssumption DEF TypeOK
  <1>3. UNCHANGED <<queueVars, ppc, consumed>> /\ ConsumerUnchanged
    BY DEF ConsumerLoop, ConsumerLock, ConsumerTest, ConsumerWait, ConsumerExit, ConsumerSpurious
  <1>4. /\ cpc' \in {"loop", "lock", "test", "fall asleep", "waiting", "woken", "check", "done"}
        /\ mutex' \in {Free, Producer, Consumer}
    BY <1>1 DEF TypeOK, ConsumerLoop, ConsumerLock, ConsumerTest, ConsumerWait, ConsumerExit,
                ConsumerSpurious
  <1>5. TypeOK'
    BY <1>1, <1>3, <1>4, ConsumerTypes
  <1>6. MutexInv'
    BY <1>1, <1>3 DEF MutexInv, ProducerInside, ConsumerInside, ConsumerLoop, ConsumerLock,
                      ConsumerTest, ConsumerWait, ConsumerExit, ConsumerSpurious
  <1>7. UNCHANGED <<count, running, ppc>>
    BY <1>3 DEF queueVars, ConsumerUnchanged
  <1>8. /\ cpc' = "check" /\ running => count > 0
        /\ cpc' = "fall asleep" => count = 0
        /\ cpc' = "waiting" => count = 0
    <2>1. CASE ConsumerTest
      <3>1. count = 0 \/ count > 0
        BY <1>2
      <3> QED  BY <2>1, <3>1 DEF ConsumerTest
    <2>2. CASE ConsumerWait
      BY <2>2, <1>1 DEF ConsumerWait, TestInv
    <2>3. CASE ConsumerLoop \/ ConsumerLock \/ ConsumerExit \/ ConsumerSpurious
      BY <2>3 DEF ConsumerLoop, ConsumerLock, ConsumerExit, ConsumerSpurious
    <2> QED  BY <2>1, <2>2, <2>3
  <1>9. TestInv' /\ SleepersHaveAReason'
    BY <1>1, <1>7, <1>8 DEF TestInv, SleepersHaveAReason
  <1> QED  BY <1>5, <1>6, <1>9 DEF BufferInv

OtherStep == Periodic \/ Sigint \/ WakeProducer \/ WakeConsumer \/ Join

\* The handler, without the mutex, the periodic thread and main keep the invariant:
\* clearing the flag only weakens what a thread may rely on.
LEMMA OtherStepInv ==
    ASSUME BufferInv, OtherStep
    PROVE  BufferInv'
  <1>1. TypeOK /\ MutexInv /\ TestInv /\ SleepersHaveAReason
    BY DEF BufferInv
  <1>2. UNCHANGED <<mutex, buffer, head, tail, count, item, consumed>>
    BY DEF OtherStep, OthersUnchanged, queueVars, Periodic, Sigint, WakeProducer, WakeConsumer, Join
  <1>3. running' \in BOOLEAN /\ joined' \in BOOLEAN /\ (running' => running)
    <2>1. running \in BOOLEAN /\ joined \in BOOLEAN
      BY <1>1 DEF TypeOK
    <2>2. running' = running \/ running' = FALSE
      BY DEF OtherStep, Periodic, Sigint, WakeProducer, WakeConsumer, Join
    <2>3. joined' = joined \/ joined' = TRUE
      BY DEF OtherStep, Periodic, Sigint, WakeProducer, WakeConsumer, Join
    <2>4. running' \in BOOLEAN
      BY <2>1, <2>2
    <2>5. joined' \in BOOLEAN
      BY <2>1, <2>3
    <2>6. running' => running
      BY <2>2
    <2> QED  BY <2>4, <2>5, <2>6
  <1>4. /\ ppc' = ppc \/ (ppc = "waiting" /\ ppc' = "woken")
        /\ cpc' = cpc \/ (cpc = "waiting" /\ cpc' = "woken")
    BY DEF OtherStep, SignalNotFull, BroadcastNotEmpty, Periodic, Sigint, WakeProducer, WakeConsumer, Join
  <1>5. tpc' \in {"loop", "done"} /\ hpc' \in {"idle", "wake producer", "wake consumer"}
    BY <1>1 DEF TypeOK, OtherStep, Periodic, Sigint, WakeProducer, WakeConsumer, Join
  <1>6. TypeOK'
    <2>1. ppc' \in {"loop", "lock", "test", "fall asleep", "waiting", "woken", "check", "done"}
      BY <1>1, <1>4 DEF TypeOK
    <2>2. cpc' \in {"loop", "lock", "test", "fall asleep", "waiting", "woken", "check", "done"}
      BY <1>1, <1>4 DEF TypeOK
    <2> QED  BY <1>1, <1>2, <1>3, <1>5, <2>1, <2>2 DEF TypeOK
  <1>7. MutexInv' /\ TestInv' /\ SleepersHaveAReason'
    BY <1>1, <1>2, <1>3, <1>4 DEF MutexInv, TestInv, SleepersHaveAReason, ProducerInside, ConsumerInside
  <1> QED  BY <1>6, <1>7 DEF BufferInv

\* A step that changes nothing keeps the invariant.
LEMMA StutterInv == ASSUME BufferInv, UNCHANGED vars PROVE BufferInv'
  <1>1. UNCHANGED <<running, mutex, buffer, head, tail, count>>
    BY DEF vars, queueVars
  <1>2. UNCHANGED <<ppc, item, cpc, consumed, tpc, hpc, joined>>
    BY DEF vars
  <1>3. TypeOK'
    <2>1. TypeOK
      BY DEF BufferInv
    <2>2. /\ running' \in BOOLEAN
          /\ mutex' \in {Free, Producer, Consumer}
          /\ buffer' \in [Indices -> Items]
          /\ head' \in Indices
          /\ tail' \in Indices
          /\ count' \in 0 .. Capacity
      BY <1>1, <2>1 DEF TypeOK
    <2>3. /\ ppc' \in {"loop", "lock", "test", "fall asleep", "waiting", "woken", "check", "done"}
          /\ cpc' \in {"loop", "lock", "test", "fall asleep", "waiting", "woken", "check", "done"}
      BY <1>2, <2>1 DEF TypeOK
    <2>4. /\ item' \in Items
          /\ consumed' \in Items
          /\ tpc' \in {"loop", "done"}
          /\ hpc' \in {"idle", "wake producer", "wake consumer"}
          /\ joined' \in BOOLEAN
      BY <1>2, <2>1 DEF TypeOK
    <2> QED  BY <2>2, <2>3, <2>4 DEF TypeOK
  <1>4. MutexInv'
    <2>1. MutexInv
      BY DEF BufferInv
    <2> QED  BY <1>1, <1>2, <2>1 DEF MutexInv, ProducerInside, ConsumerInside
  <1>5. TestInv'
    <2>1. TestInv
      BY DEF BufferInv
    <2> QED  BY <1>1, <1>2, <2>1 DEF TestInv
  <1>6. SleepersHaveAReason'
    <2>1. SleepersHaveAReason
      BY DEF BufferInv
    <2> QED  BY <1>1, <1>2, <2>1 DEF SleepersHaveAReason
  <1> QED  BY <1>3, <1>4, <1>5, <1>6 DEF BufferInv

\* Whatever the interleaving of the three threads with the handler, the buffer and
\* its mutex keep the invariant.
THEOREM BufferInvariant == Spec => []BufferInv
  <1>1. ASSUME BufferInv, [Next]_vars PROVE BufferInv'
    <2>1. CASE Produce
      BY <1>1, <2>1, ProduceStep
    <2>2. CASE Consume
      BY <1>1, <2>2, ConsumeStep
    <2>3. CASE ProducerLoop \/ ProducerLock \/ ProducerTest \/ ProducerWait \/ ProducerExit
               \/ ProducerSpurious
      BY <1>1, <2>3, ProducerStepInv
    <2>4. CASE ConsumerLoop \/ ConsumerLock \/ ConsumerTest \/ ConsumerWait \/ ConsumerExit
               \/ ConsumerSpurious
      BY <1>1, <2>4, ConsumerStepInv
    <2>5. CASE OtherStep
      BY <1>1, <2>5, OtherStepInv
    <2>6. CASE UNCHANGED vars
      BY <1>1, <2>6, StutterInv
    <2> QED
      BY <1>1, <2>1, <2>2, <2>3, <2>4, <2>5, <2>6
         DEF Next, ProducerStep, ConsumerStep, HandlerStep, OtherStep, Terminated
  <1> QED  BY <1>1, InvInit, PTL DEF Spec

\* TypeOK: head, tail and count stay within the array, for every capacity.
THEOREM TypeCorrect == Spec => []TypeOK
  <1>1. BufferInv => TypeOK
    BY DEF BufferInv
  <1> QED  BY <1>1, BufferInvariant, PTL

\* SleepersHaveAReason: a producer asleep in pthread_cond_wait has a full buffer, a
\* consumer an empty one, so the two never wait for each other.
THEOREM NobodySleepsForNothing == Spec => []SleepersHaveAReason
  <1>1. BufferInv => SleepersHaveAReason
    BY DEF BufferInv
  <1> QED  BY <1>1, BufferInvariant, PTL

-----------------------------------------------------------------------------
(* The buffer is a channel. *)

\* Remainders of what a step of an index can come to.
LEMMA Wrapped ==
    ASSUME NEW n \in Nat \ {0}, NEW h \in 0 .. n - 1, NEW k \in 0 .. n
    PROVE  (h + k) % n = IF h + k < n THEN h + k ELSE h + k - n
  <1>1. ASSUME NEW i \in 0 .. n - 1 PROVE i % n = i
    OBVIOUS
  <1>2. ASSUME NEW i \in n .. 2 * n - 1 PROVE i % n = i - n
    OBVIOUS
  <1> QED  BY <1>1, <1>2

\* From the next place of the ring, what is k places on is k + 1 places on.
LEMMA OnePlaceOn ==
    ASSUME NEW n \in Nat \ {0}, NEW h \in 0 .. n - 1, NEW k \in 0 .. n - 1,
           NEW j, j = (h + 1) % n
    PROVE  (j + k) % n = (h + (k + 1)) % n
  <1>1. j = IF h + 1 < n THEN h + 1 ELSE h + 1 - n
    <2>1. 1 \in 0 .. n
      OBVIOUS
    <2> QED  BY <2>1, Wrapped
  <1>2. j \in 0 .. n - 1
    BY <1>1
  <1>3. (j + k) % n = IF j + k < n THEN j + k ELSE j + k - n
    <2>1. k \in 0 .. n
      OBVIOUS
    <2> QED  BY <1>2, <2>1, Wrapped
  <1>4. (h + (k + 1)) % n = IF h + (k + 1) < n THEN h + (k + 1) ELSE h + (k + 1) - n
    <2>1. k + 1 \in 0 .. n
      OBVIOUS
    <2> QED  BY <2>1, Wrapped
  <1>5. (IF j + k < n THEN j + k ELSE j + k - n)
          = IF h + (k + 1) < n THEN h + (k + 1) ELSE h + (k + 1) - n
    BY <1>1
  <1> QED  BY <1>3, <1>4, <1>5

\* Two places less than n apart are different.
LEMMA PlacesDiffer ==
    ASSUME NEW n \in Nat \ {0}, NEW h \in 0 .. n - 1, NEW k \in 0 .. n - 1,
           NEW m \in 0 .. n - 1, k # m
    PROVE  (h + k) % n # (h + m) % n
  <1>1. k \in 0 .. n /\ m \in 0 .. n
    OBVIOUS
  <1>2. (h + k) % n = IF h + k < n THEN h + k ELSE h + k - n
    BY <1>1, Wrapped
  <1>3. (h + m) % n = IF h + m < n THEN h + m ELSE h + m - n
    BY <1>1, Wrapped
  <1> QED  BY <1>2, <1>3

\* The tail is count places behind the head: the three indices tell one story.
RingInv == tail = (head + count) % Capacity

\* What a ring b holds in the c places from h on, oldest first: the mapping of Stream.
Ring(b, h, c) == [k \in 1 .. c |-> b[(h + k - 1) % Capacity]]

\* That is a sequence of c items.
LEMMA RingIsASequence ==
    ASSUME NEW b \in [Indices -> Items], NEW h \in Indices, NEW c \in 0 .. Capacity
    PROVE  Ring(b, h, c) \in Seq(Items) /\ Len(Ring(b, h, c)) = c
  <1>1. Capacity \in Nat \ {0} /\ c \in Nat /\ h \in 0 .. Capacity - 1
    <2>1. Capacity \in Nat \ {0} /\ h \in 0 .. Capacity - 1
      BY CapacityAssumption DEF Indices
    <2> QED  BY <2>1
  <1>2. ASSUME NEW k \in 1 .. c PROVE b[(h + k - 1) % Capacity] \in Items
    <2>1. h + k - 1 \in Nat
      BY <1>1
    <2>2. (h + k - 1) % Capacity \in Indices
      BY <1>1, <2>1, Remainder DEF Indices
    <2> QED  BY <2>2
  <1>3. Ring(b, h, c) \in [1 .. c -> Items]
    BY <1>2 DEF Ring
  <1> QED  BY <1>1, <1>3

\* Produce puts the next item behind those inside, and the tail is where it belongs.
LEMMA ProducePuts ==
    ASSUME BufferInv, RingInv, Produce
    PROVE  RingInv' /\ Stream!Put
  <1>1. TypeOK /\ TypeOK' /\ TestInv
    BY ProduceStep DEF BufferInv
  <1>2. /\ Capacity \in Nat \ {0} /\ count \in 0 .. Capacity - 1 /\ head \in 0 .. Capacity - 1
        /\ buffer \in [Indices -> Items] /\ item \in Items
    <2>1. count < Capacity
      BY <1>1 DEF TestInv, Produce
    <2>2. /\ head \in Indices /\ count \in 0 .. Capacity
          /\ buffer \in [Indices -> Items] /\ item \in Items
      BY <1>1 DEF TypeOK
    <2>3. Capacity \in Nat \ {0}
      BY CapacityAssumption
    <2>4. head \in 0 .. Capacity - 1
      BY <2>2 DEF Indices
    <2>5. count \in 0 .. Capacity - 1
      BY <2>1, <2>2, <2>3
    <2> QED  BY <2>2, <2>3, <2>4, <2>5
  <1>3. tail \in Indices /\ tail = (head + count) % Capacity
    BY <1>1 DEF TypeOK, RingInv
  <1>4. RingInv'
    <2>1. tail' = (tail + 1) % Capacity /\ count' = count + 1 /\ head' = head
      BY DEF Produce, NextTail
    <2>2. (tail + 1) % Capacity = (head + (count + 1)) % Capacity
      <3> DEFINE t == (head + count) % Capacity
      <3>1. t = tail
        BY <1>3
      <3>2. t = IF head + count < Capacity THEN head + count ELSE head + count - Capacity
        <4>1. count \in 0 .. Capacity
          BY <1>2
        <4> QED  BY <1>2, <4>1, Wrapped
      <3> HIDE DEF t
      <3>3. t \in 0 .. Capacity - 1
        BY <1>2, <3>2
      <3>4. (t + 1) % Capacity = IF t + 1 < Capacity THEN t + 1 ELSE t + 1 - Capacity
        <4>1. 1 \in 0 .. Capacity
          BY <1>2
        <4> QED  BY <1>2, <3>3, <4>1, Wrapped
      <3>5. (head + (count + 1)) % Capacity
              = IF head + (count + 1) < Capacity THEN head + (count + 1)
                ELSE head + (count + 1) - Capacity
        <4>1. count + 1 \in 0 .. Capacity
          BY <1>2
        <4> QED  BY <1>2, <4>1, Wrapped
      <3>6. (t + 1) % Capacity = (head + (count + 1)) % Capacity
        BY <1>2, <3>2, <3>4, <3>5
      <3> QED  BY <3>1, <3>6
    <2> QED  BY <2>1, <2>2 DEF RingInv
  <1> DEFINE old == Ring(buffer, head, count)
             new == Ring(buffer', head', count')
             put == Append(old, item)
  <1>5. old \in Seq(Items) /\ Len(old) = count /\ new \in Seq(Items) /\ Len(new) = count'
    BY <1>1, RingIsASequence DEF TypeOK
  <1>6. new = put
    <2>1. head' = head /\ count' = count + 1
      BY DEF Produce
    <2>2. /\ put \in Seq(Items) /\ Len(put) = count + 1
          /\ \A k \in 1 .. count : put[k] = old[k]
          /\ put[count + 1] = item
      <3>1. item \in Items
        BY <1>2
      <3> HIDE DEF old
      <3> QED  BY <1>5, <3>1, AppendProperties
    <2>3. ASSUME NEW k \in 1 .. count + 1
          PROVE  new[k] = put[k]
      <3>1. buffer' = [buffer EXCEPT ![tail] = item]
        BY DEF Produce
      <3>2. new[k] = buffer'[(head + k - 1) % Capacity]
        BY <2>1 DEF Ring
      <3>3. CASE k = count + 1
        <4>1. head + k - 1 = head + count
          BY <1>2, <3>3
        <4>2. buffer'[tail] = item
          BY <1>2, <1>3, <3>1
        <4> QED  BY <1>3, <2>2, <3>2, <3>3, <4>1, <4>2
      <3>4. CASE k # count + 1
        <4>1. k - 1 \in 0 .. Capacity - 1 /\ k - 1 # count /\ k \in 1 .. count
          BY <1>2, <3>4
        <4>2. (head + (k - 1)) % Capacity # tail
          BY <1>2, <1>3, <4>1, PlacesDiffer
        <4>3. head + (k - 1) = head + k - 1
          BY <1>2
        <4>4. (head + k - 1) % Capacity \in Indices
          <5>1. head + k - 1 \in Nat
            BY <1>2, <4>1
          <5> QED  BY <1>2, <5>1, Remainder DEF Indices
        <4>5. buffer'[(head + k - 1) % Capacity] = buffer[(head + k - 1) % Capacity]
          BY <1>2, <3>1, <4>2, <4>3, <4>4
        <4>6. old[k] = buffer[(head + k - 1) % Capacity]
          BY <4>1 DEF Ring
        <4> QED  BY <2>2, <3>2, <4>1, <4>5, <4>6
      <3> QED  BY <3>3, <3>4
    <2> HIDE DEF old, new, put
    <2> QED  BY <1>5, <2>1, <2>2, <2>3, SeqEqual
  <1>7. Len(old) < Capacity
    <2> HIDE DEF old
    <2> QED  BY <1>2, <1>5
  <1>8. item' = (item + 1) % Modulus /\ UNCHANGED consumed
    BY DEF Produce, ProducerUnchanged
  <1> QED  BY <1>4, <1>6, <1>7, <1>8 DEF Stream!Put, Ring

\* Consume takes the oldest item out, and the tail is where it was.
LEMMA ConsumeGets ==
    ASSUME BufferInv, RingInv, Consume
    PROVE  RingInv' /\ Stream!Get
  <1>1. TypeOK /\ TypeOK' /\ TestInv
    BY ConsumeStep DEF BufferInv
  <1>2. /\ Capacity \in Nat \ {0} /\ count \in 1 .. Capacity /\ head \in 0 .. Capacity - 1
        /\ buffer \in [Indices -> Items]
    <2>1. count > 0
      BY <1>1 DEF TestInv, Consume
    <2>2. head \in Indices /\ count \in 0 .. Capacity /\ buffer \in [Indices -> Items]
      BY <1>1 DEF TypeOK
    <2>3. Capacity \in Nat \ {0}
      BY CapacityAssumption
    <2>4. head \in 0 .. Capacity - 1
      BY <2>2 DEF Indices
    <2>5. count \in 1 .. Capacity
      BY <2>1, <2>2, <2>3
    <2> QED  BY <2>2, <2>3, <2>4, <2>5
  <1>3. head' = (head + 1) % Capacity /\ count' = count - 1 /\ UNCHANGED <<buffer, tail>>
    BY DEF Consume
  <1>4. ASSUME NEW k \in 0 .. count - 1
        PROVE  (head' + k) % Capacity = (head + (k + 1)) % Capacity
    <2>1. k \in 0 .. Capacity - 1
      BY <1>2
    <2> QED  BY <1>2, <1>3, <2>1, OnePlaceOn
  <1>5. RingInv'
    <2>1. (head' + (count - 1)) % Capacity = (head + (count - 1 + 1)) % Capacity
      BY <1>2, <1>4
    <2>2. count - 1 + 1 = count
      BY <1>2
    <2> QED  BY <1>3, <2>1, <2>2 DEF RingInv
  <1> DEFINE old == Ring(buffer, head, count)
             new == Ring(buffer', head', count')
             got == Tail(old)
  <1>6. old \in Seq(Items) /\ Len(old) = count /\ new \in Seq(Items) /\ Len(new) = count - 1
    BY <1>1, <1>3, RingIsASequence DEF TypeOK
  <1>7. old # <<>>
    <2> HIDE DEF old
    <2> QED  BY <1>2, <1>6
  <1>8. new = got
    <2>1. /\ got \in Seq(Items) /\ Len(got) = count - 1
          /\ \A k \in 1 .. count - 1 : got[k] = old[k + 1]
      <3> HIDE DEF old
      <3> QED  BY <1>6, <1>7, HeadTailProperties
    <2>2. ASSUME NEW k \in 1 .. count - 1 PROVE new[k] = got[k]
      <3>1. new[k] = buffer[(head' + k - 1) % Capacity]
        BY <1>3 DEF Ring
      <3>2. old[k + 1] = buffer[(head + (k + 1) - 1) % Capacity]
        <4>1. k + 1 \in 1 .. count
          BY <1>2
        <4> QED  BY <4>1 DEF Ring
      <3>3. k - 1 \in 0 .. count - 1
        BY <1>2
      <3>4. (head' + (k - 1)) % Capacity = (head + (k - 1 + 1)) % Capacity
        BY <1>4, <3>3
      <3>5. head' \in Int
        <4>1. head' \in Indices
          BY <1>1 DEF TypeOK
        <4> QED  BY <4>1 DEF Indices
      <3>6. head' + (k - 1) = head' + k - 1 /\ head + (k - 1 + 1) = head + (k + 1) - 1
        BY <1>2, <3>5
      <3> QED  BY <2>1, <3>1, <3>2, <3>4, <3>6
    <2> HIDE DEF old, new, got
    <2> QED  BY <1>6, <2>1, <2>2, SeqEqual
  <1>9. consumed' = Head(old)
    <2>1. old[1] = buffer[(head + 1 - 1) % Capacity]
      <3>1. 1 \in 1 .. count
        BY <1>2
      <3> QED  BY <3>1 DEF Ring
    <2>2. head + 1 - 1 = head + 0 /\ head + 0 = head
      BY <1>2
    <2>3. (head + 0) % Capacity = head
      <3>1. 0 \in 0 .. Capacity
        BY <1>2
      <3> QED  BY <1>2, <3>1, Wrapped
    <2>4. old[1] = buffer[head]
      BY <2>1, <2>2, <2>3
    <2>5. Head(old) = old[1]
      <3> HIDE DEF old
      <3> QED  BY <1>6, <1>7
    <2> QED  BY <2>4, <2>5 DEF Consume
  <1>10. item' = item
    BY DEF Consume, ConsumerUnchanged
  <1> QED  BY <1>5, <1>7, <1>8, <1>9, <1>10 DEF Stream!Get, Ring

\* No other step touches the ring or what has been put and got.
LEMMA OthersLeaveTheChannel ==
    ASSUME RingInv, Next \/ UNCHANGED vars, ~Produce, ~Consume
    PROVE  RingInv' /\ UNCHANGED Stream!vars
  <1>1. UNCHANGED <<buffer, head, tail, count, item, consumed>>
    <2>1. CASE ProducerStep \/ ProducerSpurious
      BY <2>1 DEF ProducerStep, ProducerLoop, ProducerLock, ProducerTest, ProducerWait,
         ProducerExit, ProducerSpurious, ProducerUnchanged, queueVars
    <2>2. CASE ConsumerStep \/ ConsumerSpurious
      BY <2>2 DEF ConsumerStep, ConsumerLoop, ConsumerLock, ConsumerTest, ConsumerWait,
         ConsumerExit, ConsumerSpurious, ConsumerUnchanged, queueVars
    <2>3. CASE Periodic \/ Sigint \/ HandlerStep \/ Join
      BY <2>3 DEF Periodic, Sigint, HandlerStep, WakeProducer, WakeConsumer, Join,
         OthersUnchanged, queueVars
    <2>4. CASE UNCHANGED vars
      BY <2>4 DEF vars, queueVars
    <2> QED  BY <2>1, <2>2, <2>3, <2>4 DEF Next, Terminated
  <1> QED  BY <1>1 DEF RingInv, Stream!vars

\* At the start both are empty.
LEMMA ChannelInit == Init => RingInv /\ Stream!Init
  <1>1. ASSUME Init PROVE RingInv
    <2>1. Capacity \in Nat \ {0} /\ 0 \in 0 .. Capacity - 1 /\ 0 \in 0 .. Capacity
      BY CapacityAssumption
    <2>2. (0 + 0) % Capacity = IF 0 + 0 < Capacity THEN 0 + 0 ELSE 0 + 0 - Capacity
      BY <2>1, Wrapped
    <2> QED  BY <1>1, <2>1, <2>2 DEF Init, RingInv
  <1>2. ASSUME Init PROVE Stream!Init
    <2>1. 1 .. count = {}
      BY <1>2 DEF Init
    <2>2. [k \in 1 .. count |-> buffer[(head + k - 1) % Capacity]] = <<>>
      BY <2>1
    <2> QED  BY <1>2, <2>2 DEF Init, Stream!Init
  <1> QED  BY <1>1, <1>2

\* PassesItemsOn: for every size of the array the circular buffer with its three
\* indices, two condition variables and the handler beside them is a channel: items
\* come out once, in the order they went in, whatever the indices wrap around.
THEOREM BufferIsAChannel == Spec => PassesItemsOn
  <1>1. Init => RingInv /\ Stream!Init
    BY ChannelInit
  <1>2. BufferInv /\ RingInv /\ [Next]_vars => RingInv' /\ [Stream!Next]_(Stream!vars)
    BY ProducePuts, ConsumeGets, OthersLeaveTheChannel DEF Stream!Next
  <1> QED  BY <1>1, <1>2, BufferInvariant, PTL DEF Spec, PassesItemsOn, Stream!Spec
===============================================================================
