-------------------------- MODULE BoundedQueueProofs --------------------------
(***************************************************************************)
(* The safety of the bounded queue, and that it implements the first-in     *)
(* first-out queue, for any number of threads, any capacity and any width   *)
(* of the indices.                                                          *)
(***************************************************************************)
EXTENDS BoundedQueueProps, Integers, TLAPS

(***************************************************************************)
(* The arithmetic of the indices.                                           *)
(***************************************************************************)
\* The distance of two indices grows and shrinks by one, also where an index
\* wraps around.
LEMMA DistanceSteps ==
  ASSUME NEW w \in Indices, NEW r \in Indices
  PROVE  /\ Next1(w) \in Indices
         /\ Distance(w, r) \in 0 .. Wrap - 1
         /\ Distance(w, r) < Capacity => Distance(Next1(w), r) = Distance(w, r) + 1
         /\ w # r => Distance(w, Next1(r)) = Distance(w, r) - 1
         /\ Distance(w, r) = 0 <=> w = r
BY QueueAssumption DEF Indices, Next1, Distance

\* Two numbers less than c apart do not lie in the same slot of c.
LEMMA CloseNumbersDiffer ==
  ASSUME NEW c \in Nat \ {0}, NEW a \in Nat, NEW b \in Nat, b < a, a - b < c
  PROVE  a % c # b % c
<1> DEFINE qa == a \div c
           qb == b \div c
<1>1. /\ qa \in Int /\ a % c \in 0 .. c - 1 /\ a = c * qa + (a % c)
      /\ qb \in Int /\ b % c \in 0 .. c - 1 /\ b = c * qb + (b % c)
  OBVIOUS
<1>2. SUFFICES ASSUME a % c = b % c PROVE FALSE
  OBVIOUS
<1>3. a - b = c * (qa - qb)
  BY <1>1, <1>2
<1>4. qa - qb >= 1
  BY <1>1, <1>3
<1>5. c * (qa - qb) >= c
  BY <1>1, <1>4
<1> QED
  BY <1>1, <1>3, <1>5

\* A multiple of c does not change the slot.
LEMMA WrappedSlot ==
  ASSUME NEW c \in Nat \ {0}, NEW n \in Nat, NEW m \in Nat, m % c = 0
  PROVE  (n + m) % c = n % c
<1> DEFINE k == m \div c
           q == n \div c
           s == (n + m) \div c
<1>1. k \in Int /\ m = c * k
  OBVIOUS
<1>2. q \in Int /\ n = c * q + (n % c) /\ n % c \in 0 .. c - 1
  OBVIOUS
<1>3. s \in Int /\ n + m = c * s + ((n + m) % c) /\ (n + m) % c \in 0 .. c - 1
  OBVIOUS
<1>4. c * (s - q - k) = (n % c) - ((n + m) % c)
  BY <1>1, <1>2, <1>3
<1>5. s - q - k = 0
  <2>1. CASE s - q - k >= 1
    <3>1. c * (s - q - k) >= c
      BY <2>1, <1>1, <1>2, <1>3
    <3> QED
      BY <3>1, <1>2, <1>3, <1>4
  <2>2. CASE s - q - k <= -1
    <3>1. c * (s - q - k) <= -c
      BY <2>2, <1>1, <1>2, <1>3
    <3> QED
      BY <3>1, <1>2, <1>3, <1>4
  <2> QED
    BY <2>1, <2>2, <1>1, <1>2, <1>3
<1> QED
  BY <1>2, <1>3, <1>4, <1>5

(***************************************************************************)
(* The inductive invariant.                                                 *)
(***************************************************************************)
\* A thread is inside a call exactly when it holds the mutex of its side, and
\* about to sleep exactly when it holds the mutex of its condition variable.
Holders ==
  /\ \A p \in Producers : pc[p] # "take"
  /\ \A c \in Consumers : pc[c] # "store"
  /\ \A p \in Producers : pc[p] # "idle" <=> writeMutex = p
  /\ \A c \in Consumers : pc[c] # "idle" <=> readMutex = c
  /\ \A p \in Producers : pc[p] = "doze" <=> producerMutex = p
  /\ \A c \in Consumers : pc[c] = "doze" <=> consumerMutex = c

\* No more than Capacity items are inside, a thread that stores has a free slot
\* and a thread that takes has an item.
Bounds ==
  /\ Used <= Capacity
  /\ \A p \in Producers : pc[p] \in {"store", "publish"} => Used < Capacity
  /\ \A c \in Consumers : pc[c] \in {"take", "publish"} => readIndex # writeIndex

IInv == TypeOK /\ Holders /\ Bounds /\ NoLostWakeup

\* Every step keeps the types.
LEMMA TypeInductive ==
  ASSUME TypeOK, [Next]_vars
  PROVE  TypeOK'
<1> USE QueueAssumption DEF TypeOK, Threads, Stages, Slots, ItemSeqs, shared, stopVars, callMutexes, cvMutexes
<1>1. ASSUME NEW p \in Producers, BeginEmplace(p) PROVE TypeOK'
  BY <1>1 DEF BeginEmplace, Goto
<1>2. ASSUME NEW p \in Producers, TryEmplace(p) PROVE TypeOK'
  BY <1>2 DEF TryEmplace, Goto
<1>3. ASSUME NEW p \in Producers, CheckNotFull(p) PROVE TypeOK'
  BY <1>3 DEF CheckNotFull, Goto
<1>4. ASSUME NEW p \in Producers, ProducerSleeps(p) PROVE TypeOK'
  BY <1>4 DEF ProducerSleeps, Goto
<1>5. ASSUME NEW p \in Producers, Store(p) PROVE TypeOK'
  BY <1>5 DEF Store, Goto
<1>6. ASSUME NEW p \in Producers, Publish(p) PROVE TypeOK'
  BY <1>6, DistanceSteps DEF Publish, Goto
<1>7. ASSUME NEW p \in Producers, NotifyConsumer(p) PROVE TypeOK'
  BY <1>7 DEF NotifyConsumer, NotifyOne, Goto
<1>8. ASSUME NEW p \in Producers, EndEmplace(p) PROVE TypeOK'
  BY <1>8 DEF EndEmplace, Goto
<1>9. ASSUME NEW c \in Consumers, BeginPop(c) PROVE TypeOK'
  BY <1>9 DEF BeginPop, Goto
<1>10. ASSUME NEW c \in Consumers, TryPop(c) PROVE TypeOK'
  BY <1>10 DEF TryPop, Goto
<1>11. ASSUME NEW c \in Consumers, CheckNotEmpty(c) PROVE TypeOK'
  BY <1>11 DEF CheckNotEmpty, Goto
<1>12. ASSUME NEW c \in Consumers, ConsumerSleeps(c) PROVE TypeOK'
  BY <1>12 DEF ConsumerSleeps, Goto
<1>13. ASSUME NEW c \in Consumers, Take(c) PROVE TypeOK'
  <2>1. readIndex % Capacity \in Slots
    BY DEF Indices
  <2> QED
    BY <1>13, <2>1 DEF Take, Goto
<1>14. ASSUME NEW c \in Consumers, Advance(c) PROVE TypeOK'
  BY <1>14, DistanceSteps DEF Advance, Goto
<1>15. ASSUME NEW c \in Consumers, NotifyProducer(c) PROVE TypeOK'
  BY <1>15 DEF NotifyProducer, NotifyOne, Goto
<1>16. ASSUME NEW c \in Consumers, EndPop(c) PROVE TypeOK'
  BY <1>16 DEF EndPop, Goto
<1>17. ASSUME RequestStop PROVE TypeOK'
  BY <1>17 DEF RequestStop
<1>18. ASSUME StopCallbacks PROVE TypeOK'
  BY <1>18 DEF StopCallbacks
<1>19. ASSUME NEW t \in Threads, SpuriousWakeup(t) PROVE TypeOK'
  BY <1>19 DEF SpuriousWakeup, Goto
<1>20. CASE UNCHANGED vars
  BY <1>20 DEF vars
<1> QED
  BY <1>1, <1>2, <1>3, <1>4, <1>5, <1>6, <1>7, <1>8, <1>9, <1>10, <1>11, <1>12, <1>13, <1>14, <1>15, <1>16, <1>17, <1>18, <1>19, <1>20 DEF Next, ProducerStep, ConsumerStep

\* Every step keeps the mutexes with the threads that hold them.
LEMMA HoldersInductive ==
  ASSUME TypeOK, Holders, [Next]_vars
  PROVE  Holders'
<1> USE QueueAssumption DEF TypeOK, Holders, Threads, Stages, shared, stopVars, callMutexes, cvMutexes
<1>1. ASSUME NEW p \in Producers, BeginEmplace(p) PROVE Holders'
  BY <1>1 DEF BeginEmplace, Goto
<1>2. ASSUME NEW p \in Producers, TryEmplace(p) PROVE Holders'
  BY <1>2 DEF TryEmplace, Goto
<1>3. ASSUME NEW p \in Producers, CheckNotFull(p) PROVE Holders'
  BY <1>3 DEF CheckNotFull, Goto
<1>4. ASSUME NEW p \in Producers, ProducerSleeps(p) PROVE Holders'
  BY <1>4 DEF ProducerSleeps, Goto
<1>5. ASSUME NEW p \in Producers, Store(p) PROVE Holders'
  BY <1>5 DEF Store, Goto
<1>6. ASSUME NEW p \in Producers, Publish(p) PROVE Holders'
  BY <1>6 DEF Publish, Goto
<1>7. ASSUME NEW p \in Producers, NotifyConsumer(p) PROVE Holders'
  BY <1>7 DEF NotifyConsumer, NotifyOne, Goto
<1>8. ASSUME NEW p \in Producers, EndEmplace(p) PROVE Holders'
  BY <1>8 DEF EndEmplace, Goto
<1>9. ASSUME NEW c \in Consumers, BeginPop(c) PROVE Holders'
  BY <1>9 DEF BeginPop, Goto
<1>10. ASSUME NEW c \in Consumers, TryPop(c) PROVE Holders'
  BY <1>10 DEF TryPop, Goto
<1>11. ASSUME NEW c \in Consumers, CheckNotEmpty(c) PROVE Holders'
  BY <1>11 DEF CheckNotEmpty, Goto
<1>12. ASSUME NEW c \in Consumers, ConsumerSleeps(c) PROVE Holders'
  BY <1>12 DEF ConsumerSleeps, Goto
<1>13. ASSUME NEW c \in Consumers, Take(c) PROVE Holders'
  BY <1>13 DEF Take, Goto
<1>14. ASSUME NEW c \in Consumers, Advance(c) PROVE Holders'
  BY <1>14 DEF Advance, Goto
<1>15. ASSUME NEW c \in Consumers, NotifyProducer(c) PROVE Holders'
  BY <1>15 DEF NotifyProducer, NotifyOne, Goto
<1>16. ASSUME NEW c \in Consumers, EndPop(c) PROVE Holders'
  BY <1>16 DEF EndPop, Goto
<1>17. ASSUME RequestStop PROVE Holders'
  BY <1>17 DEF RequestStop
<1>18. ASSUME StopCallbacks PROVE Holders'
  BY <1>18 DEF StopCallbacks
<1>19. ASSUME NEW t \in Threads, SpuriousWakeup(t) PROVE Holders'
  BY <1>19 DEF SpuriousWakeup, Goto
<1>20. CASE UNCHANGED vars
  BY <1>20 DEF vars
<1> QED
  BY <1>1, <1>2, <1>3, <1>4, <1>5, <1>6, <1>7, <1>8, <1>9, <1>10, <1>11,
     <1>12, <1>13, <1>14, <1>15, <1>16, <1>17, <1>18, <1>19, <1>20
     DEF Next, ProducerStep, ConsumerStep

\* Every step keeps the number of items between its bounds.
LEMMA BoundsInductive ==
  ASSUME TypeOK, Holders, Bounds, [Next]_vars
  PROVE  Bounds'
<1> USE QueueAssumption DEF TypeOK, Holders, Bounds, Threads, Stages, Used, Full, Empty, shared, stopVars,
          callMutexes, cvMutexes
<1>1. ASSUME NEW p \in Producers, BeginEmplace(p) PROVE Bounds'
  BY <1>1 DEF BeginEmplace, Goto
<1>2. ASSUME NEW p \in Producers, TryEmplace(p) PROVE Bounds'
  BY <1>2 DEF TryEmplace, Goto
<1>3. ASSUME NEW p \in Producers, CheckNotFull(p) PROVE Bounds'
  BY <1>3 DEF CheckNotFull, Goto
<1>4. ASSUME NEW p \in Producers, ProducerSleeps(p) PROVE Bounds'
  BY <1>4 DEF ProducerSleeps, Goto
<1>5. ASSUME NEW p \in Producers, Store(p) PROVE Bounds'
  BY <1>5 DEF Store, Goto
<1>6. ASSUME NEW p \in Producers, Publish(p) PROVE Bounds'
  BY <1>6, DistanceSteps DEF Publish, Goto
<1>7. ASSUME NEW p \in Producers, NotifyConsumer(p) PROVE Bounds'
  BY <1>7 DEF NotifyConsumer, NotifyOne, Goto
<1>8. ASSUME NEW p \in Producers, EndEmplace(p) PROVE Bounds'
  BY <1>8, DistanceSteps DEF EndEmplace, Goto
<1>9. ASSUME NEW c \in Consumers, BeginPop(c) PROVE Bounds'
  BY <1>9 DEF BeginPop, Goto
<1>10. ASSUME NEW c \in Consumers, TryPop(c) PROVE Bounds'
  BY <1>10, DistanceSteps DEF TryPop, Goto
<1>11. ASSUME NEW c \in Consumers, CheckNotEmpty(c) PROVE Bounds'
  BY <1>11, DistanceSteps DEF CheckNotEmpty, Goto
<1>12. ASSUME NEW c \in Consumers, ConsumerSleeps(c) PROVE Bounds'
  BY <1>12 DEF ConsumerSleeps, Goto
<1>13. ASSUME NEW c \in Consumers, Take(c) PROVE Bounds'
  BY <1>13 DEF Take, Goto
<1>14. ASSUME NEW c \in Consumers, Advance(c) PROVE Bounds'
  BY <1>14, DistanceSteps DEF Advance, Goto
<1>15. ASSUME NEW c \in Consumers, NotifyProducer(c) PROVE Bounds'
  BY <1>15 DEF NotifyProducer, NotifyOne, Goto
<1>16. ASSUME NEW c \in Consumers, EndPop(c) PROVE Bounds'
  BY <1>16, DistanceSteps DEF EndPop, Goto
<1>17. ASSUME RequestStop PROVE Bounds'
  BY <1>17 DEF RequestStop
<1>18. ASSUME StopCallbacks PROVE Bounds'
  BY <1>18 DEF StopCallbacks
<1>19. ASSUME NEW t \in Threads, SpuriousWakeup(t) PROVE Bounds'
  BY <1>19 DEF SpuriousWakeup, Goto
<1>20. CASE UNCHANGED vars
  BY <1>20 DEF vars
<1> QED
  BY <1>1, <1>2, <1>3, <1>4, <1>5, <1>6, <1>7, <1>8, <1>9, <1>10, <1>11,
     <1>12, <1>13, <1>14, <1>15, <1>16, <1>17, <1>18, <1>19, <1>20
     DEF Next, ProducerStep, ConsumerStep

\* Every step keeps a thread that notifies with every sleeper it is due to.
LEMMA WakeupsInductive ==
  ASSUME TypeOK, Holders, Bounds, NoLostWakeup, [Next]_vars
  PROVE  NoLostWakeup'
<1> USE QueueAssumption DEF TypeOK, Holders, Bounds, NoLostWakeup, Threads, Stages, Used, Full, Empty,
          shared, stopVars, callMutexes, cvMutexes
<1>1. ASSUME NEW p \in Producers, BeginEmplace(p) PROVE NoLostWakeup'
  BY <1>1 DEF BeginEmplace, Goto
<1>2. ASSUME NEW p \in Producers, TryEmplace(p) PROVE NoLostWakeup'
  BY <1>2 DEF TryEmplace, Goto
<1>3. ASSUME NEW p \in Producers, CheckNotFull(p) PROVE NoLostWakeup'
  BY <1>3 DEF CheckNotFull, Goto
<1>4. ASSUME NEW p \in Producers, ProducerSleeps(p) PROVE NoLostWakeup'
  BY <1>4 DEF ProducerSleeps, Goto
<1>5. ASSUME NEW p \in Producers, Store(p) PROVE NoLostWakeup'
  BY <1>5 DEF Store, Goto
<1>6. ASSUME NEW p \in Producers, Publish(p) PROVE NoLostWakeup'
  BY <1>6, DistanceSteps DEF Publish, Goto
<1>7. ASSUME NEW p \in Producers, NotifyConsumer(p) PROVE NoLostWakeup'
  BY <1>7 DEF NotifyConsumer, NotifyOne, Goto
<1>8. ASSUME NEW p \in Producers, EndEmplace(p) PROVE NoLostWakeup'
  BY <1>8 DEF EndEmplace, Goto
<1>9. ASSUME NEW c \in Consumers, BeginPop(c) PROVE NoLostWakeup'
  BY <1>9 DEF BeginPop, Goto
<1>10. ASSUME NEW c \in Consumers, TryPop(c) PROVE NoLostWakeup'
  BY <1>10 DEF TryPop, Goto
<1>11. ASSUME NEW c \in Consumers, CheckNotEmpty(c) PROVE NoLostWakeup'
  BY <1>11 DEF CheckNotEmpty, Goto
<1>12. ASSUME NEW c \in Consumers, ConsumerSleeps(c) PROVE NoLostWakeup'
  BY <1>12 DEF ConsumerSleeps, Goto
<1>13. ASSUME NEW c \in Consumers, Take(c) PROVE NoLostWakeup'
  BY <1>13 DEF Take, Goto
<1>14. ASSUME NEW c \in Consumers, Advance(c) PROVE NoLostWakeup'
  BY <1>14, DistanceSteps DEF Advance, Goto
<1>15. ASSUME NEW c \in Consumers, NotifyProducer(c) PROVE NoLostWakeup'
  BY <1>15 DEF NotifyProducer, NotifyOne, Goto
<1>16. ASSUME NEW c \in Consumers, EndPop(c) PROVE NoLostWakeup'
  BY <1>16 DEF EndPop, Goto
<1>17. ASSUME RequestStop PROVE NoLostWakeup'
  BY <1>17 DEF RequestStop
<1>18. ASSUME StopCallbacks PROVE NoLostWakeup'
  BY <1>18 DEF StopCallbacks
<1>19. ASSUME NEW t \in Threads, SpuriousWakeup(t) PROVE NoLostWakeup'
  BY <1>19 DEF SpuriousWakeup, Goto
<1>20. CASE UNCHANGED vars
  BY <1>20 DEF vars
<1> QED
  BY <1>1, <1>2, <1>3, <1>4, <1>5, <1>6, <1>7, <1>8, <1>9, <1>10, <1>11,
     <1>12, <1>13, <1>14, <1>15, <1>16, <1>17, <1>18, <1>19, <1>20
     DEF Next, ProducerStep, ConsumerStep

(***************************************************************************)
(* The theorems.                                                            *)
(***************************************************************************)
\* The empty queue with all mutexes free satisfies the invariant.
LEMMA InitInv ==
  ASSUME Init
  PROVE  IInv
<1> USE QueueAssumption DEF Init
<1>1. TypeOK
  <2>1. readIndex \in Indices /\ writeIndex \in Indices
    BY DEF Indices
  <2>2. data \in [Slots -> ItemSeqs] /\ item \in [Threads -> ItemSeqs] /\ got \in ItemSeqs
    BY Zenon DEF ItemSeqs
  <2>3. pc \in [Threads -> Stages] /\ stoppable \in [Consumers -> BOOLEAN]
    BY Zenon DEF Stages
  <2> QED
    BY <2>1, <2>2, <2>3 DEF TypeOK
<1>2. Holders
  BY DEF Holders, Threads
<1>3. Used = 0
  BY DEF Used, Distance
<1>4. Bounds
  BY <1>3 DEF Bounds, Threads
<1>5. NoLostWakeup
  BY DEF NoLostWakeup, Threads
<1> QED
  BY <1>1, <1>2, <1>4, <1>5 DEF IInv

\* The parts of the invariant are kept together.
LEMMA StepInv ==
  ASSUME IInv, [Next]_vars
  PROVE  IInv'
BY TypeInductive, HoldersInductive, BoundsInductive, WakeupsInductive DEF IInv

\* The invariant holds in every reachable state.
THEOREM Invariance == Spec => []IInv
<1>1. Init => IInv
  BY InitInv
<1>2. IInv /\ [Next]_vars => IInv'
  BY StepInv
<1> QED
  BY <1>1, <1>2, PTL DEF Spec

\* What the invariant says of two threads inside: the slot that is written is
\* not the one that is read.
LEMMA InvSlots ==
  ASSUME IInv
  PROVE  NoSlotRace
<1> USE QueueAssumption DEF IInv
<1> SUFFICES ASSUME NEW p \in Producers, NEW c \in Consumers,
                    pc[p] = "store", pc[c] = "take"
             PROVE  writeIndex % Capacity # readIndex % Capacity
  BY DEF NoSlotRace
<1>1. writeIndex \in Nat /\ readIndex \in Nat /\ writeIndex < Wrap /\ readIndex < Wrap
  BY DEF TypeOK, Indices
<1>2. Used < Capacity /\ readIndex # writeIndex
  BY DEF Bounds
<1>3. CASE writeIndex > readIndex
  <2>1. writeIndex - readIndex < Capacity
    BY <1>1, <1>2, <1>3 DEF Used, Distance
  <2> QED
    BY <1>1, <1>3, <2>1, CloseNumbersDiffer
\* Here the write index has wrapped around and the read index has not.
<1>4. CASE writeIndex < readIndex
  <2>1. /\ writeIndex + Wrap \in Nat /\ readIndex < writeIndex + Wrap
        /\ (writeIndex + Wrap) - readIndex < Capacity
    BY <1>1, <1>2, <1>4 DEF Used, Distance
  <2>2. (writeIndex + Wrap) % Capacity # readIndex % Capacity
    BY <1>1, <2>1, CloseNumbersDiffer
  <2>3. (writeIndex + Wrap) % Capacity = writeIndex % Capacity
    BY <1>1, WrappedSlot
  <2> QED
    BY <2>2, <2>3
<1> QED
  BY <1>1, <1>2, <1>3, <1>4

\* The indices, the slots, the mutexes and the stages of the calls stay in
\* their types, also where an index wraps around.
THEOREM TypeCorrect == Spec => []TypeOK
<1>1. IInv => TypeOK
  BY DEF IInv
<1> QED
  BY Invariance, <1>1, PTL

\* However many threads share the queue, a thread that sleeps although it could
\* go on is going to be notified: Emplace and Pop notify after they increment
\* their index and before they return.
THEOREM WakeupsKept == Spec => []NoLostWakeup
<1>1. IInv => NoLostWakeup
  BY DEF IInv
<1> QED
  BY Invariance, <1>1, PTL

\* Emplace never builds an item in the slot Pop is moving one out of, for any
\* capacity that divides the number of index values.
THEOREM SlotsApart == Spec => []NoSlotRace
<1>1. IInv => NoSlotRace
  BY InvSlots
<1> QED
  BY Invariance, <1>1, PTL
-----------------------------------------------------------------------------
(***************************************************************************)
(* The refinement.  Storing an item changes nothing the users of the queue  *)
(* can see, incrementing an index is a push or a pop, every other step is a *)
(* stutter.                                                                 *)
(***************************************************************************)
\* The index, and the slot, of the k-th item inside.
IndexOf(k) == (readIndex + k - 1) % Wrap
SlotOf(k) == IndexOf(k) % Capacity

\* Where the items are: every slot between the indices is filled, a producer that
\* is about to publish has its item behind them, a consumer that has taken has the
\* one at the front.
Contents ==
  /\ \A k \in 1 .. Used : data[SlotOf(k)] # <<>>
  /\ \A p \in Producers :
       /\ pc[p] # "idle" => item[p] # <<>>
       /\ pc[p] = "publish" => data[writeIndex % Capacity] = item[p]
  /\ \A c \in Consumers : pc[c] = "publish" => item[c] = data[readIndex % Capacity]

RInv == IInv /\ Contents

-----------------------------------------------------------------------------
\* Below twice the modulus the remainder is got by one subtraction.
LEMMA OneTurn ==
  ASSUME NEW m \in Nat \ {0}, NEW n \in Nat, n < 2 * m
  PROVE  n % m = IF n < m THEN n ELSE n - m
<1> DEFINE q == n \div m
           r == n % m
<1>1. q \in Nat /\ r \in 0 .. m - 1 /\ n = m * q + r
  OBVIOUS
<1>2. q < 2
  <2>1. SUFFICES ASSUME q >= 2 PROVE FALSE
    BY <1>1
  <2>2. m * q >= m * 2
    BY <1>1, <2>1
  <2> QED
    BY <1>1, <2>2
<1>3. q = 0 \/ q = 1
  BY <1>1, <1>2
<1> QED
  BY <1>1, <1>3

\* The k-th place from index r on, without a remainder.
LEMMA PlaceIs ==
  ASSUME NEW r \in Indices, NEW k \in Nat, 1 <= k, k <= Capacity
  PROVE  /\ (r + k - 1) % Wrap \in Indices
         /\ (r + k - 1) % Wrap = IF r + k - 1 < Wrap THEN r + k - 1
                                  ELSE r + k - 1 - Wrap
<1> DEFINE n == r + k - 1
<1>1. Wrap \in Nat \ {0} /\ Capacity \in Nat /\ Capacity < Wrap
  BY QueueAssumption
<1>2. n \in Nat /\ n < 2 * Wrap
  BY <1>1 DEF Indices
<1>3. (r + k - 1) % Wrap = n % Wrap
  OBVIOUS
<1> HIDE DEF n
<1>4. n % Wrap = IF n < Wrap THEN n ELSE n - Wrap
  BY <1>1, <1>2, OneTurn
<1>5. (IF n < Wrap THEN n ELSE n - Wrap) \in Indices
  BY <1>1, <1>2 DEF Indices
<1> QED
  <2>1. r \in Nat /\ Wrap \in Nat
    BY <1>1 DEF Indices
  <2>2. (r + k - 1) % Wrap = IF n < Wrap THEN n ELSE n - Wrap
    BY <1>3, <1>4
  <2>3. (r + k - 1) % Wrap \in Indices
    BY <1>5, <2>2
  <2> QED
    BY <2>1, <2>2, <2>3 DEF n

\* The k-th item's index counted from the read index.
LEMMA IndexIs ==
  ASSUME readIndex \in Indices, NEW k \in Nat, 1 <= k, k <= Capacity
  PROVE  /\ IndexOf(k) \in Indices
         /\ IndexOf(k) = IF readIndex + k - 1 < Wrap THEN readIndex + k - 1
                         ELSE readIndex + k - 1 - Wrap
BY PlaceIs DEF IndexOf

\* Two indices that are not equal and less than Capacity apart lie in different
\* slots, also around the wrap.
LEMMA NearIndicesApart ==
  ASSUME NEW w \in Indices, NEW i \in Indices, w # i, Distance(w, i) < Capacity
  PROVE  w % Capacity # i % Capacity
<1>1. /\ Wrap \in Nat \ {0} /\ Capacity \in Nat \ {0} /\ Wrap % Capacity = 0
      /\ w \in Nat /\ i \in Nat /\ i < Wrap
  BY QueueAssumption DEF Indices
<1>2. CASE w >= i
  <2>1. i < w /\ w - i < Capacity
    BY <1>1, <1>2 DEF Distance
  <2> QED
    BY <1>1, <2>1, CloseNumbersDiffer
<1>3. CASE w < i
  <2>1. i < w + Wrap /\ w + Wrap - i < Capacity /\ w + Wrap \in Nat
    BY <1>1, <1>3 DEF Distance
  <2>2. (w + Wrap) % Capacity # i % Capacity
    <3> DEFINE a == w + Wrap
    <3>1. a \in Nat /\ i < a /\ a - i < Capacity
      BY <1>1, <2>1
    <3> HIDE DEF a
    <3>2. a % Capacity # i % Capacity
      BY <1>1, <3>1, CloseNumbersDiffer
    <3> QED
      BY <3>2 DEF a
  <2>3. (w + Wrap) % Capacity = w % Capacity
    BY <1>1, WrappedSlot
  <2> QED
    BY <2>2, <2>3
<1> QED
  BY <1>1, <1>2, <1>3

\* The slots between the indices: each is a slot, the first is at the read index,
\* and the one at the write index is none of them while there is room.
LEMMA SlotsInside ==
  ASSUME IInv
  PROVE  /\ Used \in 0 .. Capacity
         /\ \A k \in 1 .. Used : SlotOf(k) \in Slots
         /\ SlotOf(1) = readIndex % Capacity
         /\ Used < Capacity => SlotOf(Used + 1) = writeIndex % Capacity
         /\ Used < Capacity => \A k \in 1 .. Used : SlotOf(k) # writeIndex % Capacity
         /\ writeIndex % Capacity \in Slots /\ readIndex % Capacity \in Slots
<1>1. /\ readIndex \in Indices /\ writeIndex \in Indices /\ Used <= Capacity
      /\ Wrap \in Nat \ {0} /\ Capacity \in Nat \ {0} /\ Capacity < Wrap
  BY QueueAssumption DEF IInv, TypeOK, Bounds
<1>2. Used \in 0 .. Capacity
  BY <1>1, DistanceSteps DEF Used
<1>3. \A i \in Indices : i % Capacity \in Slots
  BY <1>1 DEF Indices, Slots
<1>4. \A k \in 1 .. Used : SlotOf(k) \in Slots
  BY <1>1, <1>2, <1>3, IndexIs DEF SlotOf
<1>5. SlotOf(1) = readIndex % Capacity
  <2>1. IndexOf(1) = readIndex
    BY <1>1, IndexIs DEF Indices
  <2> QED
    BY <2>1 DEF SlotOf
<1>6. ASSUME Used < Capacity PROVE SlotOf(Used + 1) = writeIndex % Capacity
  <2>1. IndexOf(Used + 1) = IF readIndex + Used < Wrap THEN readIndex + Used
                            ELSE readIndex + Used - Wrap
    BY <1>1, <1>2, <1>6, IndexIs DEF Indices
  <2>2. IndexOf(Used + 1) = writeIndex
    BY <1>1, <2>1 DEF Used, Distance, Indices
  <2> QED
    BY <2>2 DEF SlotOf
<1>7. ASSUME Used < Capacity, NEW k \in 1 .. Used PROVE SlotOf(k) # writeIndex % Capacity
  <2>1. /\ IndexOf(k) \in Indices
        /\ IndexOf(k) = IF readIndex + k - 1 < Wrap THEN readIndex + k - 1
                        ELSE readIndex + k - 1 - Wrap
    BY <1>1, <1>2, IndexIs
  <2>2. writeIndex = IF readIndex + Used < Wrap THEN readIndex + Used
                     ELSE readIndex + Used - Wrap
    BY <1>1 DEF Used, Distance, Indices
  <2>3. Distance(writeIndex, IndexOf(k)) = Used - k + 1 /\ writeIndex # IndexOf(k)
    BY <1>1, <1>2, <1>7, <2>1, <2>2 DEF Distance, Indices
  <2> QED
    BY <1>1, <1>2, <1>7, <2>1, <2>3, NearIndicesApart DEF SlotOf
<1> QED
  BY <1>1, <1>2, <1>3, <1>4, <1>5, <1>6, <1>7

-----------------------------------------------------------------------------
\* A step that leaves the indices and the slots, and lets a producer reach
\* "publish" only with its item stored, a consumer only with the front item.
LEMMA ContentsKept ==
  ASSUME Contents, UNCHANGED <<readIndex, writeIndex, data>>,
         \A p \in Producers :
           /\ pc'[p] # "idle" => item'[p] # <<>>
           /\ pc'[p] = "publish" => pc[p] = "publish" /\ item'[p] = item[p],
         \A c \in Consumers :
           pc'[c] = "publish" => \/ pc[c] = "publish" /\ item'[c] = item[c]
                                 \/ item'[c] = data[readIndex % Capacity]
  PROVE  Contents'
<1>1. Used' = Used /\ \A k \in 1 .. Used : SlotOf(k)' = SlotOf(k)
  BY DEF Used, SlotOf, IndexOf
<1>2. (\A k \in 1 .. Used : data[SlotOf(k)] # <<>>)'
  BY <1>1 DEF Contents
<1> QED
  BY <1>2 DEF Contents

\* The steps that move no item.
LEMMA QuietSteps ==
  ASSUME RInv,
         \/ \E p \in Producers : \/ BeginEmplace(p) \/ TryEmplace(p) \/ CheckNotFull(p)
                                 \/ ProducerSleeps(p) \/ NotifyConsumer(p) \/ EndEmplace(p)
         \/ \E c \in Consumers : \/ BeginPop(c) \/ TryPop(c) \/ CheckNotEmpty(c)
                                 \/ ConsumerSleeps(c) \/ Take(c) \/ NotifyProducer(c)
                                 \/ EndPop(c)
         \/ RequestStop \/ StopCallbacks
         \/ \E t \in Threads : SpuriousWakeup(t)
         \/ UNCHANGED vars
  PROVE  Contents' /\ UNCHANGED <<readIndex, writeIndex, data, got>>
<1> USE QueueAssumption DEF RInv, IInv, TypeOK, Threads, shared, stopVars, callMutexes, cvMutexes
<1> DEFINE Quiet ==
      /\ UNCHANGED <<readIndex, writeIndex, data, got>>
      /\ \A p \in Producers :
           /\ pc'[p] # "idle" => item'[p] # <<>>
           /\ pc'[p] = "publish" => pc[p] = "publish" /\ item'[p] = item[p]
      /\ \A c \in Consumers :
           pc'[c] = "publish" => \/ pc[c] = "publish" /\ item'[c] = item[c]
                                 \/ item'[c] = data[readIndex % Capacity]
<1> SUFFICES Quiet
  BY ContentsKept
<1> USE DEF Contents
<1>1. ASSUME NEW p \in Producers, BeginEmplace(p) PROVE Quiet
  BY <1>1 DEF BeginEmplace, Goto
<1>2. ASSUME NEW p \in Producers, TryEmplace(p) \/ CheckNotFull(p) \/ ProducerSleeps(p)
      PROVE  Quiet
  BY <1>2 DEF TryEmplace, CheckNotFull, ProducerSleeps, Goto
<1>3. ASSUME NEW p \in Producers, NotifyConsumer(p) PROVE Quiet
  BY <1>3 DEF NotifyConsumer, NotifyOne, Goto
<1>4. ASSUME NEW p \in Producers, EndEmplace(p) PROVE Quiet
  BY <1>4 DEF EndEmplace, Goto
<1>5. ASSUME NEW c \in Consumers, BeginPop(c) PROVE Quiet
  BY <1>5 DEF BeginPop, Goto
<1>6. ASSUME NEW c \in Consumers, TryPop(c) \/ CheckNotEmpty(c) \/ ConsumerSleeps(c)
      PROVE  Quiet
  BY <1>6 DEF TryPop, CheckNotEmpty, ConsumerSleeps, Goto
<1>7. ASSUME NEW c \in Consumers, Take(c) PROVE Quiet
  BY <1>7 DEF Take, Goto
<1>8. ASSUME NEW c \in Consumers, NotifyProducer(c) PROVE Quiet
  BY <1>8 DEF NotifyProducer, NotifyOne, Goto
<1>9. ASSUME NEW c \in Consumers, EndPop(c) PROVE Quiet
  BY <1>9 DEF EndPop, Goto
<1>10. CASE RequestStop
  BY <1>10 DEF RequestStop
<1>11. CASE StopCallbacks
  BY <1>11 DEF StopCallbacks
<1>12. ASSUME NEW t \in Threads, SpuriousWakeup(t) PROVE Quiet
  BY <1>12 DEF SpuriousWakeup, Goto
<1>13. CASE UNCHANGED vars
  BY <1>13 DEF vars
<1> QED
  BY <1>1, <1>2, <1>3, <1>4, <1>5, <1>6, <1>7, <1>8, <1>9, <1>10, <1>11, <1>12, <1>13

\* A consumer that has taken an item finds at least that one still inside.
LEMMA TakenIsInside ==
  ASSUME RInv, NEW c \in Consumers, pc[c] = "publish"
  PROVE  Used >= 1
<1>1. readIndex \in Indices /\ writeIndex \in Indices /\ readIndex # writeIndex
  BY DEF RInv, IInv, TypeOK, Bounds
<1> QED
  BY <1>1, QueueAssumption DEF Used, Distance, Indices

\* Building an item touches none of the slots between the indices, nor the one a
\* consumer has taken from.
LEMMA StoreKeeps ==
  ASSUME RInv, NEW p \in Producers, Store(p)
  PROVE  Contents' /\ \A k \in 1 .. Used : data'[SlotOf(k)] = data[SlotOf(k)]
<1> USE QueueAssumption DEF RInv
<1>1. /\ UNCHANGED <<readIndex, writeIndex, item, got>>
      /\ data' = [data EXCEPT ![writeIndex % Capacity] = item[p]]
      /\ pc[p] = "store" /\ pc' = [pc EXCEPT ![p] = "publish"]
  BY DEF Store, Goto
<1>2. Used < Capacity /\ \A q \in Producers : pc[q] # "idle" => q = p
  BY <1>1 DEF IInv, Bounds, Holders
<1>3. \A k \in 1 .. Used : data'[SlotOf(k)] = data[SlotOf(k)]
  BY <1>1, <1>2, SlotsInside DEF IInv, TypeOK
<1>4. Used' = Used /\ \A k \in 1 .. Used : SlotOf(k)' = SlotOf(k)
  BY <1>1 DEF Used, SlotOf, IndexOf
<1>5. (\A k \in 1 .. Used : data[SlotOf(k)] # <<>>)'
  BY <1>3, <1>4 DEF Contents
<1>6. data'[writeIndex % Capacity] = item[p]
  BY <1>1, SlotsInside DEF IInv, TypeOK
<1>7. ASSUME NEW q \in Producers
      PROVE  /\ pc'[q] # "idle" => item'[q] # <<>>
             /\ pc'[q] = "publish" => data'[writeIndex' % Capacity] = item'[q]
  BY <1>1, <1>2, <1>6 DEF IInv, TypeOK, Threads, Contents
<1>8. ASSUME NEW c \in Consumers, pc'[c] = "publish"
      PROVE  item'[c] = data'[readIndex' % Capacity]
  <2>1. pc[c] = "publish" /\ item[c] = data[readIndex % Capacity]
    BY <1>1, <1>8 DEF IInv, TypeOK, Threads, Contents
  <2>2. Used >= 1
    BY <2>1, TakenIsInside
  <2>3. data'[readIndex % Capacity] = data[readIndex % Capacity]
    BY <1>3, <2>2, SlotsInside
  <2> QED
    BY <1>1, <2>1, <2>3
<1> QED
  BY <1>3, <1>5, <1>7, <1>8 DEF Contents

\* Incrementing the write index lets in the item behind it.
LEMMA PublishIsPush ==
  ASSUME RInv, NEW p \in Producers, Publish(p)
  PROVE  Contents' /\ \E x \in Items : Fifo!Push(x)
<1> USE QueueAssumption DEF RInv
<1>1. /\ UNCHANGED <<readIndex, data, item, got>> /\ writeIndex' = Next1(writeIndex)
      /\ pc[p] = "publish" /\ pc' = [pc EXCEPT ![p] = "notify"]
  BY DEF Publish, Goto
<1>2. /\ Used < Capacity /\ Used \in Nat
      /\ \A q \in Producers : pc[q] # "idle" => q = p
      /\ item[p] # <<>> /\ data[writeIndex % Capacity] = item[p]
  BY <1>1, SlotsInside DEF IInv, Bounds, Holders, Contents
<1>3. PICK x \in Items : item[p] = <<x>>
  BY <1>2 DEF IInv, TypeOK, Threads, ItemSeqs
<1>4. Used' = Used + 1
  BY <1>1, <1>2, DistanceSteps DEF Used, IInv, TypeOK
<1>5. \A k \in Nat : SlotOf(k)' = SlotOf(k)
  BY <1>1 DEF SlotOf, IndexOf
<1>6. SlotOf(Used + 1) = writeIndex % Capacity
  BY <1>2, SlotsInside
<1>7. Contents'
  <2>1. (\A k \in 1 .. Used : data[SlotOf(k)] # <<>>)'
    <3> SUFFICES ASSUME NEW k \in 1 .. Used + 1 PROVE data[SlotOf(k)] # <<>>
      BY <1>1, <1>2, <1>4, <1>5
    <3>1. CASE k = Used + 1
      BY <1>2, <1>6, <3>1
    <3>2. CASE k \in 1 .. Used
      BY <3>2 DEF Contents
    <3> QED
      BY <1>2, <3>1, <3>2
  <2>2. ASSUME NEW q \in Producers PROVE pc'[q] = "publish" => FALSE
    BY <1>1, <1>2 DEF IInv, TypeOK, Threads
  <2>3. ASSUME NEW q \in Producers, pc'[q] # "idle" PROVE item'[q] # <<>>
    BY <1>1, <1>2, <2>3 DEF IInv, TypeOK, Threads
  <2>4. ASSUME NEW c \in Consumers, pc'[c] = "publish"
        PROVE  item'[c] = data'[readIndex' % Capacity]
    BY <1>1, <2>4 DEF IInv, TypeOK, Threads, Contents
  <2> QED
    BY <2>1, <2>2, <2>3, <2>4 DEF Contents
<1>8. Inside = [k \in 1 .. Used |-> data[SlotOf(k)][1]]
  BY DEF Inside, SlotOf, IndexOf
<1>9. Inside' = [k \in 1 .. Used + 1 |-> data[SlotOf(k)][1]]
  <2>1. Inside' = [k \in 1 .. Used' |-> data'[SlotOf(k)'][1]]
    BY DEF Inside, SlotOf, IndexOf
  <2> QED
    BY <1>1, <1>2, <1>4, <1>5, <2>1
<1>10. Len(Inside) = Used
  BY <1>2, <1>8
<1>11. data[SlotOf(Used + 1)][1] = x
  BY <1>2, <1>3, <1>6
<1>12. Inside' = Append(Inside, x)
  BY <1>2, <1>8, <1>9, <1>10, <1>11
<1> QED
  BY <1>1, <1>2, <1>7, <1>10, <1>12 DEF Fifo!Push

\* Incrementing the read index lets out the item at the front.
LEMMA AdvanceIsPop ==
  ASSUME RInv, NEW c \in Consumers, Advance(c)
  PROVE  Contents' /\ Fifo!Pop
<1> USE QueueAssumption DEF RInv
<1>1. /\ UNCHANGED <<writeIndex, data, item>> /\ readIndex' = Next1(readIndex)
      /\ pc[c] = "publish" /\ pc' = [pc EXCEPT ![c] = "notify"] /\ got' = item[c]
  BY DEF Advance, Goto
<1>2. /\ Used >= 1 /\ Used \in Nat /\ Used <= Capacity
      /\ \A d \in Consumers : pc[d] # "idle" => d = c
      /\ item[c] = data[readIndex % Capacity] /\ SlotOf(1) = readIndex % Capacity
      /\ data[SlotOf(1)] # <<>> /\ SlotOf(1) \in Slots
  BY <1>1, SlotsInside, TakenIsInside DEF IInv, Holders, Contents
<1>3. PICK x \in Items : data[SlotOf(1)] = <<x>>
  BY <1>2 DEF IInv, TypeOK, ItemSeqs
<1>4. Used' = Used - 1
  BY <1>1, <1>2, DistanceSteps DEF Used, IInv, TypeOK, Bounds
<1>5. \A k \in 1 .. Used - 1 : SlotOf(k)' = SlotOf(k + 1)
  <2> SUFFICES ASSUME NEW k \in 1 .. Used - 1 PROVE SlotOf(k)' = SlotOf(k + 1)
    OBVIOUS
  <2>1. /\ Wrap \in Nat \ {0} /\ Capacity \in Nat /\ Capacity < Wrap
        /\ readIndex \in Indices /\ readIndex' \in Indices
    BY <1>1, DistanceSteps DEF IInv, TypeOK
  <2>2. IndexOf(k + 1) = IF readIndex + k < Wrap THEN readIndex + k ELSE readIndex + k - Wrap
    <3>1. k + 1 \in Nat /\ 1 <= k + 1 /\ k + 1 <= Capacity
      BY <1>2, <2>1
    <3>2. IndexOf(k + 1) = IF readIndex + (k + 1) - 1 < Wrap THEN readIndex + (k + 1) - 1
                           ELSE readIndex + (k + 1) - 1 - Wrap
      BY <2>1, <3>1, IndexIs
    <3> QED
      BY <2>1, <3>2 DEF Indices
  <2>3. IndexOf(k)' = IF readIndex' + k - 1 < Wrap THEN readIndex' + k - 1
                      ELSE readIndex' + k - 1 - Wrap
    <3>1. k \in Nat /\ 1 <= k /\ k <= Capacity
      BY <1>2, <2>1
    <3> QED
      BY <2>1, <3>1, PlaceIs DEF IndexOf
  <2>4. readIndex' = IF readIndex + 1 = Wrap THEN 0 ELSE readIndex + 1
    BY <1>1 DEF Next1
  <2>5. IndexOf(k)' = IndexOf(k + 1)
    BY <1>2, <2>1, <2>2, <2>3, <2>4 DEF Indices
  <2> QED
    BY <2>5 DEF SlotOf
<1>6. Contents'
  <2>1. (\A k \in 1 .. Used : data[SlotOf(k)] # <<>>)'
    <3> SUFFICES ASSUME NEW k \in 1 .. Used - 1 PROVE (data[SlotOf(k)])' # <<>>
      BY <1>2, <1>4
    <3>1. k + 1 \in 1 .. Used
      BY <1>2
    <3> QED
      BY <1>1, <1>5, <3>1 DEF Contents
  <2>2. ASSUME NEW d \in Consumers PROVE pc'[d] # "publish"
    BY <1>1, <1>2 DEF IInv, TypeOK, Threads
  <2>3. ASSUME NEW q \in Producers
        PROVE  /\ pc'[q] # "idle" => item'[q] # <<>>
               /\ pc'[q] = "publish" => data'[writeIndex' % Capacity] = item'[q]
    BY <1>1 DEF IInv, TypeOK, Threads, Contents
  <2> QED
    BY <2>1, <2>2, <2>3 DEF Contents
<1>7. Inside = [k \in 1 .. Used |-> data[SlotOf(k)][1]]
  BY DEF Inside, SlotOf, IndexOf
<1>8. Inside' = [k \in 1 .. Used - 1 |-> data[SlotOf(k + 1)][1]]
  <2>1. Inside' = [k \in 1 .. Used' |-> data'[SlotOf(k)'][1]]
    BY DEF Inside, SlotOf, IndexOf
  <2> QED
    BY <1>1, <1>2, <1>4, <1>5, <2>1
<1>9. Len(Inside) = Used /\ Inside # <<>>
  BY <1>2, <1>7
<1>10. Head(Inside) = x
  BY <1>2, <1>3, <1>7
<1>11. Inside' = Tail(Inside)
  BY <1>2, <1>7, <1>8, <1>9
<1>12. got' = <<Head(Inside)>>
  BY <1>1, <1>2, <1>3, <1>10
<1> QED
  BY <1>6, <1>9, <1>11, <1>12 DEF Fifo!Pop

-----------------------------------------------------------------------------
\* A step that leaves the slots between the indices leaves the sequence.
LEMMA InsideKept ==
  ASSUME RInv, UNCHANGED <<readIndex, writeIndex, got>>,
         \A k \in 1 .. Used : data'[SlotOf(k)] = data[SlotOf(k)]
  PROVE  UNCHANGED Fifo!fifoVars
<1>1. Used' = Used /\ \A k \in 1 .. Used : SlotOf(k)' = SlotOf(k)
  BY DEF Used, SlotOf, IndexOf
<1>2. Inside = [k \in 1 .. Used |-> data[SlotOf(k)][1]]
  BY DEF Inside, SlotOf, IndexOf
<1>3. Inside' = [k \in 1 .. Used' |-> data'[SlotOf(k)'][1]]
  BY DEF Inside, SlotOf, IndexOf
<1>4. Inside' = Inside
  BY <1>1, <1>2, <1>3
<1> QED
  BY <1>4 DEF Fifo!fifoVars

\* Every step keeps the invariant, and is a push, a pop or a stutter.
LEMMA StepRefines ==
  ASSUME RInv, [Next]_vars
  PROVE  RInv' /\ [Fifo!FifoNext]_(Fifo!fifoVars)
<1>1. IInv'
  BY StepInv DEF RInv
<1>2. ASSUME NEW p \in Producers, Store(p) PROVE Contents' /\ UNCHANGED Fifo!fifoVars
  <2>1. UNCHANGED <<readIndex, writeIndex, got>>
    BY <1>2 DEF Store
  <2> QED
    BY <1>2, <2>1, StoreKeeps, InsideKept
<1>3. ASSUME NEW p \in Producers, Publish(p) PROVE Contents' /\ Fifo!FifoNext
  BY <1>3, PublishIsPush DEF Fifo!FifoNext
<1>4. ASSUME NEW c \in Consumers, Advance(c) PROVE Contents' /\ Fifo!FifoNext
  BY <1>4, AdvanceIsPop DEF Fifo!FifoNext
<1>5. \/ \E p \in Producers : Store(p) \/ Publish(p)
      \/ \E c \in Consumers : Advance(c)
      \/ Contents' /\ UNCHANGED <<readIndex, writeIndex, data, got>>
  BY QuietSteps DEF Next, ProducerStep, ConsumerStep
<1>6. UNCHANGED <<readIndex, writeIndex, data, got>> => UNCHANGED Fifo!fifoVars
  BY InsideKept
<1> QED
  BY <1>1, <1>2, <1>3, <1>4, <1>5, <1>6 DEF RInv

\* Emplace and Pop make a bounded first-in first-out queue: every behaviour of the
\* threads on the ring buffer is one of BoundedFifo, in which items come out in the
\* order they went in, each once, and never more than Capacity are inside.
THEOREM QueueIsFifo == Spec => FifoSpec
<1>1. Init => RInv /\ Fifo!FifoInit
  <2> SUFFICES ASSUME Init PROVE RInv /\ Fifo!FifoInit
    OBVIOUS
  <2>1. Used = 0
    BY QueueAssumption DEF Init, Used, Distance
  <2>2. Contents
    BY <2>1 DEF Init, Contents, Threads
  <2>3. Inside = <<>>
    BY <2>1 DEF Inside
  <2> QED
    BY <2>2, <2>3, InitInv DEF RInv, Init, Fifo!FifoInit
<1>2. RInv /\ [Next]_vars => RInv' /\ [Fifo!FifoNext]_(Fifo!fifoVars)
  BY StepRefines
<1> QED
  BY <1>1, <1>2, PTL DEF Spec, FifoSpec, Fifo!FifoSpec
=============================================================================
