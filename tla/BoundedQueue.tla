---------------------------- MODULE BoundedQueue ----------------------------
(***************************************************************************)
(* The ring buffer of src/common/bounded_threadsafe_queue.h: SPSCQueue with *)
(* the write mutex that MPSCQueue puts around it and the read mutex of      *)
(* MPMCQueue.  Each step of a thread is one access to what threads share.   *)
(* With one producer (consumer) the write (read) mutex is never contended,  *)
(* so the module covers SPSCQueue and MPSCQueue as well.                    *)
(*                                                                          *)
(* The indices are counters of a fixed width: they run modulo Wrap, which   *)
(* is 2^64 in the program.                                                  *)
(***************************************************************************)
EXTENDS Naturals, Sequences

CONSTANTS
  Producers, Consumers,   \* the threads on either side
  Items,                  \* what is put in the queue
  Capacity,               \* the number of slots
  Wrap,                   \* the number of values an index can have
  Nobody                  \* the holder of a free mutex

\* "Capacity must be a power of two" is asserted so that it divides Wrap.
ASSUME QueueAssumption ==
  /\ Producers # {} /\ Consumers # {} /\ Producers \cap Consumers = {}
  /\ Nobody \notin Producers \cup Consumers
  /\ Capacity \in Nat \ {0}
  /\ Wrap \in Nat /\ Wrap > Capacity /\ Wrap % Capacity = 0

VARIABLES
  readIndex, writeIndex,  \* m_read_index and m_write_index
  data,                   \* m_data
  pc,                     \* the stage of each thread's call
  item,                   \* the item a thread brings or has taken, as <<item>>
  stoppable,              \* the consumer called PopWait with a stop token
  stopRequested,          \* the state behind the stop token
  stopNotified,           \* its callbacks have run
  writeMutex, readMutex,  \* write_mutex of MPSCQueue, read_mutex of MPMCQueue
  producerMutex,          \* producer_cv_mutex
  consumerMutex,          \* consumer_cv_mutex
  got                     \* history: the item that left the queue last

vars == <<readIndex, writeIndex, data, pc, item, stoppable, stopRequested,
          stopNotified, writeMutex, readMutex, producerMutex, consumerMutex, got>>

Threads == Producers \cup Consumers
Slots == 0 .. Capacity - 1
Indices == 0 .. Wrap - 1
\* ++index and the difference of two indices, in the width of the program.
Next1(i) == IF i + 1 = Wrap THEN 0 ELSE i + 1
Distance(w, r) == IF w >= r THEN w - r ELSE w - r + Wrap

Used == Distance(writeIndex, readIndex)

\* Mutation: one item too many is let in.
FullOffByOne == ~(Used <= Capacity)

Full == ~(Used < Capacity)
Empty == readIndex = writeIndex

Goto(t, stage) == pc' = [pc EXCEPT ![t] = stage]

Init ==
  /\ readIndex = 0 /\ writeIndex = 0
  /\ data = [s \in Slots |-> <<>>]
  /\ pc = [t \in Threads |-> "idle"]
  /\ item = [t \in Threads |-> <<>>]
  /\ stoppable = [c \in Consumers |-> FALSE]
  /\ stopRequested = FALSE /\ stopNotified = FALSE
  /\ writeMutex = Nobody /\ readMutex = Nobody
  /\ producerMutex = Nobody /\ consumerMutex = Nobody
  /\ got = <<>>

shared == <<readIndex, writeIndex, data, got>>
stopVars == <<stopRequested, stopNotified>>
callMutexes == <<writeMutex, readMutex>>
cvMutexes == <<producerMutex, consumerMutex>>

(***************************************************************************)
(* Emplace.                                                                 *)
(***************************************************************************)
\* TryEmplace or EmplaceWait: the write mutex is taken.
BeginEmplace(p) ==
  /\ pc[p] = "idle" /\ writeMutex = Nobody
  /\ writeMutex' = p
  /\ \E x \in Items : item' = [item EXCEPT ![p] = <<x>>]
  /\ \E stage \in {"try", "wait"} : Goto(p, stage)
  /\ UNCHANGED <<shared, stoppable, stopVars, readMutex, cvMutexes>>

\* PushMode::Try: a full queue ends the call.
TryEmplace(p) ==
  /\ pc[p] = "try"
  /\ IF Full THEN Goto(p, "release") ELSE Goto(p, "store")
  /\ UNCHANGED <<shared, item, stoppable, stopVars, callMutexes, cvMutexes>>

\* PushMode::Wait: the predicate, under producer_cv_mutex.
CheckNotFull(p) ==
  /\ pc[p] = "wait" /\ producerMutex = Nobody
  /\ IF Full THEN Goto(p, "doze") /\ producerMutex' = p
             ELSE Goto(p, "store") /\ UNCHANGED producerMutex
  /\ UNCHANGED <<shared, item, stoppable, stopVars, callMutexes, consumerMutex>>

\* wait() gives the mutex back and sleeps in one step.
ProducerSleeps(p) ==
  /\ pc[p] = "doze"
  /\ Goto(p, "asleep") /\ producerMutex' = Nobody
  /\ UNCHANGED <<shared, item, stoppable, stopVars, callMutexes, consumerMutex>>

\* The item is built in its slot.
Store(p) ==
  /\ pc[p] = "store"
  /\ data' = [data EXCEPT ![writeIndex % Capacity] = item[p]]
  /\ Goto(p, "publish")
  /\ UNCHANGED <<readIndex, writeIndex, got, item, stoppable, stopVars,
                 callMutexes, cvMutexes>>
Publish(p) ==
  /\ pc[p] = "publish"
  /\ writeIndex' = Next1(writeIndex)
  /\ Goto(p, "notify")
  /\ UNCHANGED <<readIndex, data, got, item, stoppable, stopVars, callMutexes,
                 cvMutexes>>

\* What notify_one does to the sleepers among ts: one of them is woken.
NotifyOne(t, ts) ==
  LET sleepers == {u \in ts : pc[u] = "asleep"} IN
    IF sleepers = {}
      THEN Goto(t, "release")
      ELSE \E u \in sleepers :
             pc' = [pc EXCEPT ![t] = "release", ![u] = "wait"]

\* Mutation: the consumer is notified without its mutex.
NotifyConsumerUnlocked(p) ==
  /\ pc[p] = "notify"
  /\ NotifyOne(p, Consumers)
  /\ UNCHANGED <<shared, item, stoppable, stopVars, callMutexes, cvMutexes>>

\* The consumer is notified under consumer_cv_mutex.
NotifyConsumer(p) ==
  /\ pc[p] = "notify" /\ consumerMutex = Nobody
  /\ NotifyOne(p, Consumers)
  /\ UNCHANGED <<shared, item, stoppable, stopVars, callMutexes, cvMutexes>>

EndEmplace(p) ==
  /\ pc[p] = "release"
  /\ Goto(p, "idle") /\ writeMutex' = Nobody
  /\ item' = [item EXCEPT ![p] = <<>>]
  /\ UNCHANGED <<shared, stoppable, stopVars, readMutex, cvMutexes>>

ProducerStep(p) ==
  \/ TryEmplace(p) \/ CheckNotFull(p) \/ ProducerSleeps(p)
  \/ Store(p) \/ Publish(p) \/ NotifyConsumer(p) \/ EndEmplace(p)

(***************************************************************************)
(* Pop.                                                                     *)
(***************************************************************************)
\* TryPop, PopWait, or PopWait with a stop token: the read mutex is taken.
BeginPop(c) ==
  /\ pc[c] = "idle" /\ readMutex = Nobody
  /\ readMutex' = c
  /\ \/ Goto(c, "try") /\ UNCHANGED stoppable
     \/ Goto(c, "wait") /\ \E b \in BOOLEAN : stoppable' = [stoppable EXCEPT ![c] = b]
  /\ UNCHANGED <<shared, item, stopVars, writeMutex, cvMutexes>>

TryPop(c) ==
  /\ pc[c] = "try"
  /\ IF Empty THEN Goto(c, "release") ELSE Goto(c, "take")
  /\ UNCHANGED <<shared, item, stoppable, stopVars, callMutexes, cvMutexes>>

Stopped(c) == stoppable[c] /\ stopRequested

\* PopMode::Wait and WaitWithStopToken: the predicate, under consumer_cv_mutex.
\* A requested stop ends the call with nothing taken, also when items are there.
CheckNotEmpty(c) ==
  /\ pc[c] = "wait" /\ consumerMutex = Nobody
  /\ \/ Stopped(c) /\ Goto(c, "release") /\ UNCHANGED consumerMutex
     \/ ~Stopped(c) /\ Empty /\ Goto(c, "doze") /\ consumerMutex' = c
     \/ ~Stopped(c) /\ ~Empty /\ Goto(c, "take") /\ UNCHANGED consumerMutex
  /\ UNCHANGED <<shared, item, stoppable, stopVars, callMutexes, producerMutex>>

ConsumerSleeps(c) ==
  /\ pc[c] = "doze"
  /\ Goto(c, "asleep") /\ consumerMutex' = Nobody
  /\ UNCHANGED <<shared, item, stoppable, stopVars, callMutexes, producerMutex>>

\* Mutation: the index is incremented before it is used.
TakeNext(c) ==
  /\ pc[c] = "take"
  /\ item' = [item EXCEPT ![c] = data[Next1(readIndex) % Capacity]]
  /\ Goto(c, "publish")
  /\ UNCHANGED <<shared, stoppable, stopVars, callMutexes, cvMutexes>>

\* The item is moved out of its slot.
Take(c) ==
  /\ pc[c] = "take"
  /\ item' = [item EXCEPT ![c] = data[readIndex % Capacity]]
  /\ Goto(c, "publish")
  /\ UNCHANGED <<shared, stoppable, stopVars, callMutexes, cvMutexes>>

Advance(c) ==
  /\ pc[c] = "publish"
  /\ readIndex' = Next1(readIndex)
  /\ got' = item[c]
  /\ Goto(c, "notify")
  /\ UNCHANGED <<writeIndex, data, item, stoppable, stopVars, callMutexes,
                 cvMutexes>>

\* Mutation: the producers are not notified.
NotifyNobody(c) ==
  /\ pc[c] = "notify" /\ producerMutex = Nobody
  /\ Goto(c, "release")
  /\ UNCHANGED <<shared, item, stoppable, stopVars, callMutexes, cvMutexes>>

\* The producer is notified under producer_cv_mutex.
NotifyProducer(c) ==
  /\ pc[c] = "notify" /\ producerMutex = Nobody
  /\ NotifyOne(c, Producers)
  /\ UNCHANGED <<shared, item, stoppable, stopVars, callMutexes, cvMutexes>>

EndPop(c) ==
  /\ pc[c] = "release"
  /\ Goto(c, "idle") /\ readMutex' = Nobody
  /\ item' = [item EXCEPT ![c] = <<>>]
  /\ UNCHANGED <<shared, stoppable, stopVars, writeMutex, cvMutexes>>

ConsumerStep(c) ==
  \/ TryPop(c) \/ CheckNotEmpty(c) \/ ConsumerSleeps(c)
  \/ Take(c) \/ Advance(c) \/ NotifyProducer(c) \/ EndPop(c)

(***************************************************************************)
(* The library.                                                             *)
(***************************************************************************)
\* request_stop() sets the flag, then runs the callback the wait has
\* registered, which takes the mutex of the sleeper and wakes it.
RequestStop ==
  /\ ~stopRequested
  /\ stopRequested' = TRUE
  /\ UNCHANGED <<shared, pc, item, stoppable, stopNotified, callMutexes, cvMutexes>>

\* Mutation: the stop's callback wakes nobody.
StopCallbacksWakeNobody ==
  /\ stopRequested /\ ~stopNotified /\ consumerMutex = Nobody
  /\ stopNotified' = TRUE
  /\ UNCHANGED <<shared, pc, item, stoppable, stopRequested, callMutexes, cvMutexes>>

StopCallbacks ==
  /\ stopRequested /\ ~stopNotified /\ consumerMutex = Nobody
  /\ stopNotified' = TRUE
  /\ pc' = [t \in Threads |->
              IF t \in Consumers /\ pc[t] = "asleep" /\ stoppable[t]
                THEN "wait" ELSE pc[t]]
  /\ UNCHANGED <<shared, item, stoppable, stopRequested, callMutexes, cvMutexes>>

\* A condition variable may wake a thread for no reason.
SpuriousWakeup(t) ==
  /\ pc[t] = "asleep"
  /\ Goto(t, "wait")
  /\ UNCHANGED <<shared, item, stoppable, stopVars, callMutexes, cvMutexes>>

Next ==
  \/ \E p \in Producers : BeginEmplace(p) \/ ProducerStep(p)
  \/ \E c \in Consumers : BeginPop(c) \/ ConsumerStep(c)
  \/ RequestStop \/ StopCallbacks
  \/ \E t \in Threads : SpuriousWakeup(t)

\* A thread inside a call is scheduled again and again; nothing makes a caller
\* call, a stop be requested or a wakeup be spurious.
Fairness ==
  /\ \A p \in Producers : WF_vars(ProducerStep(p))
  /\ \A c \in Consumers : WF_vars(ConsumerStep(c))
  /\ WF_vars(StopCallbacks)

Spec == Init /\ [][Next]_vars
FairSpec == Spec /\ Fairness
=============================================================================
