------------------------- MODULE BoundedQueueProps -------------------------
(***************************************************************************)
(* What makes the bounded queue correct.                                    *)
(***************************************************************************)
EXTENDS BoundedQueue

Stages == {"idle", "try", "wait", "doze", "asleep", "store", "take", "publish",
           "notify", "release"}
ItemSeqs == {<<>>} \cup {<<x>> : x \in Items}

TypeOK ==
  /\ readIndex \in Indices /\ writeIndex \in Indices
  /\ data \in [Slots -> ItemSeqs]
  /\ pc \in [Threads -> Stages]
  /\ item \in [Threads -> ItemSeqs]
  /\ stoppable \in [Consumers -> BOOLEAN]
  /\ stopRequested \in BOOLEAN /\ stopNotified \in BOOLEAN
  /\ writeMutex \in Producers \cup {Nobody}
  /\ readMutex \in Consumers \cup {Nobody}
  /\ producerMutex \in Producers \cup {Nobody}
  /\ consumerMutex \in Consumers \cup {Nobody}
  /\ got \in ItemSeqs

\* No slot is built into and moved out of at the same time, although the two
\* sides share no mutex: the accesses of Emplace and Pop to m_data.
NoSlotRace ==
  \A p \in Producers, c \in Consumers :
    pc[p] = "store" /\ pc[c] = "take" =>
      writeIndex % Capacity # readIndex % Capacity

\* A wakeup is never lost: while a thread sleeps, or is about to, and what it
\* waits for holds, the thread of the other side that made it hold has still to
\* notify (the notify_one under the mutex, after the index was incremented).
NoLostWakeup ==
  /\ \A c \in Consumers : pc[c] \in {"doze", "asleep"} /\ ~Empty =>
       \E p \in Producers : pc[p] = "notify"
  /\ \A p \in Producers : pc[p] \in {"doze", "asleep"} /\ ~Full =>
       \E c \in Consumers : pc[c] = "notify"

\* A consumer that waits with a stop token gets out of the call once a stop is
\* requested, whatever the producers do.
StopEndsWait ==
  \A c \in Consumers :
    pc[c] \in {"wait", "doze", "asleep"} /\ Stopped(c) ~> pc[c] = "idle"

\* A consumer does not sleep for ever on a queue that holds something, nor a
\* producer on one that has room.
SleepersWake ==
  /\ \A c \in Consumers : pc[c] = "asleep" /\ ~Empty ~> pc[c] # "asleep"
  /\ \A p \in Producers : pc[p] = "asleep" /\ ~Full ~> pc[p] # "asleep"

\* The items inside, the oldest first, as the slots between the indices.
Inside == [k \in 1 .. Used |-> data[((readIndex + k - 1) % Wrap) % Capacity][1]]

\* The queue is a bounded first-in first-out queue to its callers.
Fifo == INSTANCE BoundedFifo WITH fifo <- Inside
FifoSpec == Fifo!FifoSpec
=============================================================================
