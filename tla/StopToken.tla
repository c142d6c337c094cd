----------------------------- MODULE StopToken -----------------------------
(***************************************************************************)
(* common/polyfill_thread.h, the part for libraries without std::jthread:   *)
(* one stop state, the waits of CondvarWait, all on one mutex, and of       *)
(* StoppableTimedWait, each on a mutex of its own, and one request_stop.    *)
(* lock is m_lock of the stop state; a thread that needs it waits for it.   *)
(***************************************************************************)
EXTENDS Naturals, Sequences, SequencesExt

CONSTANTS CondWaiters, TimedWaiters  \* the threads that wait
Waiters == CondWaiters \cup TimedWaiters
Stopper == "stopper"
Nobody == "nobody"
ASSUME StopAssumption ==
  /\ CondWaiters \cap TimedWaiters = {}
  /\ Waiters \cap {"shared", Stopper, Nobody} = {}

VARIABLES
  requested,  \* m_stop_requested
  callbacks,  \* m_callbacks: whose they are, in the order of their numbers
  lock,       \* who holds m_lock
  mutex,      \* who holds the mutex that a waiter uses
  at,         \* where each waiter stands
  stop,       \* where request_stop stands: <<what, whose callback>>
  flag,       \* stop_requested of a timed wait
  numbered,   \* the waits whose callback got a number
  ready       \* what the predicate of CondvarWait reads

stopVars == <<requested, callbacks, lock, mutex, at, stop, flag, numbered, ready>>

MutexOf(w) == IF w \in CondWaiters THEN "shared" ELSE w
Mutexes == {"shared"} \cup TimedWaiters

StopInit ==
  /\ requested = FALSE /\ callbacks = <<>> /\ lock = Nobody
  /\ mutex = [m \in Mutexes |-> Nobody] /\ at = [w \in Waiters |-> "outside"]
  /\ stop = <<"idle", Nobody>> /\ flag = [w \in TimedWaiters |-> FALSE] /\ ready = FALSE
  /\ numbered = {}

Goto(w, place) == at' = [at EXCEPT ![w] = place]
Hold(w) == mutex[MutexOf(w)] = Nobody /\ mutex' = [mutex EXCEPT ![MutexOf(w)] = w]
Drop(w) == mutex' = [mutex EXCEPT ![MutexOf(w)] = Nobody]
\* stop_requested takes the lock for a moment.
Asked(answer) == lock = Nobody /\ requested = answer

-----------------------------------------------------------------------------
\* The caller of CondvarWait holds the mutex already.
Enter(w) ==
  /\ at[w] = "outside" /\ Goto(w, "first")
  /\ IF w \in CondWaiters THEN Hold(w) ELSE UNCHANGED mutex
  /\ UNCHANGED <<requested, callbacks, lock, stop, flag, numbered, ready>>

First(w) ==
  /\ at[w] = "first"
  /\ \/ Asked(TRUE) /\ Goto(w, "return")
     \/ Asked(FALSE) /\ Goto(w, "insert")
  /\ UNCHANGED <<requested, callbacks, lock, mutex, stop, flag, numbered, ready>>

\* insert_callback: after a stop the callback runs at once, under the lock.
InsertCallback(w) ==
  /\ at[w] = "insert" /\ lock = Nobody
  /\ IF requested
     THEN lock' = w /\ Goto(w, "self") /\ UNCHANGED <<callbacks, numbered>>
     ELSE /\ callbacks' = Append(callbacks, w) /\ UNCHANGED lock
          /\ numbered' = numbered \cup {w}
          /\ Goto(w, IF w \in CondWaiters THEN "check" ELSE "lock")
  /\ UNCHANGED <<requested, mutex, stop, flag, ready>>

\* Mutation: the callback does not take the mutex of the waiter.
CallbackLocksNot(w) == TRUE

\* What the callback does: the mutex for a moment, then, in a step of its own,
\* the notification.
CallbackLocks(w) == mutex[MutexOf(w)] = Nobody
Flagged(w) == flag' = [v \in TimedWaiters |-> flag[v] \/ v = w]
Notified(w) ==
  [v \in Waiters |-> IF at[v] = "asleep" /\ MutexOf(v) = MutexOf(w) THEN "lock" ELSE at[v]]

OwnCallback(w) ==
  /\ at[w] = "self" /\ CallbackLocks(w) /\ Flagged(w) /\ lock' = Nobody
  /\ at' = [Notified(w) EXCEPT ![w] = "lock"]  \* a wait of CondvarWait never gets here
  /\ UNCHANGED <<requested, callbacks, mutex, stop, numbered, ready>>

\* wait: the predicate is read with the mutex held; a wake may come by itself.
Check(w) ==
  /\ at[w] = "check"
  /\ IF w \in CondWaiters
     THEN \/ ready /\ Goto(w, "remove")
          \/ ~ready /\ Asked(TRUE) /\ Goto(w, "remove")
          \/ ~ready /\ Asked(FALSE) /\ Goto(w, "sleep")
     ELSE IF flag[w] THEN Goto(w, "unlock") ELSE Goto(w, "sleep")
  /\ UNCHANGED <<requested, callbacks, lock, mutex, stop, flag, numbered, ready>>
Sleep(w) ==
  /\ at[w] = "sleep" /\ Goto(w, "asleep") /\ Drop(w)
  /\ UNCHANGED <<requested, callbacks, lock, stop, flag, numbered, ready>>
Awake(w) ==
  /\ at[w] = "asleep" /\ at' \in {[at EXCEPT ![w] = "lock"], [at EXCEPT ![w] = "timeout"]}
  /\ at'[w] = "timeout" => w \in TimedWaiters
  /\ UNCHANGED <<requested, callbacks, lock, mutex, stop, flag, numbered, ready>>
Relock(w) ==
  /\ at[w] \in {"lock", "timeout"} /\ Hold(w)
  /\ Goto(w, IF at[w] = "lock" THEN "check" ELSE "unlock")
  /\ UNCHANGED <<requested, callbacks, lock, stop, flag, numbered, ready>>

\* The end: a timed wait drops its mutex before its callback goes; the caller of
\* CondvarWait still holds the mutex when its callback goes.
Unlock(w) ==
  /\ at[w] = "unlock" /\ Goto(w, "remove") /\ Drop(w)
  /\ UNCHANGED <<requested, callbacks, lock, stop, flag, numbered, ready>>
RemoveLocks(w) == w \in numbered => lock = Nobody
RemoveCallback(w) ==
  /\ at[w] = "remove" /\ RemoveLocks(w) /\ Goto(w, "return")
  /\ callbacks' = RemoveFirst(callbacks, w)  \* it has one at most
  /\ UNCHANGED <<requested, lock, mutex, stop, flag, numbered, ready>>
Return(w) ==
  /\ at[w] = "return" /\ Goto(w, "returned")
  /\ IF w \in CondWaiters THEN Drop(w) ELSE UNCHANGED mutex
  /\ UNCHANGED <<requested, callbacks, lock, stop, flag, numbered, ready>>

-----------------------------------------------------------------------------
\* request_stop: the lock is held until the last callback is done.
RequestStop ==
  /\ stop[1] = "idle" /\ lock = Nobody /\ lock' = Stopper /\ requested' = TRUE
  /\ stop' = <<"loop", Nobody>>
  /\ UNCHANGED <<callbacks, mutex, at, flag, numbered, ready>>
NextCallback ==
  /\ stop[1] = "loop" /\ UNCHANGED <<requested, mutex, at, flag, numbered, ready>>
  /\ IF callbacks = <<>>
     THEN stop' = <<"done", Nobody>> /\ lock' = Nobody /\ UNCHANGED callbacks
     ELSE stop' = <<"lock", Head(callbacks)>> /\ callbacks' = Tail(callbacks) /\ UNCHANGED lock
RunCallback ==
  /\ stop[1] = "lock" /\ CallbackLocks(stop[2]) /\ Flagged(stop[2])
  /\ stop' = <<"notify", stop[2]>>
  /\ UNCHANGED <<requested, callbacks, lock, mutex, at, numbered, ready>>
Notify ==
  /\ stop[1] = "notify" /\ at' = Notified(stop[2]) /\ stop' = <<"loop", Nobody>>
  /\ UNCHANGED <<requested, callbacks, lock, mutex, flag, numbered, ready>>

\* Another thread makes the predicate true, with the mutex, and notifies.
Produce ==
  /\ ~ready /\ mutex["shared"] = Nobody /\ ready' = TRUE
  /\ at' = [w \in Waiters |-> IF at[w] = "asleep" /\ w \in CondWaiters THEN "lock" ELSE at[w]]
  /\ UNCHANGED <<requested, callbacks, lock, mutex, stop, flag, numbered>>

StopNext ==
  \/ RequestStop \/ NextCallback \/ RunCallback \/ Notify \/ Produce
  \/ \E w \in Waiters :
       \/ Enter(w) \/ First(w) \/ InsertCallback(w) \/ OwnCallback(w) \/ Check(w) \/ Sleep(w)
       \/ Awake(w) \/ Relock(w) \/ Unlock(w) \/ RemoveCallback(w) \/ Return(w)
StopSpec == StopInit /\ [][StopNext]_stopVars

-----------------------------------------------------------------------------
\* No wait sleeps through a stop: who is asleep after the request still has its
\* callback before it.  No callback touches a wait that has returned.  And a
\* timed wait cannot hold what its callback waits for while it waits for the
\* lock (polyfill_thread.h:61-113, 326-371).  CondvarWait can: it asks for the
\* lock with the mutex held, which request_stop takes the other way round.
StopReachesWaits ==
  /\ \A w \in Waiters : at[w] = "asleep" /\ requested =>
       stop[2] = w \/ w \in Range(callbacks)
  /\ stop[2] # Nobody => at[stop[2]] \notin {"outside", "returned", "return"}
  /\ \A w \in TimedWaiters :
       mutex[w] = w => at[w] \notin {"first", "insert", "self", "remove"}
=============================================================================
