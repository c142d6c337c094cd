----------------------------- MODULE LogBackend -----------------------------
(***************************************************************************)
(* The log: threads that push messages, the queue between them and the log  *)
(* thread, the backends it writes to, and the program's main thread that    *)
(* initializes, starts, stops and removes the log.                          *)
(*                                                                          *)
(* The queue is the one of BoundedFifo, which the detailed queue is shown   *)
(* to implement.  A message is a record of its number, class and level; the *)
(* length of every message is 1.  The console shows what the file gets,     *)
(* without its limit, and is left out.                                      *)
(***************************************************************************)
EXTENDS LogFilter, FiniteSets

CONSTANTS
  Threads,     \* the threads that log
  Kinds,       \* the classes and levels they log with
  Capacity,    \* of the queue
  MaxLogs,     \* messages written after a stop (100 in the code)
  WriteLimit,  \* of the file, in messages (100 MB in the code)
  MaxMessages, \* bound on the messages of one run
  MaxStarts    \* bound on Start and on Initialize

ASSUME LogAssumption ==
  /\ Capacity \in Nat \ {0} /\ MaxLogs \in Nat /\ WriteLimit \in Nat
  /\ MaxMessages \in Nat /\ MaxStarts \in Nat
  /\ Kinds \subseteq Classes \X Levels

VARIABLES
  async,     \* Config::getLogType() = "async"
  rules,     \* Config::getLogFilter()
  append,    \* should_append
  main,      \* the main thread: "off", "up", "running", "joining"
  filter,    \* the class levels of the instance
  queue,     \* message_queue
  holds,     \* the message each thread is pushing, or None
  log,       \* the log thread
  entry,     \* the entry it holds, or None
  stop,      \* a stop is requested of it
  budget,    \* max_logs_to_write
  file,      \* the messages in the file
  enabled, bytes,   \* of FileBackend
  numbered,  \* messages made so far
  starts,
  sent,      \* history: what entered the queue since Initialize, in order
  base,      \* history: the length of the file at Initialize
  owed       \* history: what a requested stop owes to the file

queueVars == <<queue, holds>>
logVars == <<log, entry, budget>>
fileVars == <<file, enabled, bytes>>
settings == <<async, rules, append>>
vars == <<settings, main, filter, queueVars, logVars, stop, fileVars, numbered,
          starts, sent, base, owed>>

None == [id |-> 0]
Elements(s) == {s[k] : k \in DOMAIN s}

LogInit ==
  /\ async \in BOOLEAN /\ append \in BOOLEAN /\ rules \in RuleStrings
  /\ main = "off" /\ filter = ResetAll(Info)
  /\ queue = <<>> /\ holds = [t \in Threads |-> None]
  /\ log = "none" /\ entry = None /\ stop = FALSE /\ budget = 0
  /\ file = <<>> /\ enabled = TRUE /\ bytes = 0
  /\ numbered = 0 /\ starts = 0 /\ sent = <<>> /\ base = 0 /\ owed = {}

-----------------------------------------------------------------------------
\* Impl::Initialize: the filter is parsed and the file opened, anew or behind
\* what it holds.  Called again it only warns.
Initialize ==
  /\ main = "off" /\ starts < MaxStarts
  /\ starts' = starts + 1
  /\ main' = "up"
  /\ filter' = ParseFilterString(rules)
  /\ file' = IF append THEN file ELSE <<>>
  /\ enabled' = TRUE /\ bytes' = 0
  /\ queue' = <<>> /\ sent' = <<>> /\ base' = Len(file') /\ owed' = {}
  /\ UNCHANGED <<settings, holds, logVars, stop, numbered>>

\* Impl::Start: a thread with an empty entry and a stop state of its own.
Start ==
  /\ main = "up" /\ starts < MaxStarts
  /\ starts' = starts + 1
  /\ main' = "running" /\ log' = "loop" /\ entry' = None /\ stop' = FALSE
  /\ owed' = {}
  /\ UNCHANGED <<settings, filter, queueVars, budget, fileVars, numbered, sent, base>>

\* StopBackendThread: request_stop, then join.  On a log that was not started
\* both do nothing.
RequestStop ==
  /\ main = "running"
  /\ main' = "joining" /\ stop' = TRUE
  /\ owed' = IF IsDebug(filter) \/ Len(queue) <= MaxLogs THEN Elements(sent) ELSE {}
  /\ UNCHANGED <<settings, filter, queueVars, logVars, fileVars, numbered, starts, sent, base>>

Join ==
  /\ main = "joining" /\ log = "ended"
  /\ main' = "up" /\ log' = "none"
  /\ UNCHANGED <<settings, filter, queueVars, entry, budget, stop, fileVars, numbered, starts,
                 sent, base, owed>>

\* Denitializer: Stop, then the instance goes.  Callers keep it from threads
\* that are still inside a call.
Denitializer ==
  /\ main = "up" /\ \A t \in Threads : holds[t] = None
  /\ main' = "off"
  /\ UNCHANGED <<settings, filter, queueVars, logVars, stop, fileVars, numbered, starts, sent,
                 base, owed>>

-----------------------------------------------------------------------------
\* FileBackend::Write of message m by any thread: nothing once the limit was
\* passed; a message may pass it and is the last one then.
Write(m) ==
  IF ~enabled THEN UNCHANGED fileVars
  ELSE /\ file' = Append(file, m)
       /\ bytes' = bytes + 1
       /\ enabled' = (bytes' <= WriteLimit)

\* The same by a thread that logs, which no lock keeps from another one: an
\* addition to bytes_written may be lost.
WriteUnlocked(m) ==
  \/ Write(m)
  \/ enabled /\ file' = Append(file, m) /\ UNCHANGED <<enabled, bytes>>

\* FmtLogMessageImpl and PushEntry up to the queue: nothing happens before
\* Initialize, nor with a message the filter holds back.  A second Initialize is
\* no more than such a message, a warning.
Push(t, class, level) ==
  /\ holds[t] = None /\ main # "off" /\ numbered < MaxMessages
  /\ numbered' = numbered + 1
  /\ CheckMessage(filter, class, level)
  /\ LET m == [id |-> numbered', class |-> class, level |-> level] IN
     IF async THEN holds' = [holds EXCEPT ![t] = m] /\ UNCHANGED fileVars
              ELSE WriteUnlocked(m) /\ UNCHANGED holds
  /\ UNCHANGED <<settings, main, filter, queue, logVars, stop, starts, sent, base, owed>>

\* EmplaceWait: waits for room, with no regard to a stop.
EmplaceWait(t) ==
  /\ holds[t] # None /\ Len(queue) < Capacity
  /\ queue' = Append(queue, holds[t])
  /\ sent' = Append(sent, holds[t])
  /\ holds' = [holds EXCEPT ![t] = None]
  /\ UNCHANGED <<settings, main, filter, logVars, stop, fileVars, numbered, starts, base, owed>>

-----------------------------------------------------------------------------

\* Mutation: nothing is drained after a stop.
LogLoopNoDrain ==
  /\ log = "loop"
  /\ log' = IF stop THEN "ended" ELSE "wait"
  /\ UNCHANGED <<entry, queue, budget>>

\* The log thread.  while (!stop_requested())
LogLoop ==
  /\ log = "loop"
  /\ log' = IF stop THEN "drain" ELSE "wait"
  /\ budget' = IF ~stop THEN budget
               ELSE IF IsDebug(filter) THEN MaxMessages + 1 ELSE MaxLogs
  /\ UNCHANGED <<entry, queue>>

\* Mutation: a stop does not end the wait.
PopWaitDeaf ==
  /\ log = "wait" /\ queue # <<>>
  /\ entry' = Head(queue) /\ queue' = Tail(queue)
  /\ log' = "write"
  /\ UNCHANGED budget

\* PopWait(entry, token): an entry, or with a stop none; entry then still is
\* what it was in the turn before, and is written if it is not empty.
PopWait ==
  /\ log = "wait" /\ (stop \/ queue # <<>>)
  /\ IF stop THEN UNCHANGED <<entry, queue>>
             ELSE entry' = Head(queue) /\ queue' = Tail(queue)
  /\ log' = IF entry' # None THEN "write" ELSE "loop"
  /\ UNCHANGED budget

LogWrite ==
  /\ log \in {"write", "drainwrite"}
  /\ Write(entry)
  /\ log' = IF log = "write" THEN "loop" ELSE "drain"
  /\ UNCHANGED <<entry, budget, queue>>

\* while (max_logs_to_write-- && TryPop(entry))
LogDrain ==
  /\ log = "drain"
  /\ IF budget > 0 /\ queue # <<>>
     THEN /\ entry' = Head(queue) /\ queue' = Tail(queue)
          /\ budget' = budget - 1
          /\ log' = "drainwrite"
     ELSE log' = "ended" /\ UNCHANGED <<entry, budget, queue>>

LogThread ==
  /\ LogLoop \/ PopWait \/ LogWrite \/ LogDrain
  /\ log # "write" /\ log # "drainwrite" => UNCHANGED fileVars
  /\ UNCHANGED <<settings, main, filter, holds, stop, numbered, starts, sent, base, owed>>

LogNext ==
  \/ Initialize \/ Start \/ RequestStop \/ Join \/ Denitializer \/ LogThread
  \/ \E t \in Threads : EmplaceWait(t) \/ \E k \in Kinds : Push(t, k[1], k[2])

\* The log thread and the thread that joins it are scheduled; nothing is asked
\* of the threads that log.
LogFairness == WF_vars(LogThread) /\ WF_vars(Join)
LogSpec == LogInit /\ [][LogNext]_vars /\ LogFairness

-----------------------------------------------------------------------------
Session == SubSeq(file, base + 1, Len(file))

\* The places up to k of what repeats the message before it.
Repeats(s, k) == {j \in 2 .. k : s[j] = s[j - 1]}

\* Without its repeats s is the beginning of t.
Begins(s, t) ==
  \A k \in 1 .. Len(s) :
    LET n == k - Cardinality(Repeats(s, k)) IN n <= Len(t) /\ s[k] = t[n]

\* The file of an asynchronous log is the beginning of what the threads pushed,
\* in the order the queue took it, whatever stops and starts came between.  A
\* stop may repeat the last message, once (backend.cpp:242-247), and the file
\* ends with the message that passes the limit (backend.cpp:67-82).  When Stop
\* returns, every message whose push had returned before the stop is in the file,
\* unless the file is full or more than MaxLogs were waiting and no class is set
\* to Debug (backend.cpp:248-253).
FileIsTheAccepted ==
  /\ async => /\ Begins(Session, sent)
              /\ Cardinality(Repeats(Session, Len(Session))) < starts \/ starts = 0
              /\ Len(Session) <= WriteLimit + 1
  /\ main = "up" /\ enabled => owed \subseteq Elements(Session)

\* Every class has the level of the last rule of the filter string that speaks
\* of it, "with each rule overriding previous ones" (filter.h:45), and nothing
\* below its class's level is in the file.
FilterAsWritten ==
  main # "off" =>
    \A c \in Classes :
      /\ filter[c] = LevelSaid(rules, c)
      /\ \A k \in 1..Len(Session) : Session[k].class = c => Session[k].level >= LevelSaid(rules, c)

\* Stop returns, however the threads that log go on: the log thread is woken
\* from an empty queue and does not drain for ever (backend.cpp:248-264).
StopReturns == main = "joining" ~> main = "up"
=============================================================================
