----------------------------- MODULE GuiSession -----------------------------
(***************************************************************************)
(* The Qt front end as it runs: the window (PkgXtractorWindow of            *)
(* tools/pkgxtractor/gui.cpp) on the user interface thread, one worker      *)
(* thread at a time (ExtractionWorker), the queue of signals between them,  *)
(* and what survives on disk when the program quits or dies and is started  *)
(* again: the crash marker, the progress file and the target folder.        *)
(***************************************************************************)
EXTENDS ExtractionWorker

VARIABLES
  session,    \* "down", "up", or "exiting": aboutToQuit has run, the process lives
  thread,     \* the QThread: "none", "running", "quit" once quit() was called
  enabled,    \* the Extract, Preview, Compare and Rename buttons
  barMax,     \* m_progressBar's maximum
  barValue,   \* and its value
  opened,     \* the folder was shown to the user after this job
  marker, up, leaving, warned, latest, lastEnd, before

guiVars == <<session, thread, enabled, barMax, barValue, opened>>

Gui == "gui"
Mark == INSTANCE CrashMarker WITH Instances <- {Gui}

markVars == <<marker, up, leaving, warned, latest, lastEnd, before>>
vars == <<workerVars, guiVars, markVars>>

DefaultMax == 100   \* a new QProgressBar runs from 0 to 100, its value is -1

Init ==
  /\ WorkerInit
  /\ Mark!MarkerInit
  /\ session = "down" /\ thread = "none" /\ enabled = FALSE
  /\ barMax = DefaultMax /\ barValue = -1
  /\ opened = FALSE

(***************************************************************************)
(* The process.                                                             *)
(***************************************************************************)
\* What the user sees of a window without a job, and of no window at all.
NoWindow ==
  barMax' = DefaultMax /\ barValue' = -1 /\ opened' = FALSE

\* main() makes a window: what was in memory is new, what was on disk stays.
Start ==
  /\ session = "down"
  /\ Mark!Startup(Gui)
  /\ session' = "up" /\ thread' = "none" /\ enabled' = TRUE
  /\ NoWindow
  /\ pc' = "idle" /\ uiQueue' = <<>>
  /\ Counts(lastEnd' = "unmarked")
  /\ UNCHANGED <<jobVars, fileVars, progressVars>>

\* The user closes the window.  Nothing waits for a worker that runs.
AboutToQuit ==
  /\ session = "up"
  /\ Mark!Quit(Gui)
  /\ session' = "exiting" /\ enabled' = FALSE /\ uiQueue' = <<>>
  /\ NoWindow
  /\ Counts(marker')
  /\ UNCHANGED <<pc, jobVars, fileVars, progressVars, thread>>

\* An entry that was being written may be left begun.
ProcessGone ==
  /\ session' = "down" /\ thread' = "none" /\ enabled' = FALSE
  /\ WorkerGone /\ uiQueue' = <<>>
  /\ NoWindow
  /\ UNCHANGED fileVars \/ (pc = "write" /\ Leaves("partial"))
  /\ UNCHANGED <<progressVars, faults>>

\* main() returns and takes the worker's thread with it.
Exit ==
  /\ session = "exiting"
  /\ Mark!Exit(Gui)
  /\ ProcessGone

\* The process dies, with its window up or on its way out.
Crash ==
  /\ \/ session = "up" /\ Mark!Crash(Gui)
     \/ session = "exiting" /\ Mark!Late(Gui)
  /\ ProcessGone

(***************************************************************************)
(* The user.                                                                *)
(***************************************************************************)
\* startWorker: Extract or Preview was pressed.  The buttons are disabled, the
\* bar is set to 0 under the maximum of the job before, a worker is made.
StartWorker ==
  /\ session = "up" /\ enabled
  /\ enabled' = FALSE
  /\ barValue' = 0 /\ opened' = FALSE
  /\ thread' = "running"
  /\ \E preview, salvageMode \in BOOLEAN : NewJob(preview, salvageMode)
  /\ UNCHANGED <<out, folder, checkpoint, faults, uiQueue, session, barMax,
                 markVars>>

\* The user names another output folder: one that does not exist, or is empty.
PickFolder ==
  /\ session = "up" /\ enabled
  /\ folder' \in {"missing", "empty"}
  /\ out' = [i \in Entries |-> "untouched"]
  /\ by' = [i \in Entries |-> Nobody]
  /\ cpMine' = FALSE /\ opened' = FALSE
  /\ UNCHANGED <<pc, jobVars, checkpoint, cpLate, faults, uiQueue, session, thread, enabled,
                 barMax, barValue, markVars>>

(***************************************************************************)
(* The two threads.                                                         *)
(***************************************************************************)
\* The worker's thread runs extract(), also while the process is on its way out.
RunWorker ==
  /\ thread = "running"
  /\ WorkerStep
  /\ UNCHANGED <<guiVars, markVars>>

\* quit() ends the thread's event loop, and QThread::finished is posted.
ThreadEnds ==
  /\ thread = "quit"
  /\ thread' = "none" /\ WorkerGone
  /\ uiQueue' = Append(uiQueue, ThreadFinished)
  /\ UNCHANGED <<diskVars, session, enabled, barMax, barValue, opened,
                 markVars>>

\* QProgressBar::setMaximum: a value beyond the new maximum is reset.
SetMaximum(n) ==
  /\ barMax' = n
  /\ barValue' = IF barValue > n THEN -1 ELSE barValue
  /\ UNCHANGED <<thread, enabled, opened>>

\* QProgressBar::setValue: a value beyond the maximum is ignored.
SetValue(n) ==
  /\ barValue' = IF n > barMax /\ barMax # 0 THEN barValue ELSE n
  /\ UNCHANGED <<barMax, thread, enabled, opened>>

OpenUrl ==
  /\ opened' = TRUE
  /\ UNCHANGED <<barMax, barValue, thread, enabled>>

\* Mutation: the buttons come back with the worker's signal, not the thread's.
QuitThreadAndEnable ==
  /\ thread' = "quit"
  /\ enabled' = TRUE
  /\ UNCHANGED <<barMax, barValue, opened>>

\* The slot quit of the thread object, which lives on the window's thread.
QuitThread ==
  /\ thread' = "quit"
  /\ UNCHANGED <<barMax, barValue, enabled, opened>>

EnableButtons ==
  /\ enabled' = TRUE
  /\ UNCHANGED <<barMax, barValue, thread, opened>>

\* The window's event loop takes the oldest posted signal to its slot.
Deliver ==
  /\ session = "up" /\ uiQueue # <<>>
  /\ uiQueue' = Tail(uiQueue)
  /\ LET signal == Head(uiQueue) IN
       \/ signal.kind = "setMax" /\ SetMaximum(signal.value)
       \/ signal.kind = "progress" /\ SetValue(signal.value)
       \/ signal.kind = "openFolder" /\ OpenUrl
       \/ signal.kind = "finished" /\ QuitThread
       \/ signal.kind = "threadFinished" /\ EnableButtons
  /\ UNCHANGED <<pc, jobVars, diskVars, session, markVars>>

Next ==
  \/ Start \/ AboutToQuit \/ Exit \/ Crash
  \/ StartWorker \/ PickFolder
  \/ RunWorker \/ ThreadEnds \/ Deliver

\* While one of the two threads can run, the system runs one; the user and
\* crashes are not scheduled.  PKG::Extract need not return: GetPFSCOffset, which
\* it calls, may search for ever (see PfscScan), so no step is promised while the
\* worker is inside it.
Fairness ==
  WF_vars((RunWorker /\ pc # "unpack") \/ ThreadEnds \/ Deliver)

Spec == Init /\ [][Next]_vars
FairSpec == Spec /\ Fairness
=============================================================================
