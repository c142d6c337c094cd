---------------------------- MODULE CrashMarker ----------------------------
(***************************************************************************)
(* The crash marker of the Qt front end: a file beside the executable that  *)
(* is written when the window is made, removed when the application is      *)
(* about to quit, and taken at the next start for the trace of a crash.     *)
(* Instances are the copies of the program that share the directory.        *)
(*                                                                          *)
(* The file may fail to open or to be removed; nobody looks.                *)
(*                                                                          *)
(* lastEnd and before are history: how the run that started last has ended, *)
(* and what that was when an instance came up.                              *)
(***************************************************************************)
CONSTANT Instances

VARIABLES
  marker,    \* the file pkgxtractor-qt.state exists
  up,        \* the instances whose window exists
  leaving,   \* the instances past aboutToQuit whose process still lives
  warned,    \* the instances up that told their user of a crash at start
  latest,    \* the instances that are the run that started last
  lastEnd,   \* how the run that started last has ended
  before     \* lastEnd as each instance that is up found it

markerVars == <<marker, up, leaving, warned, latest, lastEnd, before>>

\* "unmarked": its marker could not be opened.  "kept": it quit and its marker
\* could not be removed.  "late": it died after it had removed its marker.
MarkerFailed == {"unmarked", "kept"}
Ends == {"clean", "running", "crash", "late"} \cup MarkerFailed

MarkerInit ==
  /\ marker = FALSE
  /\ up = {} /\ leaving = {} /\ warned = {} /\ latest = {}
  /\ lastEnd = "clean"
  /\ before = [p \in Instances |-> "clean"]

\* The constructor: warn when the file is there, then write it.
Startup(p) ==
  /\ p \notin up \cup leaving
  /\ warned' = IF marker THEN warned \cup {p} ELSE warned \ {p}
  /\ up' = up \cup {p}
  /\ latest' = {p}
  /\ before' = [before EXCEPT ![p] = lastEnd]
  /\ \/ marker' = TRUE /\ lastEnd' = "running"
     \/ lastEnd' = "unmarked" /\ UNCHANGED marker
  /\ UNCHANGED leaving

\* The run of p ends; a run whose marker failed is not told from any other.
Ended(p, how) ==
  lastEnd' = IF p \in latest /\ lastEnd \notin MarkerFailed THEN how ELSE lastEnd

WindowGone(p) ==
  /\ up' = up \ {p} /\ warned' = warned \ {p}
  /\ before' = [before EXCEPT ![p] = "clean"]
  /\ UNCHANGED latest

\* Mutation: a clean quit leaves the marker.
QuitKeepsMarker(p) ==
  /\ p \in up
  /\ Ended(p, "clean")
  /\ WindowGone(p)
  /\ leaving' = leaving \cup {p}
  /\ UNCHANGED marker

\* aboutToQuit: the marker goes, if it can be removed.
Quit(p) ==
  /\ p \in up
  /\ \/ marker' = FALSE /\ Ended(p, "clean")
     \/ marker /\ UNCHANGED marker /\ Ended(p, "kept")
  /\ WindowGone(p)
  /\ leaving' = leaving \cup {p}

\* main() returns.
Exit(p) ==
  /\ p \in leaving
  /\ leaving' = leaving \ {p}
  /\ UNCHANGED <<marker, up, warned, latest, lastEnd, before>>

\* The process dies with its window up: the marker stays.
Crash(p) ==
  /\ p \in up
  /\ Ended(p, "crash")
  /\ WindowGone(p)
  /\ UNCHANGED <<marker, leaving>>

\* The process dies after aboutToQuit: a crash that leaves no marker.
Late(p) ==
  /\ p \in leaving
  /\ leaving' = leaving \ {p}
  /\ Ended(p, "late")
  /\ UNCHANGED <<marker, up, warned, latest, before>>

MarkerNext ==
  \E p \in Instances : Startup(p) \/ Quit(p) \/ Exit(p) \/ Crash(p) \/ Late(p)

MarkerSpec == MarkerInit /\ [][MarkerNext]_markerVars

-----------------------------------------------------------------------------
\* An instance tells its user that the previous run crashed exactly when the
\* run that started before it died with its window up: "if marker exists on
\* startup, previous run did not exit cleanly" (gui.cpp:942).  A run whose
\* marker could not be written or removed is left aside, and a death after
\* aboutToQuit is one that nobody is told of.
WarnedIffCrashed ==
  \A p \in up : before[p] \notin MarkerFailed =>
                  (p \in warned <=> before[p] = "crash")
=============================================================================
