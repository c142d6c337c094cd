-------------------------- MODULE GuiSessionProps --------------------------
(***************************************************************************)
(* What makes the Qt front end correct.                                     *)
(***************************************************************************)
EXTENDS GuiSession

TypeOK ==
  /\ pc \in Stages \cup {"idle", "done"}
  /\ attempt \in 1 .. MaxAttempts
  /\ salvage \in BOOLEAN /\ previewOnly \in BOOLEAN /\ aborted \in BOOLEAN
  /\ total \in 0 .. MaxEntries /\ index \in 0 .. MaxEntries
  /\ failed \in 0 .. MaxEntries
  /\ errors \subseteq Entries /\ skipped \subseteq Entries /\ nonFiles \subseteq Entries
  /\ place \in [Entries -> Entries] /\ by \in [Entries -> Entries \cup {Nobody}]
  /\ out \in [Entries -> {"untouched", "partial", "cut", "whole"}]
  /\ folder \in {"missing", "empty", "full"} /\ blind \in BOOLEAN
  /\ checkpoint \in -1 .. MaxEntries /\ cpMine \in BOOLEAN /\ cpLate \in BOOLEAN
  /\ faults \in 0 .. MaxFaults
  /\ uiQueue \in Seq(Signals)
  /\ session \in {"down", "up", "exiting"}
  /\ thread \in {"none", "running", "quit"}
  /\ enabled \in BOOLEAN /\ opened \in BOOLEAN
  /\ barMax \in Nat /\ barValue \in Int
  /\ marker \in BOOLEAN /\ up \subseteq {Gui} /\ leaving \subseteq {Gui}
  /\ warned \subseteq {Gui} /\ latest \subseteq {Gui} /\ lastEnd \in Mark!Ends
  /\ before \in [{Gui} -> Mark!Ends]

\* What an entry's path holds is all of the entry, and the entry's own.
Whole(i) == out[place[i]] = "whole" /\ by[place[i]] = i

\* The two losses no code of the program notices: the disk refused the end of
\* the file (WriteRaw and Close drop the error), and a later entry that has the
\* same path was written over it.
LostUnseen(i) ==
  \/ by[place[i]] = i /\ out[place[i]] = "cut"
  \/ by[place[i]] > i

\* An entry is resolved when it is on disk, was no file, is reported, or was
\* lost in one of those two ways.
Resolved(i) == Whole(i) \/ i \in nonFiles \/ i \in errors \/ LostUnseen(i)

\* Inside the loop and after it, every entry before the loop's index is
\* resolved, no entry from the index on has been written and none after it is
\* reported; the failure count is the number of reported entries, and only
\* salvage mode skips (the loop of extract()).
EntriesAccounted ==
  pc \in LoopStages \cup {"report", "finish"} =>
    /\ \A i \in Entries :
         /\ i < index => Resolved(i)
         /\ by[i] < index
         /\ i > index => i \notin errors
    /\ failed = Cardinality(errors)
    /\ skipped \subseteq errors /\ (skipped # {} => salvage)
    /\ aborted => index \in errors /\ ~salvage
    /\ pc \in {"report", "finish"} /\ ~aborted => index = total

\* The progress file says no more than is true, also after a crash: every entry
\* before the one that this job wrote there is resolved.  It names the entry in
\* work, none after it begun, unless the file could not be opened since
\* (writeProgressCheckpoint, read by the next start).
CheckpointBracketsWork ==
  cpMine /\ checkpoint > 0 =>
    \A i \in Entries :
      /\ i < checkpoint - 1 => Resolved(i)
      /\ ~cpLate => by[i] < checkpoint

\* The folder is shown to the user only after an extraction in which no entry
\* failed and every entry of the package was resolved: a preview, a job left
\* early and a job with any reported entry never show it.  (A shown folder may
\* still lack what LostUnseen names: the code cannot tell.)
ShownFolderHidesNoFailure ==
  opened \/ (\E k \in DOMAIN uiQueue : uiQueue[k] = OpenFolder) =>
    /\ ~previewOnly /\ errors = {}
    /\ \A i \in 0 .. total - 1 : Resolved(i)

\* A file that an earlier job has begun is never written again, unless the user
\* names another folder or the guardrail could not look at the full one; a file
\* of this job only by a later entry that has the same path.
NothingOverwritten ==
  [][\A f \in Entries :
       out[f] # "untouched" =>
         \/ out'[f] = out[f] /\ by'[f] \in {by[f], Nobody}
         \/ by[f] # Nobody /\ by[f] < by'[f] /\ place[by'[f]] = f
         \/ blind \/ folder' # "full"]_vars

\* The buttons are enabled only when no worker exists, its thread is gone and
\* none of its signals is still to be delivered.
EnabledMeansQuiet ==
  enabled => /\ session = "up" /\ thread = "none" /\ pc = "idle"
             /\ uiQueue = <<>>

\* A start warns of a crash exactly when the run before died with its window
\* up, provided that run could write its marker and remove it.
WarnedIffCrashed == Mark!WarnedIffCrashed

\* The window shows a job as JobView promises: no progress signal is dropped by
\* the bar, repeated or taken out of order.
View == INSTANCE JobView
          WITH busy <- session = "up" /\ ~enabled, shown <- barValue, of <- barMax
ViewSpec == View!ViewSpec

\* A job that starts comes to PKG::Extract or ends, and a job whose Extract has
\* returned ends: the buttons come back, unless the program goes away first.
JobEnds ==
  session = "up" /\ ~enabled /\ pc # "unpack"
    ~> enabled \/ session # "up" \/ pc = "unpack"
=============================================================================
