-------------------------- MODULE ExtractionWorker --------------------------
(***************************************************************************)
(* The worker object of the Qt front end: ExtractionWorker::extract() of    *)
(* tools/pkgxtractor/gui.cpp, one action per stage of the function.  It     *)
(* runs on its own thread, reports to the window by queued signals, keeps a *)
(* progress file on disk and writes one output per entry of the package's   *)
(* file table.                                                              *)
(*                                                                          *)
(* Entries are numbered from 0, as fsTable is.  What a package holds is     *)
(* chosen step by step: which entries share an output path, whether         *)
(* CanExtractFile accepts an entry, whether ExtractFiles returns or throws, *)
(* and what either leaves on disk.  The disk may fail at any write: what    *)
(* WriteRaw could not flush and Close could not finish raises nothing, so   *)
(* an entry may be cut short though ExtractFiles returned.                  *)
(***************************************************************************)
EXTENDS Integers, Sequences, FiniteSets

CONSTANTS
  MaxEntries,   \* bound on the size of the file table
  MaxFaults     \* bound on the failures of the file system nobody notices

ASSUME MaxEntriesAssumption == MaxEntries \in Nat
ASSUME MaxFaultsAssumption == MaxFaults \in Nat

VARIABLES
  pc,           \* the stage extract() has reached; "idle" when no worker exists
  attempt,      \* OpenPkgWithRetry's counter
  salvage,      \* m_salvageMode
  previewOnly,  \* m_previewOnly
  total,        \* files_count
  index,        \* the loop's index
  failed,       \* failed_files
  errors,       \* the entries named in extraction_error_entries
  skipped,      \* the entries named in salvage_skipped_entries
  aborted,      \* aborted_early
  nonFiles,     \* history: the entries ExtractFiles passed over as no files
  place,        \* the output path of each entry: the first entry that has the same
  out,          \* what is on disk at each path
  by,           \* history: the entry of this job that last wrote to a path
  folder,       \* the target folder
  blind,        \* history: the guardrail could not look at a folder that was full
  checkpoint,   \* the progress file: NoFile, Truncated, or its "current" value
  cpMine,       \* history: this job wrote the progress file
  cpLate,       \* history: it could not be opened for the entries since
  faults,       \* history: the failures of the file system nobody noticed
  uiQueue       \* signals posted to the window's thread, in order

jobVars == <<attempt, salvage, previewOnly, total, index, failed, errors,
             skipped, aborted, nonFiles, place, blind>>
fileVars == <<out, by, folder>>
progressVars == <<checkpoint, cpMine, cpLate>>
diskVars == <<fileVars, progressVars, faults>>
workerVars == <<pc, jobVars, diskVars, uiQueue>>

Entries == 0 .. MaxEntries - 1
MaxAttempts == 3            \* OpenPkgWithRetry's default

Nobody == -1
NoFile == -1
Truncated == 0

Signals == [kind : {"setMax", "progress"}, value : 0 .. MaxEntries + 1]
             \cup [kind : {"openFolder", "finished", "threadFinished"},
                   value : {0}]

Max(n) == [kind |-> "setMax", value |-> n]
Progress(n) == [kind |-> "progress", value |-> n]
OpenFolder == [kind |-> "openFolder", value |-> 0]
Finished == [kind |-> "finished", value |-> 0]
ThreadFinished == [kind |-> "threadFinished", value |-> 0]

Stages == {"check", "open", "guard", "unpack", "head", "truncated", "preflight",
           "write", "report", "finish"}
LoopStages == {"head", "truncated", "preflight", "write"}

\* A step in which the file system fails, unseen, if unseen holds.
Counts(unseen) ==
  /\ faults' = IF unseen THEN faults + 1 ELSE faults
  /\ faults' <= MaxFaults

(***************************************************************************)
(* A job that ends: the last signal is posted and extract() returns.        *)
(***************************************************************************)
FinishWith(signals) ==
  /\ uiQueue' = uiQueue \o signals \o <<Finished>>
  /\ pc' = "done"

\* exists() and DetectFileType: the file is there and is a PKG, or the job ends.
Check ==
  /\ pc = "check"
  /\ \/ pc' = "open" /\ UNCHANGED uiQueue
     \/ FinishWith(<<>>)
  /\ UNCHANGED <<jobVars, diskVars>>

\* One turn of OpenPkgWithRetry around PKG::Open; its counter is gone when it
\* returns.
OpenAttempt ==
  /\ pc = "open"
  /\ \/ pc' = "guard" /\ attempt' = 1 /\ UNCHANGED uiQueue
     \/ attempt < MaxAttempts /\ attempt' = attempt + 1 /\ UNCHANGED <<pc, uiQueue>>
     \/ attempt = MaxAttempts /\ FinishWith(<<>>) /\ attempt' = 1
  /\ UNCHANGED <<salvage, previewOnly, total, index, failed, errors, skipped,
                 aborted, nonFiles, place, blind, diskVars>>

\* Mutation: the guardrail is gone.
GuardDropped ==
  /\ pc = "guard"
  /\ pc' = "unpack"
  /\ UNCHANGED <<jobVars, diskVars, uiQueue>>

\* The guardrail: a target folder that holds anything is refused, and one that
\* cannot be listed.  DirectoryHasEntries answers false when exists() itself
\* reports an error, whatever the folder holds.
Guard ==
  /\ pc = "guard"
  /\ \/ folder # "missing" /\ FinishWith(<<>>) /\ UNCHANGED blind
     \/ pc' = "unpack" /\ blind' = (folder = "full") /\ UNCHANGED uiQueue
  /\ Counts(pc' = "unpack" /\ folder = "full")
  /\ UNCHANGED <<attempt, salvage, previewOnly, total, index, failed, errors,
                 skipped, aborted, nonFiles, place, fileVars, progressVars>>

\* What create_directories and PKG::Extract may leave in the target folder.
FolderAfterUnpack(f) == {"full"} \cup IF f = "missing" THEN {"missing", "empty"}
                                                       ELSE {f}

\* PKG::Extract returns false or throws: the job ends, and what Extract wrote
\* so far stays.
UnpackFails ==
  /\ pc = "unpack"
  /\ folder' \in FolderAfterUnpack(folder)
  /\ FinishWith(<<>>)
  /\ UNCHANGED <<jobVars, out, by, progressVars, faults>>

\* QFile::remove of the progress file, whose result nobody reads.
ClearProgressCheckpoint ==
  /\ checkpoint' \in {NoFile, checkpoint}
  /\ Counts(checkpoint' # NoFile)
  /\ UNCHANGED <<cpMine, cpLate>>

\* Preview mode: the tables and filelist.txt are written, and nothing else.
PreviewDone ==
  /\ pc = "unpack" /\ previewOnly
  /\ folder' \in FolderAfterUnpack(folder)
  /\ ClearProgressCheckpoint
  /\ FinishWith(<<Max(1), Progress(1)>>)
  /\ UNCHANGED <<jobVars, out, by>>

\* The paths of a table of n entries: two names may be sanitized to one.
Paths(n) ==
  {p \in [Entries -> Entries] :
     \A i \in Entries : /\ p[i] <= i /\ p[p[i]] = p[i]
                       /\ i >= n => p[i] = i}

\* The file table is known: the loop starts at entry 0.
UnpackDone ==
  /\ pc = "unpack" /\ ~previewOnly
  /\ folder' \in FolderAfterUnpack(folder)
  /\ \E n \in 0 .. MaxEntries :
       /\ total' = n
       /\ place' \in Paths(n)
       /\ uiQueue' = Append(uiQueue, Max(n))
  /\ index' = 0
  /\ pc' = "head"
  /\ UNCHANGED <<attempt, salvage, previewOnly, failed, errors, skipped, aborted,
                 nonFiles, blind, out, by, progressVars, faults>>
\* The loop test and, inside the loop, writeProgressCheckpoint: the file is
\* opened with Truncate, then its lines are written.  When it cannot be opened
\* the entry is worked on all the same, and the old file stays.
LoopHead ==
  /\ pc = "head"
  /\ \/ /\ index < total
        /\ checkpoint' = Truncated /\ cpMine' = TRUE /\ cpLate' = FALSE
        /\ pc' = "truncated" /\ Counts(FALSE)
     \/ /\ index < total
        /\ cpLate' = TRUE /\ UNCHANGED <<checkpoint, cpMine>>
        /\ pc' = "preflight" /\ Counts(TRUE)
     \/ /\ index = total
        /\ pc' = "report"
        /\ UNCHANGED <<progressVars, faults>>
  /\ UNCHANGED <<jobVars, fileVars, uiQueue>>

\* Mutation: the progress file names the entries done, not the entry in work.
CheckpointOfDone ==
  /\ pc = "truncated"
  /\ checkpoint' = index
  /\ pc' = "preflight"
  /\ UNCHANGED <<jobVars, fileVars, cpMine, cpLate, faults, uiQueue>>

\* The lines reach the file, or the disk refuses them and it stays empty.
WriteCheckpoint ==
  /\ pc = "truncated"
  /\ checkpoint' \in {Truncated, index + 1}
  /\ Counts(checkpoint' = Truncated)
  /\ pc' = "preflight"
  /\ UNCHANGED <<jobVars, fileVars, cpMine, cpLate, uiQueue>>

\* The bookkeeping of an entry that failed, in preflight or while written.
RecordFailure ==
  /\ failed' = failed + 1
  /\ errors' = errors \cup {index}

\* Mutation: a skipped entry is not counted in the progress bar.
PreflightFailsSilently ==
  /\ pc = "preflight"
  /\ RecordFailure
  /\ \/ /\ salvage
        /\ skipped' = skipped \cup {index}
        /\ index' = index + 1 /\ pc' = "head"
        /\ UNCHANGED <<aborted, uiQueue>>
     \/ /\ ~salvage
        /\ aborted' = TRUE
        /\ uiQueue' = Append(uiQueue, Progress(index + 1))
        /\ pc' = "report"
        /\ UNCHANGED <<skipped, index>>
  /\ UNCHANGED <<attempt, salvage, previewOnly, total, nonFiles, place, blind,
                 diskVars>>

\* CanExtractFile refuses the entry: salvage mode skips it, normal mode leaves
\* the loop.  The entry counts as processed for the progress bar either way.
PreflightFails ==
  /\ pc = "preflight"
  /\ RecordFailure
  /\ uiQueue' = Append(uiQueue, Progress(index + 1))
  /\ \/ /\ salvage
        /\ skipped' = skipped \cup {index}
        /\ index' = index + 1 /\ pc' = "head"
        /\ UNCHANGED aborted
     \/ /\ ~salvage
        /\ aborted' = TRUE
        /\ pc' = "report"
        /\ UNCHANGED <<skipped, index>>
  /\ UNCHANGED <<attempt, salvage, previewOnly, total, nonFiles, place, blind,
                 diskVars>>

PreflightPasses ==
  /\ pc = "preflight"
  /\ pc' = "write"
  /\ UNCHANGED <<jobVars, diskVars, uiQueue>>

\* The entry's output is opened with Truncate, whatever was there.
Leaves(what) ==
  /\ out' = [out EXCEPT ![place[index]] = what]
  /\ by' = [by EXCEPT ![place[index]] = index]
  /\ folder' = "full"

\* ExtractFiles returns: the entry is on disk, whole or without what the disk
\* refused unseen, or was no file at all.
EntryWritten ==
  /\ pc = "write"
  /\ \/ \E what \in {"whole", "cut"} :
          Leaves(what) /\ Counts(what = "cut") /\ UNCHANGED nonFiles
     \/ nonFiles' = nonFiles \cup {index} /\ UNCHANGED <<fileVars, faults>>
  /\ uiQueue' = Append(uiQueue, Progress(index + 1))
  /\ index' = index + 1 /\ pc' = "head"
  /\ UNCHANGED <<attempt, salvage, previewOnly, total, failed, errors, skipped,
                 aborted, place, blind, progressVars>>

\* Mutation: the handler of the exception forgets to record the entry.
EntryThrowsUnrecorded ==
  /\ pc = "write"
  /\ UNCHANGED fileVars \/ Leaves("partial")
  /\ uiQueue' = Append(uiQueue, Progress(index + 1))
  /\ index' = index + 1 /\ pc' = "head"
  /\ UNCHANGED <<attempt, salvage, previewOnly, total, failed, errors, skipped,
                 aborted, nonFiles, place, blind, progressVars, faults>>

\* ExtractFiles throws, before it opened its output or after: the loop goes on
\* in both modes.
EntryThrows ==
  /\ pc = "write"
  /\ RecordFailure
  /\ UNCHANGED fileVars \/ Leaves("partial")
  /\ uiQueue' = Append(uiQueue, Progress(index + 1))
  /\ index' = index + 1 /\ pc' = "head"
  /\ UNCHANGED <<attempt, salvage, previewOnly, total, skipped, aborted, nonFiles,
                 place, blind, progressVars, faults>>

\* extraction_errors.txt and salvage_report.txt.
Report ==
  /\ pc = "report"
  /\ IF errors = {} THEN UNCHANGED folder ELSE folder' \in {folder, "full"}
  /\ pc' = "finish"
  /\ UNCHANGED <<jobVars, out, by, progressVars, faults, uiQueue>>

\* Mutation: the folder is shown whenever the loop was not left early.
FinishUnlessAborted ==
  /\ pc = "finish"
  /\ ClearProgressCheckpoint
  /\ FinishWith(IF ~aborted /\ folder # "missing" THEN <<OpenFolder>> ELSE <<>>)
  /\ UNCHANGED <<jobVars, fileVars>>

\* The folder is shown to the user when no entry failed and exists() finds it,
\* which it may fail to; the progress file goes.
Finish ==
  /\ pc = "finish"
  /\ ClearProgressCheckpoint
  /\ \/ errors = {} /\ folder # "missing" /\ FinishWith(<<OpenFolder>>)
     \/ FinishWith(<<>>)
  /\ UNCHANGED <<jobVars, fileVars>>

\* Mutation: the outer handler returns without the finished signal.
FatalUnannounced ==
  /\ pc \in Stages
  /\ pc' = "done"
  /\ UNCHANGED <<jobVars, diskVars, uiQueue>>

\* An exception none of the inner handlers catches reaches the outer ones: the
\* job ends and the progress file stays.  CanExtractFile, the checkpoint, the
\* reports and exists() are all outside the inner try blocks.
Fatal ==
  /\ pc \in Stages
  /\ FinishWith(<<>>)
  /\ UNCHANGED <<jobVars, diskVars>>

WorkerStep ==
  \/ Check \/ OpenAttempt \/ Guard
  \/ UnpackFails \/ PreviewDone \/ UnpackDone
  \/ LoopHead \/ WriteCheckpoint
  \/ PreflightFails \/ PreflightPasses
  \/ EntryWritten \/ EntryThrows
  \/ Report \/ Finish \/ Fatal

\* The constructor's arguments, and the locals of a new call of extract().
NewJob(preview, salvageMode) ==
  /\ pc' = "check" /\ attempt' = 1
  /\ previewOnly' = preview /\ salvage' = salvageMode
  /\ total' = 0 /\ index' = 0 /\ failed' = 0
  /\ errors' = {} /\ skipped' = {} /\ aborted' = FALSE /\ nonFiles' = {}
  /\ place' = [i \in Entries |-> i] /\ blind' = FALSE
  /\ by' = [i \in Entries |-> Nobody]
  /\ cpMine' = FALSE /\ cpLate' = FALSE

\* The worker is deleted, the locals of extract() with it.  What it knew of the
\* entries stays as history.
WorkerGone ==
  /\ pc' = "idle" /\ attempt' = 1 /\ salvage' = FALSE
  /\ index' = 0 /\ failed' = 0 /\ skipped' = {} /\ aborted' = FALSE
  /\ UNCHANGED <<previewOnly, total, errors, nonFiles, place, blind>>

\* No worker has run yet, and the target folder does not exist.
WorkerInit ==
  /\ pc = "idle" /\ attempt = 1
  /\ previewOnly = FALSE /\ salvage = FALSE
  /\ total = 0 /\ index = 0 /\ failed = 0
  /\ errors = {} /\ skipped = {} /\ aborted = FALSE /\ nonFiles = {}
  /\ place = [i \in Entries |-> i] /\ blind = FALSE
  /\ out = [i \in Entries |-> "untouched"]
  /\ by = [i \in Entries |-> Nobody]
  /\ folder = "missing"
  /\ checkpoint = NoFile /\ cpMine = FALSE /\ cpLate = FALSE
  /\ faults = 0
  /\ uiQueue = <<>>
=============================================================================
