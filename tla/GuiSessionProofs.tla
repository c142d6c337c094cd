--------------------------- MODULE GuiSessionProofs ---------------------------
(***************************************************************************)
(* The safety of the Qt front end, and that it shows jobs as JobView        *)
(* promises, for packages with any number of entries.                       *)
(***************************************************************************)
EXTENDS GuiSessionProps, FiniteSetTheorems, SequenceTheorems, TLAPS

(***************************************************************************)
(* The inductive invariant.                                                 *)
(***************************************************************************)
\* The signals of a job come in order: nothing follows "finished", the thread is
\* told to quit only by it, and the thread's own signal is the last of all.
Phases ==
  /\ pc = "idle" <=> thread = "none"
  /\ thread = "quit" => pc = "done" /\ uiQueue = <<>>
  /\ \A k \in 1 .. Len(uiQueue) :
       /\ uiQueue[k].kind = "finished" =>
            pc = "done" /\ thread = "running" /\ k = Len(uiQueue)
       /\ uiQueue[k].kind = "threadFinished" => thread = "none" /\ Len(uiQueue) = 1
  /\ enabled => session = "up" /\ thread = "none" /\ uiQueue = <<>>

\* The files on disk are those of a folder that holds something, and past the
\* guardrail, unless it was blind, those of this job.  A job begins with nothing
\* recorded, and works on the entry after the last one it recorded.
Untouched == \A f \in Entries : out[f] = "untouched"
Unwritten == \A f \in Entries : by[f] = Nobody
Ours == \A f \in Entries : out[f] = "untouched" \/ by[f] # Nobody

Accounts ==
  /\ folder # "full" => Untouched
  /\ pc \in LoopStages \cup {"unpack"} => blind \/ Ours
  /\ pc \in {"check", "open", "guard", "unpack"} =>
       /\ errors = {} /\ skipped = {} /\ nonFiles = {}
       /\ failed = 0 /\ ~aborted /\ ~cpMine /\ Unwritten
  /\ pc \in LoopStages \cup {"report", "finish"} => ~previewOnly /\ index <= total
  /\ pc \in LoopStages \ {"head"} => index < total
  /\ pc \in LoopStages =>
       /\ ~aborted
       /\ \A i \in Entries : i >= index => i \notin errors
  /\ EntriesAccounted

\* The progress file names the entry in work, or one before it.
Checkpoints ==
  /\ pc \in LoopStages /\ cpMine => checkpoint <= index + 1
  /\ pc \in {"preflight", "write"} /\ cpMine /\ checkpoint > 0 /\ ~cpLate =>
       checkpoint = index + 1
  /\ CheckpointBracketsWork

\* The folder is not shown while the job works on it.
Shown ==
  /\ pc \in Stages => ~opened /\ \A k \in 1 .. Len(uiQueue) : uiQueue[k] # OpenFolder
  /\ ShownFolderHidesNoFailure

\* The marker of a run that could write and remove it is there exactly when the
\* run is up, or died while it was.
Marks ==
  /\ session = "up" <=> Gui \in up
  /\ session = "exiting" <=> Gui \in leaving
  /\ lastEnd \notin Mark!MarkerFailed => (marker <=> lastEnd \in {"running", "crash"})
  /\ lastEnd = "running" => Gui \in up
  /\ Gui \in up => Gui \in latest /\ lastEnd \in {"running", "unmarked"}
  /\ Gui \in leaving => lastEnd \in {"clean"} \cup Mark!MarkerFailed
  /\ Gui \in up /\ before[Gui] \notin Mark!MarkerFailed =>
       (Gui \in warned <=> before[Gui] = "crash")

IInv == TypeOK /\ Phases /\ Accounts /\ Checkpoints /\ Shown /\ Marks

(***************************************************************************)
(* Signals and sets.                                                        *)
(***************************************************************************)
\* The signals a worker posts, and their kinds.
LEMMA SignalKinds ==
  /\ \A n \in 0 .. MaxEntries + 1 :
       /\ Max(n) \in Signals /\ Max(n).kind = "setMax" /\ Max(n) # OpenFolder
       /\ Progress(n) \in Signals /\ Progress(n).kind = "progress"
       /\ Progress(n) # OpenFolder
  /\ OpenFolder \in Signals /\ OpenFolder.kind = "openFolder"
  /\ Finished \in Signals /\ Finished.kind = "finished" /\ Finished # OpenFolder
  /\ ThreadFinished \in Signals /\ ThreadFinished.kind = "threadFinished"
  /\ ThreadFinished # OpenFolder
  /\ \A s \in Signals :
       /\ s.value \in Nat
       /\ s.kind \in {"setMax", "progress", "openFolder", "finished", "threadFinished"}
       /\ s.kind = "openFolder" => s = OpenFolder
<1> USE DEF Signals, Max, Progress, OpenFolder, Finished, ThreadFinished
<1>1. \A n \in 0 .. MaxEntries + 1 :
       /\ Max(n) \in Signals /\ Max(n).kind = "setMax" /\ Max(n) # OpenFolder
       /\ Progress(n) \in Signals /\ Progress(n).kind = "progress"
       /\ Progress(n) # OpenFolder
  OBVIOUS
<1>2. /\ OpenFolder \in Signals /\ OpenFolder.kind = "openFolder"
      /\ Finished \in Signals /\ Finished.kind = "finished" /\ Finished # OpenFolder
      /\ ThreadFinished \in Signals /\ ThreadFinished.kind = "threadFinished"
      /\ ThreadFinished # OpenFolder
  OBVIOUS
<1>3. ASSUME NEW s \in Signals
      PROVE  /\ s.value \in Nat
             /\ s.kind \in {"setMax", "progress", "openFolder", "finished", "threadFinished"}
             /\ s.kind = "openFolder" => s = OpenFolder
  BY <1>3, MaxEntriesAssumption
<1> QED
  BY <1>1, <1>2, <1>3

\* What a posted signal does to the queue.
LEMMA Posted ==
  ASSUME NEW q \in Seq(Signals), NEW s \in Signals
  PROVE  /\ Append(q, s) \in Seq(Signals)
         /\ Len(q) \in Nat /\ Len(Append(q, s)) = Len(q) + 1
         /\ \A k \in 1 .. Len(q) : Append(q, s)[k] = q[k]
         /\ Append(q, s)[Len(q) + 1] = s
BY AppendProperties, LenProperties

\* What the end of a job does to it.
LEMMA Ended ==
  ASSUME NEW q \in Seq(Signals), NEW s \in Seq(Signals)
  PROVE  LET r == q \o s \o <<Finished>> IN
         /\ r \in Seq(Signals)
         /\ Len(q) \in Nat /\ Len(s) \in Nat
         /\ Len(r) = Len(q) + Len(s) + 1
         /\ \A k \in 1 .. Len(q) : r[k] = q[k]
         /\ \A k \in 1 .. Len(s) : r[Len(q) + k] = s[k]
         /\ r[Len(q) + Len(s) + 1] = Finished
<1>1. Finished \in Signals
  BY SignalKinds
<1>2. <<Finished>> \in Seq(Signals) /\ Len(<<Finished>>) = 1 /\ <<Finished>>[1] = Finished
  BY <1>1
<1>3. Len(q) \in Nat /\ Len(s) \in Nat
  BY LenProperties
<1>4. /\ q \o s \in Seq(Signals) /\ Len(q \o s) = Len(q) + Len(s)
      /\ \A k \in 1 .. Len(q) + Len(s) :
           (q \o s)[k] = IF k <= Len(q) THEN q[k] ELSE s[k - Len(q)]
  BY ConcatProperties
<1>5. LET r == (q \o s) \o <<Finished>> IN
      /\ r \in Seq(Signals) /\ Len(r) = Len(q \o s) + 1
      /\ \A k \in 1 .. Len(q \o s) + 1 :
           r[k] = IF k <= Len(q \o s) THEN (q \o s)[k] ELSE <<Finished>>[k - Len(q \o s)]
  BY <1>2, <1>4, ConcatProperties
<1> QED
  BY <1>2, <1>3, <1>4, <1>5

\* The worker's signals before "finished": none, or one or two of them.
LEMMA LastSignals ==
  /\ <<>> \in Seq(Signals) /\ Len(<<>>) = 0
  /\ <<OpenFolder>> \in Seq(Signals) /\ Len(<<OpenFolder>>) = 1
  /\ <<OpenFolder>>[1] = OpenFolder
  /\ <<Max(1), Progress(1)>> \in Seq(Signals) /\ Len(<<Max(1), Progress(1)>>) = 2
  /\ <<Max(1), Progress(1)>>[1] = Max(1) /\ <<Max(1), Progress(1)>>[2] = Progress(1)
<1>1. Max(1) \in Signals /\ Progress(1) \in Signals /\ OpenFolder \in Signals
  BY SignalKinds, MaxEntriesAssumption
<1> QED
  BY <1>1, EmptySeq

\* An entry that is reported for the first time adds one to the reports.
LEMMA OneMoreError ==
  ASSUME NEW S \in SUBSET Entries, NEW e \in Entries, e \notin S
  PROVE  /\ Cardinality(S \cup {e}) = Cardinality(S) + 1
         /\ Cardinality(S \cup {e}) \in 0 .. MaxEntries
<1>1. IsFiniteSet(Entries) /\ Cardinality(Entries) = MaxEntries
  <2>1. CASE MaxEntries = 0
    <3>1. Entries = {}
      BY <2>1 DEF Entries
    <3> QED
      BY <3>1, <2>1, FS_EmptySet
  <2>2. CASE MaxEntries # 0
    BY <2>2, MaxEntriesAssumption, FS_Interval DEF Entries
  <2> QED
    BY <2>1, <2>2
<1>2. IsFiniteSet(S)
  BY <1>1, FS_Subset
<1>3. Cardinality(S \cup {e}) = Cardinality(S) + 1
  BY <1>2, FS_AddElement
<1>4. S \cup {e} \in SUBSET Entries
  OBVIOUS
<1>5. IsFiniteSet(S \cup {e}) /\ Cardinality(S \cup {e}) <= MaxEntries
  BY <1>1, <1>4, FS_Subset
<1>6. Cardinality(S \cup {e}) \in Nat
  BY <1>5, FS_CardinalityType
<1> QED
  BY <1>3, <1>5, <1>6, MaxEntriesAssumption

(***************************************************************************)
(* The worker.                                                              *)
(***************************************************************************)
\* What a step of the worker does to the queue: nothing, one signal, or the end
\* of the job with its last signals.
WorkerPosts ==
  \/ UNCHANGED uiQueue /\ pc' \in Stages
  \/ /\ pc' \in Stages
     /\ \E s \in Signals : s.kind \in {"setMax", "progress"} /\ uiQueue' = Append(uiQueue, s)
  \/ /\ pc' = "done"
     /\ \E ss \in {<<>>, <<OpenFolder>>, <<Max(1), Progress(1)>>} :
          /\ uiQueue' = uiQueue \o ss \o <<Finished>>
          /\ ss = <<OpenFolder>> =>
               pc = "finish" /\ errors = {} /\ UNCHANGED jobVars /\ UNCHANGED fileVars

\* Every step of the worker belongs to a stage, and posts what WorkerPosts says.
LEMMA WorkerSignals ==
  ASSUME TypeOK, Accounts, WorkerStep
  PROVE  pc \in Stages /\ WorkerPosts
<1> USE DEF Stages, FinishWith
<1>1. CASE Check
  BY <1>1 DEF Check, WorkerPosts
<1>2. CASE OpenAttempt
  BY <1>2 DEF OpenAttempt, WorkerPosts
<1>3. CASE Guard
  BY <1>3 DEF Guard, WorkerPosts
<1>4. CASE UnpackFails
  BY <1>4 DEF UnpackFails, WorkerPosts
<1>5. CASE PreviewDone
  BY <1>5, LastSignals DEF PreviewDone, WorkerPosts
<1>6. CASE UnpackDone
  BY <1>6, SignalKinds, MaxEntriesAssumption DEF UnpackDone, WorkerPosts
<1>7. CASE LoopHead
  BY <1>7 DEF LoopHead, WorkerPosts
<1>8. CASE WriteCheckpoint
  BY <1>8 DEF WriteCheckpoint, WorkerPosts
<1>9. CASE PreflightFails
  BY <1>9, SignalKinds, MaxEntriesAssumption DEF PreflightFails, WorkerPosts, TypeOK
<1>10. CASE PreflightPasses
  BY <1>10 DEF PreflightPasses, WorkerPosts
<1>11. CASE EntryWritten
  BY <1>11, SignalKinds, MaxEntriesAssumption DEF EntryWritten, WorkerPosts, TypeOK
<1>12. CASE EntryThrows
  BY <1>12, SignalKinds, MaxEntriesAssumption DEF EntryThrows, WorkerPosts, TypeOK
<1>13. CASE Report
  BY <1>13 DEF Report, WorkerPosts
<1>14. CASE Finish
  BY <1>14 DEF Finish, WorkerPosts
<1>15. CASE Fatal
  BY <1>15 DEF Fatal, WorkerPosts
<1> QED
  BY <1>1, <1>2, <1>3, <1>4, <1>5, <1>6, <1>7, <1>8, <1>9, <1>10,
     <1>11, <1>12, <1>13, <1>14, <1>15 DEF WorkerStep

\* The types, by the part of the state they are about.
FileTypes ==
  /\ out \in [Entries -> {"untouched", "partial", "cut", "whole"}]
  /\ by \in [Entries -> Entries \cup {Nobody}]
  /\ folder \in {"missing", "empty", "full"}

JobTypes ==
  /\ attempt \in 1 .. MaxAttempts
  /\ salvage \in BOOLEAN /\ previewOnly \in BOOLEAN /\ aborted \in BOOLEAN
  /\ total \in 0 .. MaxEntries /\ index \in 0 .. MaxEntries
  /\ failed \in 0 .. MaxEntries
  /\ errors \subseteq Entries /\ skipped \subseteq Entries /\ nonFiles \subseteq Entries
  /\ place \in [Entries -> Entries] /\ blind \in BOOLEAN
  /\ FileTypes
  /\ checkpoint \in -1 .. MaxEntries /\ cpMine \in BOOLEAN /\ cpLate \in BOOLEAN
  /\ faults \in 0 .. MaxFaults

WindowTypes ==
  /\ session \in {"down", "up", "exiting"}
  /\ thread \in {"none", "running", "quit"}
  /\ enabled \in BOOLEAN /\ opened \in BOOLEAN
  /\ barMax \in Nat /\ barValue \in Int

MarkTypes ==
  /\ marker \in BOOLEAN /\ up \subseteq {Gui} /\ leaving \subseteq {Gui}
  /\ warned \subseteq {Gui} /\ latest \subseteq {Gui} /\ lastEnd \in Mark!Ends
  /\ before \in [{Gui} -> Mark!Ends]

\* What an entry leaves on disk is at its own path.
LEMMA LeavesAtPlace ==
  ASSUME FileTypes, place \in [Entries -> Entries], index \in Entries,
         NEW what \in {"partial", "cut", "whole"}, Leaves(what)
  PROVE  /\ FileTypes'
         /\ place[index] \in Entries
         /\ out'[place[index]] = what /\ by'[place[index]] = index
         /\ \A f \in Entries : f # place[index] => out'[f] = out[f] /\ by'[f] = by[f]
         /\ folder' = "full"
BY DEF FileTypes, Leaves

\* A failure nobody notices is counted.
LEMMA CountsType ==
  ASSUME faults \in 0 .. MaxFaults, NEW unseen, Counts(unseen)
  PROVE  faults' \in 0 .. MaxFaults
BY MaxFaultsAssumption DEF Counts

\* A step of the worker keeps the types.
LEMMA WorkerTypes ==
  ASSUME TypeOK, Accounts, RunWorker
  PROVE  TypeOK'
<1>1. uiQueue' \in Seq(Signals) /\ pc' \in Stages \cup {"done"}
  <2>1. WorkerPosts
    BY WorkerSignals DEF RunWorker
  <2>2. uiQueue \in Seq(Signals)
    BY DEF TypeOK
  <2>3. CASE UNCHANGED uiQueue /\ pc' \in Stages
    BY <2>2, <2>3
  <2>4. CASE /\ pc' \in Stages
             /\ \E s \in Signals :
                  s.kind \in {"setMax", "progress"} /\ uiQueue' = Append(uiQueue, s)
    BY <2>2, <2>4, Posted
  <2>5. CASE /\ pc' = "done"
             /\ \E ss \in {<<>>, <<OpenFolder>>, <<Max(1), Progress(1)>>} :
                  uiQueue' = uiQueue \o ss \o <<Finished>>
    <3>1. PICK ss \in {<<>>, <<OpenFolder>>, <<Max(1), Progress(1)>>} :
               uiQueue' = uiQueue \o ss \o <<Finished>>
      BY <2>5
    <3>2. ss \in Seq(Signals)
      BY LastSignals
    <3>3. uiQueue' \in Seq(Signals)
      BY <2>2, <3>1, <3>2, Ended
    <3> QED
      BY <2>5, <3>3
  <2> QED
    BY <2>1, <2>3, <2>4, <2>5 DEF WorkerPosts
<1>2. /\ UNCHANGED guiVars /\ UNCHANGED markVars
  BY DEF RunWorker
<1>3. WindowTypes' /\ MarkTypes'
  BY <1>2 DEF TypeOK, WindowTypes, MarkTypes, guiVars, markVars
<1>4. JobTypes
  BY DEF TypeOK, JobTypes, FileTypes
<1>5. pc \in {"preflight", "write"} =>
        /\ index \in Entries /\ index + 1 \in 0 .. MaxEntries
        /\ index \notin errors /\ failed = Cardinality(errors)
        /\ Cardinality(errors \cup {index}) \in 0 .. MaxEntries
        /\ Cardinality(errors \cup {index}) = failed + 1
  <2> SUFFICES ASSUME pc \in {"preflight", "write"}
               PROVE  /\ index \in Entries /\ index + 1 \in 0 .. MaxEntries
                      /\ index \notin errors /\ failed = Cardinality(errors)
                      /\ Cardinality(errors \cup {index}) \in 0 .. MaxEntries
                      /\ Cardinality(errors \cup {index}) = failed + 1
    OBVIOUS
  <2>1. index \in Entries /\ index + 1 \in 0 .. MaxEntries
    BY <1>4, MaxEntriesAssumption DEF JobTypes, Accounts, LoopStages, Entries
  <2>2. index \notin errors
    BY <2>1, <1>4 DEF JobTypes, Accounts, LoopStages
  <2>3. failed = Cardinality(errors)
    BY DEF Accounts, EntriesAccounted, LoopStages
  <2> QED
    BY <1>4, <2>1, <2>2, <2>3, OneMoreError DEF JobTypes
<1>6. JobTypes'
  <2>a. /\ faults \in 0 .. MaxFaults /\ place \in [Entries -> Entries] /\ FileTypes
        /\ checkpoint \in -1 .. MaxEntries
    BY <1>4 DEF JobTypes
  <2>b. ASSUME UNCHANGED fileVars \/ (folder' \in FolderAfterUnpack(folder) /\ UNCHANGED <<out, by>>)
        PROVE  FileTypes'
    BY <2>a, <2>b DEF FileTypes, fileVars, FolderAfterUnpack
  <2>c. ASSUME ClearProgressCheckpoint
        PROVE  checkpoint' \in -1 .. MaxEntries /\ faults' \in 0 .. MaxFaults
               /\ UNCHANGED <<cpMine, cpLate>>
    <3>1. checkpoint' \in {NoFile, checkpoint} /\ Counts(checkpoint' # NoFile)
      BY <2>c DEF ClearProgressCheckpoint
    <3>2. faults' \in 0 .. MaxFaults
      BY <2>a, <3>1, CountsType
    <3> QED
      BY <2>a, <2>c, <3>1, <3>2, MaxEntriesAssumption DEF ClearProgressCheckpoint, NoFile
  <2>1. CASE Check
    BY <2>1, <1>4, <2>b DEF Check, JobTypes, jobVars, diskVars, fileVars, progressVars
  <2>2. CASE OpenAttempt
    BY <2>2, <1>4, <2>b, MaxEntriesAssumption
       DEF OpenAttempt, JobTypes, diskVars, fileVars, progressVars, MaxAttempts
  <2>3. CASE Guard
    <3>1. PICK unseen : Counts(unseen)
      BY <2>3 DEF Guard
    <3>2. faults' \in 0 .. MaxFaults
      BY <2>a, <3>1, CountsType
    <3>3. blind' \in BOOLEAN
      BY <2>3, <1>4 DEF Guard, JobTypes
    <3> QED
      BY <2>3, <1>4, <2>b, <3>2, <3>3 DEF Guard, JobTypes, fileVars, progressVars
  <2>4. CASE UnpackFails
    BY <2>4, <1>4, <2>b DEF UnpackFails, JobTypes, jobVars, progressVars
  <2>5. CASE PreviewDone
    BY <2>5, <1>4, <2>b, <2>c DEF PreviewDone, JobTypes, jobVars
  <2>6. CASE UnpackDone
    <3>1. PICK n \in 0 .. MaxEntries : total' = n /\ place' \in Paths(n)
      BY <2>6 DEF UnpackDone
    <3>2. place' \in [Entries -> Entries]
      BY <3>1 DEF Paths
    <3> QED
      BY <2>6, <1>4, <2>b, <3>1, <3>2, MaxEntriesAssumption DEF UnpackDone, JobTypes, progressVars
  <2>7. CASE LoopHead
    <3>1. /\ checkpoint' \in -1 .. MaxEntries /\ cpMine' \in BOOLEAN /\ cpLate' \in BOOLEAN
          /\ faults' \in 0 .. MaxFaults
      <4>1. CASE /\ checkpoint' = Truncated /\ cpMine' = TRUE /\ cpLate' = FALSE
                 /\ Counts(FALSE)
        <5>1. PICK unseen : unseen = FALSE /\ Counts(unseen)
          BY <4>1
        <5>2. faults' \in 0 .. MaxFaults
          BY <2>a, <5>1, CountsType
        <5> QED
          <6>1. checkpoint' \in -1 .. MaxEntries
            BY <4>1, MaxEntriesAssumption DEF Truncated
          <6> QED
            BY <4>1, <5>2, <6>1
      <4>2. CASE /\ cpLate' = TRUE /\ UNCHANGED <<checkpoint, cpMine>>
                 /\ Counts(TRUE)
        <5>1. PICK unseen : unseen = TRUE /\ Counts(unseen)
          BY <4>2
        <5>2. faults' \in 0 .. MaxFaults
          BY <2>a, <5>1, CountsType
        <5> QED
          BY <1>4, <4>2, <5>2 DEF JobTypes
      <4>3. CASE UNCHANGED <<progressVars, faults>>
        BY <4>3, <1>4 DEF JobTypes, progressVars
      <4> QED
        BY <2>7, <4>1, <4>2, <4>3 DEF LoopHead
    <3> QED
      BY <2>7, <1>4, <2>b, <3>1 DEF LoopHead, JobTypes, jobVars
  <2>8. CASE WriteCheckpoint
    <3>1. checkpoint' \in {Truncated, index + 1} /\ Counts(checkpoint' = Truncated)
      BY <2>8 DEF WriteCheckpoint
    <3>2. faults' \in 0 .. MaxFaults
      BY <2>a, <3>1, CountsType
    <3>3. index + 1 \in -1 .. MaxEntries
      BY <2>8, <1>4, MaxEntriesAssumption DEF WriteCheckpoint, JobTypes, Accounts, LoopStages
    <3>4. checkpoint' \in -1 .. MaxEntries
      BY <3>1, <3>3, MaxEntriesAssumption DEF Truncated
    <3> QED
      BY <2>8, <1>4, <2>b, <3>2, <3>4 DEF WriteCheckpoint, JobTypes, jobVars
  <2>9. CASE PreflightFails
    BY <2>9, <1>4, <1>5, <2>b
       DEF PreflightFails, JobTypes, jobVars, diskVars, fileVars, progressVars, RecordFailure
  <2>10. CASE PreflightPasses
    BY <2>10, <1>4, <2>b DEF PreflightPasses, JobTypes, jobVars, diskVars, fileVars, progressVars
  <2>11. CASE EntryWritten
    <3>1. index \in Entries /\ index' \in 0 .. MaxEntries
      BY <2>11, <1>5 DEF EntryWritten
    <3>2. FileTypes' /\ faults' \in 0 .. MaxFaults /\ nonFiles' \subseteq Entries
      <4>1. CASE nonFiles' = nonFiles \cup {index} /\ UNCHANGED <<fileVars, faults>>
        BY <1>4, <2>a, <2>b, <3>1, <4>1 DEF JobTypes
      <4>2. CASE \E what \in {"whole", "cut"} :
                   Leaves(what) /\ Counts(what = "cut") /\ UNCHANGED nonFiles
        <5>1. PICK what \in {"whole", "cut"} :
                     Leaves(what) /\ Counts(what = "cut") /\ UNCHANGED nonFiles
          BY <4>2
        <5>2. FileTypes'
          BY <2>a, <3>1, <5>1, LeavesAtPlace
        <5>3. faults' \in 0 .. MaxFaults
          BY <2>a, <5>1, CountsType
        <5> QED
          BY <1>4, <5>1, <5>2, <5>3 DEF JobTypes
      <4> QED
        BY <2>11, <4>1, <4>2 DEF EntryWritten
    <3> QED
      BY <2>11, <1>4, <3>1, <3>2 DEF EntryWritten, JobTypes, progressVars
  <2>12. CASE EntryThrows
    <3>1. index \in Entries
      BY <2>12, <1>5 DEF EntryThrows
    <3>2. FileTypes'
      <4>1. CASE UNCHANGED fileVars
        BY <2>b, <4>1
      <4>2. CASE Leaves("partial")
        BY <2>a, <3>1, <4>2, LeavesAtPlace
      <4> QED
        BY <2>12, <4>1, <4>2 DEF EntryThrows
    <3> QED
      BY <2>12, <1>4, <1>5, <3>2 DEF EntryThrows, JobTypes, progressVars, RecordFailure
  <2>13. CASE Report
    <3>1. FileTypes'
      BY <2>13, <2>a DEF Report, FileTypes
    <3> QED
      BY <2>13, <1>4, <3>1 DEF Report, JobTypes, jobVars, progressVars
  <2>14. CASE Finish
    BY <2>14, <1>4, <2>b, <2>c DEF Finish, JobTypes, jobVars
  <2>15. CASE Fatal
    BY <2>15, <1>4, <2>b DEF Fatal, JobTypes, jobVars, diskVars, fileVars, progressVars
  <2> QED
    BY <2>1, <2>2, <2>3, <2>4, <2>5, <2>6, <2>7, <2>8, <2>9, <2>10,
       <2>11, <2>12, <2>13, <2>14, <2>15 DEF RunWorker, WorkerStep
<1> QED
  <2>1. JobTypes'
    BY <1>6
  <2> QED
    BY <1>1, <1>3, <2>1 DEF TypeOK, JobTypes, FileTypes, WindowTypes, MarkTypes

(***************************************************************************)
(* The types.                                                               *)
(***************************************************************************)
\* What a signal taken off the queue leaves there.
LEMMA Taken ==
  ASSUME NEW q \in Seq(Signals), q # <<>>
  PROVE  /\ Tail(q) \in Seq(Signals)
         /\ Len(q) \in Nat /\ Len(q) >= 1 /\ Len(Tail(q)) = Len(q) - 1
         /\ Head(q) = q[1] /\ Head(q) \in Signals
         /\ \A k \in 1 .. Len(Tail(q)) : Tail(q)[k] = q[k + 1]
         /\ Len(q) = 1 => Tail(q) = <<>>
<1>1. /\ Head(q) \in Signals /\ Tail(q) \in Seq(Signals)
      /\ Head(q) = q[1] /\ Len(Tail(q)) = Len(q) - 1
      /\ \A k \in 1 .. Len(Tail(q)) : Tail(q)[k] = q[k + 1]
  BY HeadTailProperties
<1>2. Len(q) \in Nat /\ Len(q) >= 1
  BY LenProperties, EmptySeq
<1>3. ASSUME Len(q) = 1, Tail(q) # <<>>
      PROVE  FALSE
  <2>1. Len(Tail(q)) \in Nat \ {0}
    BY <1>1, <1>3, EmptySeq
  <2> QED
    BY <1>1, <1>3, <2>1
<1> QED
  BY <1>1, <1>2, <1>3

\* The steps of the crash marker keep its types.
LEMMA MarkerTypes ==
  ASSUME TypeOK,
         \/ Mark!Startup(Gui) \/ Mark!Quit(Gui) \/ Mark!Exit(Gui)
         \/ Mark!Crash(Gui) \/ Mark!Late(Gui) \/ UNCHANGED markVars
  PROVE  MarkTypes'
<1> USE DEF TypeOK, MarkTypes, Mark!Ends, Mark!MarkerFailed, Mark!Ended, Mark!WindowGone
<1>1. CASE Mark!Startup(Gui)
  BY <1>1 DEF Mark!Startup
<1>2. CASE Mark!Quit(Gui)
  BY <1>2 DEF Mark!Quit
<1>3. CASE Mark!Crash(Gui)
  BY <1>3 DEF Mark!Crash
<1>4. CASE UNCHANGED markVars
  BY <1>4 DEF markVars
<1>5. CASE Mark!Exit(Gui)
  BY <1>5 DEF Mark!Exit
<1>6. CASE Mark!Late(Gui)
  BY <1>6 DEF Mark!Late
<1> QED
  BY <1>1, <1>2, <1>3, <1>4, <1>5, <1>6

\* What the end of the process may leave in the folder.
LEMMA GoneTypes ==
  ASSUME TypeOK, Accounts, ProcessGone \/ UNCHANGED <<out, by, folder>>
  PROVE  FileTypes'
<1>1. FileTypes /\ place \in [Entries -> Entries]
  BY DEF TypeOK, FileTypes
<1>2. CASE UNCHANGED fileVars
  BY <1>1, <1>2 DEF FileTypes, fileVars
<1>3. CASE pc = "write" /\ Leaves("partial")
  <2>1. index \in Entries
    BY <1>3, MaxEntriesAssumption DEF TypeOK, Accounts, LoopStages, Entries
  <2> QED
    BY <1>1, <1>3, <2>1, LeavesAtPlace
<1> QED
  BY <1>2, <1>3 DEF ProcessGone, fileVars

\* Every step keeps the types.
LEMMA TypeInductive ==
  ASSUME TypeOK, Accounts, [Next]_vars
  PROVE  TypeOK'
<1> DEFINE PcType == pc \in Stages \cup {"idle", "done"}
<1> DEFINE QueueType == uiQueue \in Seq(Signals)
<1>a. PcType /\ QueueType /\ JobTypes /\ WindowTypes /\ MarkTypes
  BY DEF TypeOK, JobTypes, FileTypes, WindowTypes, MarkTypes
<1>b. ASSUME PcType', QueueType', JobTypes', WindowTypes', MarkTypes'
      PROVE  TypeOK'
  BY <1>b DEF TypeOK, JobTypes, FileTypes, WindowTypes, MarkTypes
<1>c. ASSUME UNCHANGED jobVars, UNCHANGED fileVars, UNCHANGED progressVars,
             faults' \in 0 .. MaxFaults
      PROVE  JobTypes'
  BY <1>a, <1>c DEF JobTypes, FileTypes, jobVars, fileVars, progressVars
<1>f. faults \in 0 .. MaxFaults
  BY <1>a DEF JobTypes
<1>g. ASSUME WorkerGone, FileTypes', UNCHANGED <<progressVars, faults>>
      PROVE  JobTypes'
  <2>1. attempt' \in 1 .. MaxAttempts /\ index' \in 0 .. MaxEntries /\ failed' \in 0 .. MaxEntries
    BY <1>g, MaxEntriesAssumption DEF WorkerGone, MaxAttempts
  <2>2. salvage' \in BOOLEAN /\ aborted' \in BOOLEAN /\ skipped' \subseteq Entries
    BY <1>g DEF WorkerGone
  <2>3. UNCHANGED <<previewOnly, total, errors, nonFiles, place, blind>>
    BY <1>g DEF WorkerGone
  <2> QED
    BY <1>a, <1>g, <2>1, <2>2, <2>3 DEF JobTypes, progressVars
<1>h. ASSUME NoWindow
      PROVE  barMax' \in Nat /\ barValue' \in Int /\ opened' \in BOOLEAN
  <2>1. barMax' \in Nat /\ barValue' \in Int
    BY <1>h DEF NoWindow, DefaultMax
  <2> QED
    BY <1>h, <2>1 DEF NoWindow
<1>d. QueueType' \/ uiQueue' # <<>>
  BY EmptySeq
<1>e. ASSUME UNCHANGED markVars
      PROVE  MarkTypes'
  BY <1>e, MarkerTypes
<1>1. CASE Start
  <2>1. JobTypes'
    <3>1. Counts(lastEnd' = "unmarked")
      BY <1>1 DEF Start
    <3>2. faults' \in 0 .. MaxFaults
      BY <1>f, <3>1, CountsType
    <3> QED
      BY <1>1, <1>c, <3>2 DEF Start
  <2>2. PcType' /\ QueueType' /\ WindowTypes'
    <3>1. PcType' /\ QueueType'
      BY <1>1, <1>d DEF Start
    <3>2. barMax' \in Nat /\ barValue' \in Int
      BY <1>1 DEF Start, NoWindow, DefaultMax
    <3>3. enabled' \in BOOLEAN /\ opened' \in BOOLEAN
      BY <1>1 DEF Start, NoWindow
    <3>4. session' = "up" /\ thread' = "none"
      BY <1>1 DEF Start
    <3> QED
      BY <3>1, <3>2, <3>3, <3>4 DEF WindowTypes
  <2>3. MarkTypes'
    BY <1>1, MarkerTypes DEF Start
  <2> QED
    BY <1>b, <2>1, <2>2, <2>3
<1>2. CASE AboutToQuit
  <2>1. JobTypes'
    <3>1. Counts(marker')
      BY <1>2 DEF AboutToQuit
    <3>2. faults' \in 0 .. MaxFaults
      BY <1>f, <3>1, CountsType
    <3> QED
      BY <1>2, <1>c, <3>2 DEF AboutToQuit
  <2>2. PcType' /\ QueueType' /\ WindowTypes'
    BY <1>2, <1>a, <1>d, <1>h DEF AboutToQuit, WindowTypes
  <2>3. MarkTypes'
    BY <1>2, MarkerTypes DEF AboutToQuit
  <2> QED
    BY <1>b, <2>1, <2>2, <2>3
<1>3. CASE Exit \/ Crash
  <2>1. ProcessGone /\ (Mark!Exit(Gui) \/ Mark!Crash(Gui) \/ Mark!Late(Gui))
    BY <1>3 DEF Exit, Crash
  <2>2. JobTypes'
    <3>1. FileTypes'
      BY <2>1, GoneTypes
    <3> QED
      BY <2>1, <3>1, <1>g DEF ProcessGone
  <2>3. PcType' /\ QueueType' /\ WindowTypes'
    BY <2>1, <1>a, <1>d, <1>h DEF ProcessGone, WorkerGone, WindowTypes
  <2>4. MarkTypes'
    BY <2>1, MarkerTypes
  <2> QED
    BY <1>b, <2>2, <2>3, <2>4
<1>4. CASE StartWorker
  <2> PICK preview \in BOOLEAN, salvageMode \in BOOLEAN : NewJob(preview, salvageMode)
    BY <1>4 DEF StartWorker
  <2>1. JobTypes'
    <3>1. previewOnly' \in BOOLEAN /\ salvage' \in BOOLEAN /\ aborted' \in BOOLEAN
      BY DEF NewJob
    <3>2. /\ attempt' \in 1 .. MaxAttempts
          /\ total' \in 0 .. MaxEntries /\ index' \in 0 .. MaxEntries
          /\ failed' \in 0 .. MaxEntries
      BY MaxEntriesAssumption DEF NewJob, MaxAttempts
    <3>3. /\ errors' = {} /\ skipped' = {} /\ nonFiles' = {} /\ cpMine' \in BOOLEAN
          /\ cpLate' \in BOOLEAN /\ blind' \in BOOLEAN
          /\ place' \in [Entries -> Entries] /\ by' \in [Entries -> Entries \cup {Nobody}]
      BY DEF NewJob
    <3>4. UNCHANGED <<out, folder, checkpoint, faults>>
      BY <1>4 DEF StartWorker
    <3> QED
      BY <1>a, <3>1, <3>2, <3>3, <3>4 DEF JobTypes, FileTypes
  <2>2. PcType' /\ QueueType' /\ WindowTypes'
    <3>1. PcType' /\ QueueType'
      BY <1>4, <1>a DEF StartWorker, NewJob, Stages
    <3>2. barMax' \in Nat /\ barValue' \in Int
      BY <1>4, <1>a DEF StartWorker, WindowTypes
    <3>3. enabled' \in BOOLEAN /\ opened' \in BOOLEAN
      BY <1>4 DEF StartWorker
    <3>4. session' = "up" /\ thread' = "running"
      BY <1>4 DEF StartWorker
    <3> QED
      BY <3>1, <3>2, <3>3, <3>4 DEF WindowTypes
  <2> QED
    BY <1>4, <1>b, <1>e, <2>1, <2>2 DEF StartWorker
<1>5. CASE PickFolder
  <2>1. JobTypes'
    <3>1. FileTypes'
      BY <1>5 DEF PickFolder, FileTypes
    <3> QED
      BY <1>5, <1>a, <3>1 DEF PickFolder, JobTypes, jobVars
  <2>2. PcType' /\ QueueType' /\ WindowTypes'
    BY <1>5, <1>a DEF PickFolder, WindowTypes
  <2> QED
    BY <1>5, <1>b, <1>e, <2>1, <2>2 DEF PickFolder
<1>6. CASE RunWorker
  BY <1>6, WorkerTypes
<1>7. CASE ThreadEnds
  <2>1. JobTypes'
    <3>1. UNCHANGED <<out, by, folder>> /\ UNCHANGED <<progressVars, faults>>
      BY <1>7 DEF ThreadEnds, diskVars, fileVars
    <3> QED
      BY <1>7, <3>1, <1>g, GoneTypes DEF ThreadEnds
  <2>2. PcType' /\ QueueType' /\ WindowTypes'
    BY <1>7, <1>a, Posted, SignalKinds DEF ThreadEnds, WorkerGone, WindowTypes
  <2> QED
    BY <1>7, <1>b, <1>e, <2>1, <2>2 DEF ThreadEnds
<1>8. CASE Deliver
  <2>1. JobTypes'
    BY <1>8, <1>c, <1>f DEF Deliver, diskVars
  <2>2. QueueType' /\ Head(uiQueue).value \in Nat
    BY <1>8, <1>a, Taken, SignalKinds DEF Deliver
  <2>3. WindowTypes'
    <3> DEFINE n == Head(uiQueue).value
    <3>1. CASE SetMaximum(n)
      BY <1>8, <1>a, <2>2, <3>1 DEF Deliver, SetMaximum, WindowTypes
    <3>2. CASE SetValue(n)
      BY <1>8, <1>a, <2>2, <3>2 DEF Deliver, SetValue, WindowTypes
    <3>3. CASE OpenUrl \/ QuitThread \/ EnableButtons
      BY <1>8, <1>a, <3>3 DEF Deliver, OpenUrl, QuitThread, EnableButtons, WindowTypes
    <3> QED
      BY <1>8, <3>1, <3>2, <3>3 DEF Deliver
  <2> QED
    BY <1>8, <1>a, <1>b, <1>e, <2>1, <2>2, <2>3 DEF Deliver
<1>9. CASE UNCHANGED vars
  <2>1. JobTypes' /\ MarkTypes'
    BY <1>9, <1>c, <1>e, <1>f DEF vars, workerVars, diskVars
  <2>2. PcType' /\ QueueType' /\ WindowTypes'
    BY <1>9, <1>a DEF vars, workerVars, guiVars, WindowTypes
  <2> QED
    BY <1>b, <2>1, <2>2
<1> QED
  BY <1>1, <1>2, <1>3, <1>4, <1>5, <1>6, <1>7, <1>8, <1>9 DEF Next

(***************************************************************************)
(* The order of a job's signals.                                            *)
(***************************************************************************)
\* Signals that tell of the end of a job.
EndKinds == {"finished", "threadFinished"}

\* While the worker runs, no signal on the queue tells of its end.
LEMMA NoEndYet ==
  ASSUME Phases, pc \in Stages
  PROVE  \A k \in 1 .. Len(uiQueue) : uiQueue[k].kind \notin EndKinds
BY DEF Phases, Stages, EndKinds

\* A step of the worker keeps the order.
LEMMA WorkerPhases ==
  ASSUME TypeOK, Phases, Accounts, RunWorker
  PROVE  Phases'
<1>1. pc \in Stages /\ WorkerPosts
  BY WorkerSignals DEF RunWorker
<1>2. thread = "running" /\ UNCHANGED <<thread, enabled, session>>
  BY DEF RunWorker, guiVars
<1>3. ~enabled
  BY <1>2 DEF Phases
<1>4. uiQueue \in Seq(Signals)
  BY DEF TypeOK
<1>5. \A k \in 1 .. Len(uiQueue) : uiQueue[k].kind \notin EndKinds
  BY <1>1, NoEndYet
<1>6. CASE UNCHANGED uiQueue /\ pc' \in Stages
  BY <1>2, <1>3, <1>5, <1>6 DEF Phases, Stages, EndKinds
<1>7. CASE /\ pc' \in Stages
           /\ \E s \in Signals : s.kind \in {"setMax", "progress"} /\ uiQueue' = Append(uiQueue, s)
  <2>1. PICK s \in Signals : s.kind \in {"setMax", "progress"} /\ uiQueue' = Append(uiQueue, s)
    BY <1>7
  <2>2. \A k \in 1 .. Len(uiQueue') : uiQueue'[k].kind \notin EndKinds
    BY <1>4, <1>5, <2>1, Posted DEF EndKinds
  <2> QED
    BY <1>2, <1>3, <1>7, <2>2 DEF Phases, Stages, EndKinds
<1>8. CASE pc' = "done"
  <2>1. PICK ss \in {<<>>, <<OpenFolder>>, <<Max(1), Progress(1)>>} :
             uiQueue' = uiQueue \o ss \o <<Finished>>
    BY <1>1, <1>8 DEF WorkerPosts, Stages
  <2>2. ss \in Seq(Signals) /\ \A k \in 1 .. Len(ss) : ss[k].kind \notin EndKinds
    <3>1. CASE ss = <<>>
      BY <3>1, LastSignals
    <3>2. CASE ss = <<OpenFolder>>
      BY <3>2, LastSignals, SignalKinds DEF EndKinds
    <3>3. CASE ss = <<Max(1), Progress(1)>>
      <4>1. Max(1).kind = "setMax" /\ Progress(1).kind = "progress"
        BY SignalKinds, MaxEntriesAssumption
      <4> QED
        BY <3>3, <4>1, LastSignals DEF EndKinds
    <3> QED
      BY <2>1, <3>1, <3>2, <3>3
  <2> DEFINE n == Len(uiQueue)
  <2> DEFINE m == Len(ss)
  <2>3. /\ n \in Nat /\ m \in Nat /\ Len(uiQueue') = n + m + 1
        /\ \A k \in 1 .. n : uiQueue'[k] = uiQueue[k]
        /\ \A k \in 1 .. m : uiQueue'[n + k] = ss[k]
        /\ uiQueue'[n + m + 1] = Finished
    BY <1>4, <2>1, <2>2, Ended
  <2>4. ASSUME NEW k \in 1 .. n + m
        PROVE  uiQueue'[k].kind \notin EndKinds
    <3>1. CASE k <= n
      BY <1>5, <2>3, <2>4, <3>1
    <3>2. CASE k > n
      <4>1. k - n \in 1 .. m /\ k = n + (k - n)
        BY <2>3, <2>4, <3>2
      <4>2. uiQueue'[k] = ss[k - n]
        BY <2>3, <4>1
      <4> QED
        BY <2>2, <4>1, <4>2
    <3> QED
      BY <2>3, <2>4, <3>1, <3>2
  <2>5. \A k \in 1 .. Len(uiQueue') :
          /\ uiQueue'[k].kind = "finished" => k = Len(uiQueue')
          /\ uiQueue'[k].kind # "threadFinished"
    <3> SUFFICES ASSUME NEW k \in 1 .. Len(uiQueue')
                 PROVE  /\ uiQueue'[k].kind = "finished" => k = Len(uiQueue')
                        /\ uiQueue'[k].kind # "threadFinished"
      OBVIOUS
    <3>1. CASE k \in 1 .. n + m
      BY <2>4, <3>1 DEF EndKinds
    <3>2. CASE k = n + m + 1
      BY <2>3, <3>2, SignalKinds
    <3> QED
      BY <2>3, <3>1, <3>2
  <2> HIDE DEF n, m
  <2> QED
    BY <1>2, <1>3, <1>8, <2>5 DEF Phases
<1> QED
  BY <1>1, <1>6, <1>7, <1>8 DEF WorkerPosts

\* A signal that is delivered keeps it.
LEMMA DeliverPhases ==
  ASSUME TypeOK, Phases, Deliver
  PROVE  Phases'
<1> DEFINE t == Tail(uiQueue)
<1>1. /\ uiQueue' = t /\ session = "up" /\ UNCHANGED <<pc, session>>
  BY DEF Deliver
<1>2. /\ Len(uiQueue) \in Nat /\ Len(uiQueue) >= 1 /\ Len(t) = Len(uiQueue) - 1
      /\ Head(uiQueue) = uiQueue[1] /\ Head(uiQueue) \in Signals
      /\ \A k \in 1 .. Len(t) : t[k] = uiQueue[k + 1]
      /\ Len(uiQueue) = 1 => t = <<>>
  BY Taken DEF Deliver, TypeOK
<1>3. ~enabled
  BY DEF Deliver, Phases
<1>4. \A k \in 1 .. Len(t) :
        /\ t[k].kind = "finished" => pc = "done" /\ thread = "running" /\ k = Len(t)
        /\ t[k].kind # "threadFinished"
  BY <1>2 DEF Phases
<1>5. CASE Head(uiQueue).kind = "finished" /\ QuitThread
  <2>1. pc = "done" /\ thread = "running" /\ Len(uiQueue) = 1
    <3>1. 1 \in 1 .. Len(uiQueue) /\ uiQueue[1].kind = "finished"
      BY <1>2, <1>5
    <3> QED
      BY <3>1 DEF Phases
  <2>2. uiQueue' = <<>> /\ Len(uiQueue') = 0
    BY <1>1, <1>2, <2>1
  <2>3. thread' = "quit" /\ ~enabled' /\ pc' = "done"
    BY <1>1, <1>3, <1>5, <2>1 DEF QuitThread
  <2>4. \A k \in 1 .. Len(uiQueue') : FALSE
    BY <2>2
  <2> QED
    BY <2>2, <2>3, <2>4 DEF Phases
<1>6. CASE Head(uiQueue).kind = "threadFinished" /\ EnableButtons
  <2>1. thread = "none" /\ Len(uiQueue) = 1
    BY <1>2, <1>6 DEF Phases
  <2>2. uiQueue' = <<>> /\ Len(uiQueue') = 0
    BY <1>1, <1>2, <2>1
  <2>3. thread' = "none" /\ (pc' = "idle" <=> thread' = "none")
    BY <1>1, <1>6, <2>1 DEF EnableButtons, Phases
  <2>4. \A k \in 1 .. Len(uiQueue') : FALSE
    BY <2>2
  <2> QED
    BY <1>1, <2>2, <2>3, <2>4 DEF Phases
<1>7. CASE UNCHANGED thread /\ UNCHANGED enabled
  <2>1. thread # "quit"
    BY DEF Deliver, Phases
  <2> QED
    BY <1>1, <1>3, <1>4, <1>7, <2>1 DEF Phases
<1> QED
  BY <1>5, <1>6, <1>7 DEF Deliver, SetMaximum, SetValue, OpenUrl

\* Every step keeps the order of the signals.
LEMMA PhasesInductive ==
  ASSUME TypeOK, Phases, Accounts, [Next]_vars
  PROVE  Phases'
<1>1. ASSUME uiQueue' = <<>>
      PROVE  \A k \in 1 .. Len(uiQueue') : FALSE
  BY <1>1, EmptySeq
<1>2. CASE Start
  BY <1>1, <1>2 DEF Start, Phases
<1>3. CASE AboutToQuit
  BY <1>1, <1>3 DEF AboutToQuit, Phases
<1>4. CASE Exit \/ Crash
  BY <1>1, <1>4 DEF Exit, Crash, ProcessGone, WorkerGone, Phases
<1>5. CASE StartWorker
  <2>1. uiQueue' = <<>> /\ pc' = "check" /\ thread' = "running" /\ ~enabled'
    BY <1>5 DEF StartWorker, NewJob, Phases
  <2> QED
    BY <1>1, <2>1 DEF Phases
<1>6. CASE PickFolder
  BY <1>6 DEF PickFolder, Phases
<1>7. CASE RunWorker
  BY <1>7, WorkerPhases
<1>8. CASE ThreadEnds
  <2>1. /\ uiQueue = <<>> /\ uiQueue' = <<ThreadFinished>> /\ Len(uiQueue') = 1
        /\ uiQueue'[1] = ThreadFinished
    BY <1>8 DEF ThreadEnds, Phases
  <2>2. \A k \in 1 .. Len(uiQueue') : uiQueue'[k].kind = "threadFinished"
    BY <2>1, SignalKinds
  <2>3. ~enabled' /\ thread' = "none" /\ pc' = "idle"
    BY <1>8 DEF ThreadEnds, WorkerGone, Phases
  <2> QED
    BY <2>1, <2>2, <2>3 DEF Phases
<1>9. CASE Deliver
  BY <1>9, DeliverPhases
<1>10. CASE UNCHANGED vars
  BY <1>10 DEF vars, workerVars, guiVars, Phases
<1> QED
  BY <1>2, <1>3, <1>4, <1>5, <1>6, <1>7, <1>8, <1>9, <1>10 DEF Next

(***************************************************************************)
(* The accounts.                                                            *)
(***************************************************************************)
\* A step that touches neither the stage, the job nor the files keeps them.
LEMMA AccountsKept ==
  ASSUME Accounts, UNCHANGED pc, UNCHANGED jobVars, UNCHANGED fileVars, UNCHANGED cpMine
  PROVE  Accounts'
BY DEF Accounts, Untouched, Unwritten, Ours, EntriesAccounted, Resolved, Whole, LostUnseen,
   jobVars, fileVars

\* So does one that leaves no job in work.
LEMMA AccountsEnded ==
  ASSUME pc' \in {"idle", "done"}, folder' # "full" => Untouched'
  PROVE  Accounts'
BY DEF Accounts, EntriesAccounted, LoopStages

\* A job that has recorded nothing yet, in a stage before the loop.
LEMMA AccountsEmpty ==
  ASSUME Accounts,
         pc \in {"check", "open", "guard", "unpack"},
         pc' \in {"check", "open", "guard", "unpack"},
         UNCHANGED <<failed, errors, skipped, aborted, nonFiles, cpMine>>,
         UNCHANGED fileVars,
         pc' = "unpack" => folder # "full" \/ blind'
  PROVE  Accounts'
BY DEF Accounts, Untouched, Unwritten, Ours, EntriesAccounted, LoopStages, fileVars

\* What ExtractFiles does to the disk: nothing, or the entry's own path is written.
Filed == UNCHANGED fileVars \/ \E what \in {"partial", "cut", "whole"} : Leaves(what)

\* In preflight and in write, the entry in work is one of the entries, none from
\* it on has been written, and no report names it.
LEMMA EntryInWork ==
  ASSUME TypeOK, Accounts, pc \in {"preflight", "write"}
  PROVE  /\ index \in Entries /\ index \notin errors /\ index \in Nat
         /\ FileTypes /\ place \in [Entries -> Entries] /\ failed \in Nat
         /\ \A f \in Entries : by[f] < index
         /\ \A i \in Entries : i < index => Resolved(i)
<1>1. index \in Entries /\ index \notin errors /\ index \in Nat /\ failed \in Nat
  BY MaxEntriesAssumption DEF TypeOK, Accounts, LoopStages, Entries
<1>2. FileTypes /\ place \in [Entries -> Entries]
  BY DEF TypeOK, FileTypes
<1>3. /\ \A f \in Entries : by[f] < index
      /\ \A i \in Entries : i < index => Resolved(i)
  BY DEF Accounts, EntriesAccounted, LoopStages
<1> QED
  BY <1>1, <1>2, <1>3

\* What was resolved before the entry in work stays so: a file that the entry
\* writes over is lost to a later entry.
LEMMA StaysResolved ==
  ASSUME TypeOK, Accounts, pc \in {"preflight", "write"}, Filed, UNCHANGED place,
         errors \subseteq errors', nonFiles \subseteq nonFiles',
         NEW i \in Entries, i < index, Resolved(i)
  PROVE  Resolved(i)'
<1>1. index \in Entries /\ index \in Nat /\ FileTypes /\ place \in [Entries -> Entries]
  BY EntryInWork
<1>2. CASE UNCHANGED fileVars
  BY <1>2 DEF Resolved, Whole, LostUnseen, fileVars
<1>3. CASE \E what \in {"partial", "cut", "whole"} : Leaves(what)
  <2>1. PICK what \in {"partial", "cut", "whole"} : Leaves(what)
    BY <1>3
  <2>2. /\ place[index] \in Entries /\ by'[place[index]] = index
        /\ \A f \in Entries : f # place[index] => out'[f] = out[f] /\ by'[f] = by[f]
    BY <1>1, <2>1, LeavesAtPlace
  <2>3. CASE place[i] = place[index]
    BY <2>2, <2>3 DEF Resolved, LostUnseen
  <2>4. CASE place[i] # place[index]
    <3>1. place[i] \in Entries
      BY <1>1
    <3>2. out'[place[i]] = out[place[i]] /\ by'[place[i]] = by[place[i]]
      BY <2>2, <2>4, <3>1
    <3> QED
      BY <3>2 DEF Resolved, Whole, LostUnseen
  <2> QED
    BY <2>3, <2>4
<1> QED
  BY <1>2, <1>3 DEF Filed

\* Only the entry in work has been written since, and only in a folder that is
\* full then.
LEMMA OnlyEntryFiled ==
  ASSUME TypeOK, Accounts, pc \in {"preflight", "write"}, Filed
  PROVE  /\ \A f \in Entries : by'[f] \in {by[f], index}
         /\ Ours => Ours'
         /\ folder' # "full" => Untouched'
<1>1. index \in Entries /\ index \in Nat /\ FileTypes /\ place \in [Entries -> Entries]
  BY EntryInWork
<1>2. CASE UNCHANGED fileVars
  BY <1>2 DEF Ours, Accounts, Untouched, fileVars
<1>3. CASE \E what \in {"partial", "cut", "whole"} : Leaves(what)
  <2>1. PICK what \in {"partial", "cut", "whole"} : Leaves(what)
    BY <1>3
  <2>2. /\ place[index] \in Entries /\ by'[place[index]] = index
        /\ \A f \in Entries : f # place[index] => out'[f] = out[f] /\ by'[f] = by[f]
        /\ folder' = "full"
    BY <1>1, <2>1, LeavesAtPlace
  <2>3. index # Nobody
    BY <1>1 DEF Nobody
  <2> QED
    BY <2>2, <2>3 DEF Ours
<1> QED
  BY <1>2, <1>3 DEF Filed

\* The entry in work becomes resolved, and the loop goes on.
LEMMA EntryDone ==
  ASSUME TypeOK, Accounts, pc \in {"preflight", "write"},
         pc' = "head", index' = index + 1, Filed,
         UNCHANGED <<salvage, previewOnly, total, aborted, place, blind>>,
         errors' \in {errors, errors \cup {index}},
         nonFiles' \in {nonFiles, nonFiles \cup {index}},
         \/ \E what \in {"whole", "cut"} : Leaves(what)
         \/ index \in nonFiles' \/ index \in errors',
         failed' = failed + (IF errors' = errors THEN 0 ELSE 1),
         skipped \subseteq skipped', skipped' \subseteq skipped \cup {index},
         skipped' # skipped => salvage /\ index \in errors'
  PROVE  Accounts'
<1> USE DEF LoopStages
<1>1. /\ index \in Entries /\ index \in Nat /\ total \in Nat /\ index < total
      /\ errors \subseteq Entries /\ FileTypes /\ place \in [Entries -> Entries]
  BY EntryInWork, MaxEntriesAssumption DEF TypeOK, Accounts
<1>2. /\ ~aborted /\ ~previewOnly
      /\ \A i \in Entries : i >= index => i \notin errors
      /\ failed = Cardinality(errors)
      /\ skipped \subseteq errors /\ (skipped # {} => salvage)
      /\ \A i \in Entries : i < index => Resolved(i)
      /\ \A f \in Entries : by[f] < index
      /\ blind \/ Ours
  BY DEF Accounts, EntriesAccounted
<1>3. /\ folder' # "full" => Untouched'
      /\ Ours => Ours'
      /\ \A f \in Entries : by'[f] \in {by[f], index}
  BY OnlyEntryFiled
<1>4. failed' = Cardinality(errors')
  <2>1. CASE errors' = errors
    <3>1. failed \in Nat
      BY MaxEntriesAssumption DEF TypeOK
    <3> QED
      BY <1>2, <2>1, <3>1
  <2>2. CASE errors' # errors
    <3>1. errors' = errors \cup {index} /\ index \notin errors /\ failed' = failed + 1
      BY <1>1, <1>2, <2>2
    <3> QED
      BY <1>1, <1>2, <3>1, OneMoreError
  <2> QED
    BY <2>1, <2>2
<1>5. skipped' \subseteq errors' /\ (skipped' # {} => salvage')
  BY <1>2
<1>6. ASSUME NEW i \in Entries, i < index'
      PROVE  Resolved(i)'
  <2>1. CASE i = index
    <3>1. CASE index \in nonFiles' \/ index \in errors'
      BY <2>1, <3>1 DEF Resolved
    <3>2. CASE \E what \in {"whole", "cut"} : Leaves(what)
      <4>1. PICK what \in {"whole", "cut"} : Leaves(what)
        BY <3>2
      <4>2. out'[place[index]] = what /\ by'[place[index]] = index
        BY <1>1, <4>1, LeavesAtPlace
      <4> QED
        BY <2>1, <4>1, <4>2 DEF Resolved, Whole, LostUnseen
    <3> QED
      BY <3>1, <3>2
  <2>2. CASE i # index
    <3>1. i < index
      BY <1>1, <1>6, <2>2 DEF Entries
    <3>2. Resolved(i)
      BY <1>2, <3>1
    <3> QED
      BY <3>1, <3>2, StaysResolved
  <2> QED
    BY <2>1, <2>2
<1>7. ASSUME NEW i \in Entries, i >= index'
      PROVE  i \notin errors'
  <2>1. i >= index /\ i # index
    BY <1>1, <1>7 DEF Entries
  <2> QED
    BY <1>2, <2>1
<1>8. ASSUME NEW i \in Entries
      PROVE  (i > index' => i >= index') /\ by'[i] < index'
  <2>1. by[i] < index /\ by'[i] \in {by[i], index} /\ by[i] \in Int
    BY <1>1, <1>2, <1>3 DEF FileTypes, Entries, Nobody
  <2> QED
    BY <1>1, <2>1 DEF Entries
<1>9. ~aborted' /\ ~previewOnly' /\ index' <= total'
  BY <1>1, <1>2
<1>10. EntriesAccounted'
  BY <1>4, <1>5, <1>6, <1>7, <1>8, <1>9 DEF EntriesAccounted
<1> QED
  BY <1>2, <1>3, <1>7, <1>9, <1>10 DEF Accounts

\* Each stage of the worker keeps them.
LEMMA WorkerAccounts ==
  ASSUME TypeOK, Accounts, WorkerStep
  PROVE  Accounts'
<1> USE DEF FinishWith
<1>0. folder # "full" => Untouched
  BY DEF Accounts
<1>a. ASSUME pc' = "done", UNCHANGED out, folder' = folder \/ folder' = "full"
             \/ folder' \in FolderAfterUnpack(folder)
      PROVE  Accounts'
  <2>1. folder' # "full" => Untouched'
    BY <1>0, <1>a DEF FolderAfterUnpack, Untouched
  <2> QED
    BY <1>a, <2>1, AccountsEnded
<1>1. CASE Check
  <2>1. CASE pc' = "done"
    BY <1>1, <1>a, <2>1 DEF Check, diskVars, fileVars
  <2>2. CASE pc' = "open"
    BY <1>1, <2>2, AccountsEmpty DEF Check, jobVars, diskVars, progressVars
  <2> QED
    BY <1>1, <2>1, <2>2 DEF Check
<1>2. CASE OpenAttempt
  <2>1. CASE pc' = "done"
    BY <1>2, <1>a, <2>1 DEF OpenAttempt, diskVars, fileVars
  <2>2. CASE pc' \in {"open", "guard"}
    BY <1>2, <2>2, AccountsEmpty DEF OpenAttempt, diskVars, progressVars
  <2> QED
    BY <1>2, <2>1, <2>2 DEF OpenAttempt
<1>3. CASE Guard
  <2>1. CASE pc' = "done"
    BY <1>3, <1>a, <2>1 DEF Guard, fileVars
  <2>2. CASE pc' = "unpack" /\ blind' = (folder = "full")
    BY <1>3, <2>2, AccountsEmpty DEF Guard, progressVars
  <2> QED
    BY <1>3, <2>1, <2>2 DEF Guard
<1>4. CASE UnpackFails
  BY <1>4, <1>a DEF UnpackFails
<1>5. CASE PreviewDone
  BY <1>5, <1>a DEF PreviewDone
<1>6. CASE UnpackDone
  <2>1. /\ errors' = {} /\ skipped' = {} /\ nonFiles' = {} /\ failed' = 0 /\ ~aborted'
        /\ ~previewOnly' /\ pc' = "head" /\ index' = 0 /\ total' \in 0 .. MaxEntries
        /\ UNCHANGED <<out, by, blind>> /\ Unwritten
        /\ folder' \in FolderAfterUnpack(folder)
    BY <1>6 DEF UnpackDone, Accounts
  <2>2. blind' \/ Ours'
    BY <1>6, <2>1 DEF UnpackDone, Accounts, Ours
  <2>3. folder' # "full" => Untouched'
    BY <1>0, <2>1 DEF Untouched, FolderAfterUnpack
  <2>4. Cardinality(errors') = 0
    BY <2>1, FS_EmptySet
  <2>5. \A i \in Entries : by'[i] < index' /\ ~(i < index')
    BY <2>1 DEF Unwritten, Nobody, Entries
  <2>6. EntriesAccounted'
    BY <2>1, <2>4, <2>5 DEF EntriesAccounted
  <2> QED
    BY <2>1, <2>2, <2>3, <2>6, MaxEntriesAssumption DEF Accounts, LoopStages
<1>7. CASE LoopHead
  <2>1. /\ pc = "head" /\ UNCHANGED <<jobVars, fileVars>>
        /\ \/ index < total /\ pc' \in {"truncated", "preflight"}
           \/ index = total /\ pc' = "report"
    BY <1>7 DEF LoopHead
  <2> QED
    BY <2>1 DEF Accounts, Untouched, Ours, EntriesAccounted, Resolved, Whole, LostUnseen,
       LoopStages, jobVars, fileVars
<1>8. CASE WriteCheckpoint
  BY <1>8 DEF WriteCheckpoint, Accounts, Untouched, Ours, EntriesAccounted, Resolved, Whole,
     LostUnseen, LoopStages, jobVars, fileVars
<1>9. CASE PreflightFails
  <2>0. Filed
    BY <1>9 DEF PreflightFails, Filed, diskVars
  <2>1. CASE salvage
    <3>1. /\ pc = "preflight" /\ pc' = "head" /\ index' = index + 1
          /\ errors' = errors \cup {index} /\ failed' = failed + 1
          /\ skipped' = skipped \cup {index}
          /\ UNCHANGED <<salvage, previewOnly, total, aborted, nonFiles, place, blind>>
      BY <1>9, <2>1 DEF PreflightFails, RecordFailure
    <3>2. index \notin errors
      BY <3>1, EntryInWork
    <3>3. failed' = failed + (IF errors' = errors THEN 0 ELSE 1)
      BY <3>1, <3>2
    <3>4. skipped \subseteq skipped' /\ skipped' \subseteq skipped \cup {index}
      BY <3>1
    <3>5. index \in errors' /\ errors' \in {errors, errors \cup {index}}
      BY <3>1
    <3> QED
      BY <2>0, <2>1, <3>1, <3>3, <3>4, <3>5, EntryDone
  <2>2. CASE ~salvage
    <3>1. /\ errors' = errors \cup {index} /\ failed' = failed + 1
          /\ aborted' = TRUE /\ ~salvage' /\ pc' = "report" /\ pc = "preflight"
          /\ UNCHANGED <<skipped, index, previewOnly, total, nonFiles, place>>
          /\ UNCHANGED fileVars
      BY <1>9, <2>2 DEF PreflightFails, RecordFailure, diskVars
    <3>2. /\ index \in Entries /\ errors \in SUBSET Entries /\ index \notin errors
          /\ index <= total /\ ~previewOnly
      BY <3>1, MaxEntriesAssumption DEF TypeOK, Accounts, LoopStages, Entries
    <3>3. failed' = Cardinality(errors')
      BY <3>1, <3>2, OneMoreError DEF Accounts, EntriesAccounted, LoopStages
    <3>4. EntriesAccounted
      BY DEF Accounts
    <3>5. /\ \A i \in Entries : i < index => Resolved(i)
          /\ \A i \in Entries : by[i] < index /\ (i > index => i \notin errors)
          /\ skipped \subseteq errors /\ skipped = {}
      BY <3>1, <2>2, <3>4 DEF EntriesAccounted, LoopStages
    <3>6. \A i \in Entries : (Resolved(i) => Resolved(i)') /\ by'[i] = by[i]
      BY <3>1 DEF Resolved, Whole, LostUnseen, fileVars
    <3>7. \A i \in Entries : i > index => i # index
      BY <3>2 DEF Entries
    <3>8. EntriesAccounted'
      BY <3>1, <3>3, <3>5, <3>6, <3>7 DEF EntriesAccounted
    <3>9. folder' # "full" => Untouched'
      BY <1>0, <3>1 DEF Untouched, fileVars
    <3> QED
      BY <3>1, <3>2, <3>8, <3>9 DEF Accounts, LoopStages
  <2> QED
    BY <2>1, <2>2 DEF TypeOK
<1>10. CASE PreflightPasses
  BY <1>10 DEF PreflightPasses, Accounts, Untouched, Ours, EntriesAccounted, Resolved, Whole,
     LostUnseen, LoopStages, jobVars, diskVars, fileVars
<1>11. CASE EntryWritten
  <2>1. /\ pc = "write" /\ pc' = "head" /\ index' = index + 1
        /\ UNCHANGED <<salvage, previewOnly, total, failed, errors, skipped, aborted,
                       place, blind>>
    BY <1>11 DEF EntryWritten
  <2>2. failed \in Nat
    BY <2>1, EntryInWork
  <2>3. /\ Filed
        /\ (\E what \in {"whole", "cut"} : Leaves(what)) \/ index \in nonFiles'
        /\ nonFiles' \in {nonFiles, nonFiles \cup {index}}
    BY <1>11 DEF EntryWritten, Filed
  <2>4. failed' = failed + (IF errors' = errors THEN 0 ELSE 1)
    BY <2>1, <2>2
  <2> QED
    BY <2>1, <2>3, <2>4, EntryDone
<1>12. CASE EntryThrows
  <2>1. /\ pc = "write" /\ pc' = "head" /\ index' = index + 1
        /\ errors' = errors \cup {index} /\ failed' = failed + 1
        /\ UNCHANGED <<salvage, previewOnly, total, skipped, aborted, nonFiles, place, blind>>
    BY <1>12 DEF EntryThrows, RecordFailure
  <2>2. index \notin errors
    BY <2>1, EntryInWork
  <2>3. Filed
    BY <1>12 DEF EntryThrows, Filed
  <2>4. failed' = failed + (IF errors' = errors THEN 0 ELSE 1)
    BY <2>1, <2>2
  <2>5. index \in errors' /\ errors' \in {errors, errors \cup {index}}
    BY <2>1
  <2> QED
    BY <2>1, <2>3, <2>4, <2>5, EntryDone
<1>13. CASE Report
  <2>1. /\ pc = "report" /\ pc' = "finish" /\ UNCHANGED jobVars /\ UNCHANGED <<out, by>>
        /\ folder' \in {folder, "full"}
    BY <1>13 DEF Report
  <2> QED
    BY <2>1 DEF Accounts, Untouched, EntriesAccounted, Resolved, Whole, LostUnseen,
       LoopStages, jobVars
<1>14. CASE Finish
  BY <1>14, <1>a DEF Finish, fileVars
<1>15. CASE Fatal
  BY <1>15, <1>a DEF Fatal, diskVars, fileVars
<1> QED
  BY <1>1, <1>2, <1>3, <1>4, <1>5, <1>6, <1>7, <1>8, <1>9, <1>10,
     <1>11, <1>12, <1>13, <1>14, <1>15 DEF WorkerStep

\* Every step keeps the accounts.
LEMMA AccountsInductive ==
  ASSUME TypeOK, Phases, Accounts, [Next]_vars
  PROVE  Accounts'
<1>0. folder # "full" => Untouched
  BY DEF Accounts
<1>1. CASE Start \/ ThreadEnds
  <2>1. pc' = "idle" /\ UNCHANGED fileVars
    BY <1>1 DEF Start, ThreadEnds, WorkerGone, diskVars
  <2>2. folder' # "full" => Untouched'
    BY <1>0, <2>1 DEF Untouched, fileVars
  <2> QED
    BY <2>1, <2>2, AccountsEnded
<1>2. CASE AboutToQuit \/ Deliver
  BY <1>2, AccountsKept DEF AboutToQuit, Deliver, diskVars, progressVars
<1>3. CASE StartWorker
  <2>1. /\ pc' = "check" /\ errors' = {} /\ skipped' = {} /\ nonFiles' = {} /\ failed' = 0
        /\ ~aborted' /\ ~cpMine' /\ UNCHANGED <<out, folder>>
        /\ by' = [i \in Entries |-> Nobody]
    BY <1>3 DEF StartWorker, NewJob
  <2>2. Unwritten' /\ (folder' # "full" => Untouched')
    BY <1>0, <2>1 DEF Unwritten, Untouched
  <2> QED
    BY <2>1, <2>2 DEF Accounts, EntriesAccounted, LoopStages
<1>4. CASE PickFolder
  BY <1>4, AccountsEnded DEF PickFolder, Phases, Untouched
<1>5. CASE RunWorker
  BY <1>5, WorkerAccounts DEF RunWorker
<1>6. CASE UNCHANGED vars
  BY <1>6, AccountsKept DEF vars, workerVars, diskVars, progressVars
<1>7. CASE Exit \/ Crash
  <2>1. ProcessGone
    BY <1>7 DEF Exit, Crash
  <2>2. folder' # "full" => Untouched'
    <3>1. CASE UNCHANGED fileVars
      BY <1>0, <3>1 DEF Untouched, fileVars
    <3>2. CASE Leaves("partial")
      BY <3>2 DEF Leaves
    <3> QED
      BY <2>1, <3>1, <3>2 DEF ProcessGone
  <2> QED
    BY <2>1, <2>2, AccountsEnded DEF ProcessGone, WorkerGone
<1> QED
  BY <1>1, <1>2, <1>3, <1>4, <1>5, <1>6, <1>7 DEF Next

(***************************************************************************)
(* The progress file.                                                       *)
(***************************************************************************)
\* A step that touches neither the job nor the disk keeps what the file says.
LEMMA CheckpointsKept ==
  ASSUME Checkpoints, UNCHANGED <<index, errors, nonFiles, place>>, UNCHANGED <<out, by>>,
         UNCHANGED progressVars,
         pc' \in LoopStages => pc \in LoopStages,
         pc' \in {"preflight", "write"} => pc \in {"preflight", "write"}
  PROVE  Checkpoints'
BY DEF Checkpoints, CheckpointBracketsWork, Resolved, Whole, LostUnseen, progressVars

\* Where a job ends, the progress file is removed, or stays as it is.
LEMMA CheckpointsEnded ==
  ASSUME Checkpoints, pc' \notin LoopStages,
         UNCHANGED <<errors, nonFiles, place, out, by, cpMine, cpLate>>,
         checkpoint' \in {checkpoint, NoFile}
  PROVE  Checkpoints'
BY DEF Checkpoints, CheckpointBracketsWork, Resolved, Whole, LostUnseen, NoFile, LoopStages

\* What the file says is true also after the entry in work was written or left.
LEMMA CheckpointsAtEntry ==
  ASSUME TypeOK, Accounts, Checkpoints, pc \in {"preflight", "write"},
         pc' \notin {"preflight", "write"}, pc' \in LoopStages => index' = index + 1,
         Filed, UNCHANGED place, errors \subseteq errors', nonFiles \subseteq nonFiles',
         UNCHANGED progressVars
  PROVE  Checkpoints'
<1>1. /\ index \in Entries /\ index \in Nat /\ FileTypes /\ checkpoint \in Int
      /\ UNCHANGED <<checkpoint, cpMine, cpLate>> /\ pc \in LoopStages
  BY EntryInWork, MaxEntriesAssumption DEF TypeOK, progressVars, LoopStages
<1>2. pc' \in LoopStages /\ cpMine' => checkpoint' <= index' + 1
  BY <1>1 DEF Checkpoints
<1>3. ASSUME cpMine, checkpoint > 0, NEW i \in Entries
      PROVE  /\ i < checkpoint - 1 => Resolved(i)'
             /\ ~cpLate => by'[i] < checkpoint
  <2>1. checkpoint <= index + 1 /\ (~cpLate => checkpoint = index + 1)
    BY <1>1, <1>3 DEF Checkpoints
  <2>2. ASSUME i < checkpoint - 1
        PROVE  Resolved(i)'
    <3>1. i < index
      BY <1>1, <2>1, <2>2 DEF Entries
    <3>2. Resolved(i)
      BY <1>3, <2>2 DEF Checkpoints, CheckpointBracketsWork
    <3> QED
      BY <3>1, <3>2, StaysResolved
  <2>3. ASSUME ~cpLate
        PROVE  by'[i] < checkpoint
    <3>1. by'[i] \in {by[i], index} /\ by[i] < index /\ by[i] \in Int
      BY <1>1, OnlyEntryFiled, EntryInWork DEF FileTypes, Entries, Nobody
    <3> QED
      BY <1>1, <2>1, <2>3, <3>1
  <2> QED
    BY <2>2, <2>3
<1> QED
  BY <1>1, <1>2, <1>3 DEF Checkpoints, CheckpointBracketsWork

\* A step of the worker keeps what the progress file says.
LEMMA WorkerCheckpoints ==
  ASSUME TypeOK, Accounts, Checkpoints, WorkerStep
  PROVE  Checkpoints'
<1> USE DEF FinishWith
<1>1. CASE Check \/ OpenAttempt \/ Guard \/ Fatal
  <2>1. /\ UNCHANGED <<index, errors, nonFiles, place>> /\ UNCHANGED <<out, by>>
        /\ UNCHANGED progressVars /\ pc' \notin LoopStages
    BY <1>1 DEF Check, OpenAttempt, Guard, Fatal, jobVars, diskVars, fileVars, LoopStages
  <2> QED
    BY <2>1, CheckpointsKept DEF LoopStages
<1>2. CASE UnpackFails \/ PreviewDone \/ Report \/ Finish
  <2>1. pc' \notin LoopStages
    BY <1>2 DEF UnpackFails, PreviewDone, Report, Finish, LoopStages
  <2>2. /\ UNCHANGED <<errors, nonFiles, place, out, by, cpMine, cpLate>>
        /\ checkpoint' \in {checkpoint, NoFile}
    BY <1>2 DEF UnpackFails, PreviewDone, Report, Finish, ClearProgressCheckpoint,
       jobVars, diskVars, fileVars, progressVars
  <2> QED
    BY <2>1, <2>2, CheckpointsEnded
<1>3. CASE UnpackDone
  <2>1. ~cpMine' /\ pc' = "head"
    BY <1>3 DEF UnpackDone, Accounts, progressVars
  <2> QED
    BY <2>1 DEF Checkpoints, CheckpointBracketsWork
<1>4. CASE LoopHead
  <2>1. UNCHANGED <<index, errors, nonFiles, place>> /\ UNCHANGED <<out, by>> /\ pc = "head"
    BY <1>4 DEF LoopHead, jobVars, fileVars
  <2>2. CASE checkpoint' = Truncated /\ pc' = "truncated"
    <3>1. ~(checkpoint' > 0) /\ checkpoint' <= index' + 1
      BY <2>1, <2>2, MaxEntriesAssumption DEF Truncated, TypeOK
    <3> QED
      BY <2>2, <3>1 DEF Checkpoints, CheckpointBracketsWork
  <2>3. CASE cpLate' = TRUE /\ UNCHANGED <<checkpoint, cpMine>> /\ pc' = "preflight"
    BY <2>1, <2>3 DEF Checkpoints, CheckpointBracketsWork, Resolved, Whole, LostUnseen,
       LoopStages
  <2>4. CASE UNCHANGED progressVars /\ pc' = "report"
    BY <2>1, <2>4, CheckpointsKept DEF LoopStages
  <2> QED
    BY <1>4, <2>2, <2>3, <2>4 DEF LoopHead
<1>5. CASE WriteCheckpoint
  <2>1. /\ index \in Nat /\ pc = "truncated" /\ pc' = "preflight"
        /\ UNCHANGED <<index, errors, nonFiles, place, out, by, cpMine, cpLate>>
    BY <1>5, MaxEntriesAssumption DEF WriteCheckpoint, jobVars, fileVars, TypeOK
  <2>2. CASE checkpoint' = Truncated
    <3>1. ~(checkpoint' > 0) /\ checkpoint' <= index' + 1
      BY <2>1, <2>2 DEF Truncated
    <3> QED
      BY <2>1, <3>1 DEF Checkpoints, CheckpointBracketsWork
  <2>3. CASE checkpoint' = index + 1
    <3>1. \A i \in Entries : (i < index => Resolved(i)) /\ by[i] < index
      BY <2>1 DEF Accounts, EntriesAccounted, LoopStages
    <3>2. \A i \in Entries : Resolved(i) => Resolved(i)'
      BY <2>1 DEF Resolved, Whole, LostUnseen
    <3>3. ASSUME NEW i \in Entries
          PROVE  (i < checkpoint' - 1 => i < index) /\ by'[i] < checkpoint'
      <4>1. by[i] \in Int /\ by[i] < index
        BY <3>1 DEF TypeOK, Entries, Nobody
      <4> QED
        BY <2>1, <2>3, <4>1 DEF Entries
    <3> QED
      BY <2>1, <2>3, <3>1, <3>2, <3>3 DEF Checkpoints, CheckpointBracketsWork
  <2> QED
    BY <1>5, <2>2, <2>3 DEF WriteCheckpoint
<1>6. CASE PreflightPasses
  <2>1. /\ UNCHANGED <<index, errors, nonFiles, place>> /\ UNCHANGED <<out, by>>
        /\ UNCHANGED progressVars /\ pc = "preflight"
    BY <1>6 DEF PreflightPasses, jobVars, diskVars, fileVars
  <2> QED
    BY <2>1, CheckpointsKept DEF LoopStages
<1>7. CASE PreflightFails \/ EntryWritten \/ EntryThrows
  <2>1. pc \in {"preflight", "write"} /\ pc' \in {"head", "report"}
    BY <1>7 DEF PreflightFails, EntryWritten, EntryThrows
  <2>2. /\ pc' \in LoopStages => index' = index + 1
        /\ errors \subseteq errors' /\ nonFiles \subseteq nonFiles'
        /\ UNCHANGED place /\ UNCHANGED progressVars
    BY <1>7 DEF PreflightFails, EntryWritten, EntryThrows, RecordFailure, diskVars, LoopStages
  <2>3. Filed
    BY <1>7 DEF PreflightFails, EntryWritten, EntryThrows, Filed, diskVars
  <2>4. pc' \notin {"preflight", "write"}
    BY <2>1
  <2> QED
    BY <2>1, <2>2, <2>3, <2>4, CheckpointsAtEntry
<1> QED
  BY <1>1, <1>2, <1>3, <1>4, <1>5, <1>6, <1>7 DEF WorkerStep

\* A process that goes away leaves the file, and the entry in work as it was or begun.
LEMMA CheckpointsGone ==
  ASSUME TypeOK, Accounts, Checkpoints, ProcessGone
  PROVE  Checkpoints'
<1>1. /\ pc' = "idle" /\ UNCHANGED <<errors, nonFiles, place>>
      /\ UNCHANGED progressVars
  BY DEF ProcessGone, WorkerGone
<1>2. CASE UNCHANGED fileVars
  <2>1. UNCHANGED <<errors, nonFiles, place, out, by, cpMine, cpLate, checkpoint>>
    BY <1>1, <1>2 DEF fileVars, progressVars
  <2> QED
    BY <1>1, <2>1, CheckpointsEnded DEF LoopStages
<1>3. CASE pc = "write" /\ Leaves("partial")
  <2>1. Filed
    BY <1>3 DEF Filed
  <2> QED
    BY <1>1, <1>3, <2>1, CheckpointsAtEntry DEF LoopStages
<1> QED
  BY <1>2, <1>3 DEF ProcessGone

\* Every step keeps it.
LEMMA CheckpointsInductive ==
  ASSUME TypeOK, Phases, Accounts, Checkpoints, [Next]_vars
  PROVE  Checkpoints'
<1>1. CASE Start \/ ThreadEnds
  <2>1. /\ pc' = "idle"
        /\ UNCHANGED <<errors, nonFiles, place, out, by, cpMine, cpLate, checkpoint>>
    BY <1>1 DEF Start, ThreadEnds, WorkerGone, jobVars, diskVars, fileVars, progressVars
  <2> QED
    BY <2>1, CheckpointsEnded DEF LoopStages
<1>2. CASE AboutToQuit \/ Deliver \/ UNCHANGED vars
  <2>1. /\ UNCHANGED <<index, errors, nonFiles, place>> /\ UNCHANGED <<out, by>>
        /\ UNCHANGED progressVars /\ UNCHANGED pc
    BY <1>2 DEF AboutToQuit, Deliver, vars, workerVars, jobVars, diskVars, fileVars
  <2> QED
    BY <2>1, CheckpointsKept
<1>3. CASE Exit \/ Crash
  BY <1>3, CheckpointsGone DEF Exit, Crash
<1>4. CASE StartWorker \/ PickFolder
  <2>1. cpMine' = FALSE
    BY <1>4 DEF StartWorker, NewJob, PickFolder
  <2>2. pc' \notin {"preflight", "write"}
    BY <1>4 DEF StartWorker, NewJob, PickFolder, Phases
  <2> QED
    BY <2>1, <2>2 DEF Checkpoints, CheckpointBracketsWork
<1>5. CASE RunWorker
  BY <1>5, WorkerCheckpoints DEF RunWorker
<1> QED
  BY <1>1, <1>2, <1>3, <1>4, <1>5 DEF Next

(***************************************************************************)
(* The folder that is shown.                                                *)
(***************************************************************************)
\* The queue asks to show the folder.
Asked == \E k \in 1 .. Len(uiQueue) : uiQueue[k] = OpenFolder

\* What a folder must be to be shown.
FolderResolved ==
  /\ ~previewOnly /\ errors = {}
  /\ \A i \in 0 .. total - 1 : Resolved(i)

\* A queue of signals asks exactly when one of its positions does.
LEMMA ShownMeans ==
  ASSUME uiQueue \in Seq(Signals)
  PROVE  ShownFolderHidesNoFailure <=> (opened \/ Asked => FolderResolved)
<1>1. DOMAIN uiQueue = 1 .. Len(uiQueue)
  BY LenProperties
<1> QED
  BY <1>1 DEF ShownFolderHidesNoFailure, Asked, FolderResolved

\* The same of the queue after a step.
LEMMA ShownMeansNext ==
  ASSUME (uiQueue \in Seq(Signals))'
  PROVE  ShownFolderHidesNoFailure' <=> (opened' \/ Asked' => FolderResolved')
<1>1. DOMAIN uiQueue' = 1 .. Len(uiQueue')
  BY LenProperties
<1> QED
  BY <1>1 DEF ShownFolderHidesNoFailure, Asked, FolderResolved

\* A step that asks for nothing new and leaves no job in work keeps it.
LEMMA ShownKept ==
  ASSUME TypeOK, TypeOK', Shown,
         opened' \/ Asked' => opened \/ Asked,
         UNCHANGED <<previewOnly, errors, total, place, out, by, nonFiles>>,
         pc' \in Stages => ~opened' /\ ~Asked'
  PROVE  Shown'
<1>1. opened \/ Asked => FolderResolved
  BY ShownMeans DEF Shown, TypeOK
<1>2. opened' \/ Asked' => FolderResolved'
  BY <1>1 DEF FolderResolved, Resolved, Whole, LostUnseen
<1>3. ShownFolderHidesNoFailure'
  BY <1>2, ShownMeansNext DEF TypeOK
<1> QED
  BY <1>3 DEF Shown, Asked

\* A step after which the folder is not shown, nor asked for, keeps it.
LEMMA ShownNot ==
  ASSUME TypeOK', ~opened', ~Asked'
  PROVE  Shown'
<1>1. ShownFolderHidesNoFailure'
  BY ShownMeansNext DEF TypeOK
<1> QED
  BY <1>1 DEF Shown, Asked

\* An empty queue asks for nothing.
LEMMA EmptyQueue ==
  ASSUME uiQueue' = <<>>
  PROVE  ~Asked'
<1>1. Len(uiQueue') = 0
  BY EmptySeq
<1> QED
  BY <1>1 DEF Asked

\* The worker asks to show the folder only when nothing failed and all is resolved.
LEMMA WorkerShown ==
  ASSUME TypeOK, TypeOK', Accounts, Shown, RunWorker
  PROVE  Shown'
<1>1. pc \in Stages /\ WorkerPosts
  BY WorkerSignals DEF RunWorker
<1>2. UNCHANGED opened /\ ~opened /\ ~Asked
  BY <1>1 DEF RunWorker, guiVars, Shown, Asked
<1>3. uiQueue \in Seq(Signals)
  BY DEF TypeOK
<1>4. CASE UNCHANGED uiQueue
  BY <1>2, <1>4, ShownNot DEF Asked
<1>5. CASE \E s \in Signals :
             s.kind \in {"setMax", "progress"} /\ uiQueue' = Append(uiQueue, s)
  <2>1. PICK s \in Signals :
               s.kind \in {"setMax", "progress"} /\ uiQueue' = Append(uiQueue, s)
    BY <1>5
  <2>2. s # OpenFolder
    BY <2>1, SignalKinds
  <2>3. ~Asked'
    BY <1>2, <1>3, <2>1, <2>2, Posted DEF Asked
  <2> QED
    BY <1>2, <2>3, ShownNot
<1>6. CASE pc' = "done"
  <2>1. PICK ss \in {<<>>, <<OpenFolder>>, <<Max(1), Progress(1)>>} :
             /\ uiQueue' = uiQueue \o ss \o <<Finished>>
             /\ ss = <<OpenFolder>> =>
               pc = "finish" /\ errors = {} /\ UNCHANGED jobVars /\ UNCHANGED fileVars
    BY <1>1, <1>6 DEF WorkerPosts, Stages
  <2>2. ss \in Seq(Signals)
    BY LastSignals
  <2> DEFINE n == Len(uiQueue)
  <2> DEFINE m == Len(ss)
  <2>3. /\ n \in Nat /\ m \in Nat /\ Len(uiQueue') = n + m + 1
        /\ \A k \in 1 .. n : uiQueue'[k] = uiQueue[k]
        /\ \A k \in 1 .. m : uiQueue'[n + k] = ss[k]
        /\ uiQueue'[n + m + 1] = Finished
    BY <1>3, <2>1, <2>2, Ended
  <2>4. CASE ss = <<OpenFolder>>
    <3>1. /\ EntriesAccounted /\ pc = "finish" /\ errors = {} /\ ~previewOnly
          /\ total \in 0 .. MaxEntries
      BY <2>1, <2>4 DEF Accounts, TypeOK
    <3>2. index = total /\ \A i \in Entries : i < index => Resolved(i)
      BY <3>1 DEF EntriesAccounted
    <3>3. \A i \in 0 .. total - 1 : i \in Entries /\ i < total
      BY <3>1, MaxEntriesAssumption DEF Entries
    <3>4. FolderResolved
      BY <3>1, <3>2, <3>3 DEF FolderResolved
    <3>5. FolderResolved'
      BY <2>1, <2>4, <3>4 DEF FolderResolved, Resolved, Whole, LostUnseen, jobVars, fileVars
    <3>6. ShownFolderHidesNoFailure'
      BY <3>5, ShownMeansNext DEF TypeOK
    <3> QED
      BY <1>6, <3>6 DEF Shown, Stages
  <2>5. CASE ss # <<OpenFolder>>
    <3>1. \A k \in 1 .. m : ss[k] # OpenFolder
      <4>1. Max(1) # OpenFolder /\ Progress(1) # OpenFolder
        BY SignalKinds, MaxEntriesAssumption
      <4>2. CASE ss = <<>>
        BY <4>2, LastSignals
      <4>3. CASE ss = <<Max(1), Progress(1)>>
        BY <4>1, <4>3, LastSignals
      <4> QED
        BY <2>1, <2>5, <4>2, <4>3
    <3>2. ASSUME NEW k \in 1 .. Len(uiQueue')
          PROVE  uiQueue'[k] # OpenFolder
      <4>1. CASE k \in 1 .. n
        BY <1>2, <2>3, <4>1 DEF Asked
      <4>2. CASE k \in n + 1 .. n + m
        <5>1. k - n \in 1 .. m /\ k = n + (k - n)
          BY <2>3, <4>2
        <5>2. uiQueue'[k] = ss[k - n]
          BY <2>3, <5>1
        <5> QED
          BY <3>1, <5>1, <5>2
      <4>3. CASE k = n + m + 1
        BY <2>3, <4>3, SignalKinds
      <4> QED
        BY <2>3, <3>2, <4>1, <4>2, <4>3
    <3>3. ~Asked'
      BY <3>2 DEF Asked
    <3> QED
      BY <1>2, <3>3, ShownNot
  <2> QED
    BY <2>4, <2>5
<1> QED
  BY <1>1, <1>4, <1>5, <1>6 DEF WorkerPosts

\* Every step keeps what a shown folder means.
LEMMA ShownInductive ==
  ASSUME TypeOK, TypeOK', Phases, Accounts, Shown, [Next]_vars
  PROVE  Shown'
<1>1. CASE Start \/ AboutToQuit \/ Exit \/ Crash
  <2>1. uiQueue' = <<>> /\ ~opened'
    BY <1>1 DEF Start, AboutToQuit, Exit, Crash, ProcessGone, NoWindow
  <2> QED
    BY <2>1, EmptyQueue, ShownNot
<1>2. CASE StartWorker \/ PickFolder
  <2>1. uiQueue' = <<>> /\ ~opened'
    BY <1>2 DEF StartWorker, PickFolder, Phases
  <2> QED
    BY <2>1, EmptyQueue, ShownNot
<1>3. CASE RunWorker
  BY <1>3, WorkerShown
<1>4. CASE ThreadEnds
  <2>1. /\ uiQueue' = <<ThreadFinished>> /\ Len(uiQueue') = 1
        /\ uiQueue'[1] = ThreadFinished
    BY <1>4 DEF ThreadEnds, Phases
  <2>2. ~Asked'
    BY <2>1, SignalKinds DEF Asked
  <2>3. pc' = "idle" /\ UNCHANGED <<opened, previewOnly, errors, total, place, out, by, nonFiles>>
    BY <1>4 DEF ThreadEnds, WorkerGone, diskVars, fileVars
  <2> QED
    BY <2>2, <2>3, ShownKept DEF Stages
<1>5. CASE Deliver
  <2>1. /\ Len(uiQueue) \in Nat /\ Len(uiQueue) >= 1
        /\ Len(Tail(uiQueue)) = Len(uiQueue) - 1
        /\ Head(uiQueue) = uiQueue[1] /\ Head(uiQueue) \in Signals
        /\ \A k \in 1 .. Len(Tail(uiQueue)) : Tail(uiQueue)[k] = uiQueue[k + 1]
    BY <1>5, Taken DEF Deliver, TypeOK
  <2>2. Asked' => Asked
    BY <1>5, <2>1 DEF Deliver, Asked
  <2>3. opened' => opened \/ Asked
    <3>1. CASE Head(uiQueue).kind = "openFolder"
      <4>1. uiQueue[1] = OpenFolder /\ 1 \in 1 .. Len(uiQueue)
        BY <2>1, <3>1, SignalKinds
      <4> QED
        BY <4>1 DEF Asked
    <3>2. CASE Head(uiQueue).kind # "openFolder"
      BY <1>5, <3>2 DEF Deliver, SetMaximum, SetValue, QuitThread, EnableButtons
    <3> QED
      BY <3>1, <3>2
  <2>4. UNCHANGED <<pc, previewOnly, errors, total, place, out, by, nonFiles>>
    BY <1>5 DEF Deliver, jobVars, diskVars, fileVars
  <2>5. pc' \in Stages => ~opened' /\ ~Asked'
    BY <2>2, <2>3, <2>4 DEF Shown, Asked
  <2> QED
    BY <2>2, <2>3, <2>4, <2>5, ShownKept
<1>6. CASE UNCHANGED vars
  <2>1. UNCHANGED <<pc, uiQueue, opened, previewOnly, errors, total, place, out, by, nonFiles>>
    BY <1>6 DEF vars, workerVars, guiVars, jobVars, diskVars, fileVars
  <2> QED
    BY <2>1, ShownKept DEF Shown, Asked
<1> QED
  BY <1>1, <1>2, <1>3, <1>4, <1>5, <1>6 DEF Next

(***************************************************************************)
(* The crash marker.                                                        *)
(***************************************************************************)
\* Every step keeps what the marker says of the last run.
LEMMA MarksInductive ==
  ASSUME TypeOK, Marks, [Next]_vars
  PROVE  Marks'
<1> USE DEF Mark!MarkerFailed
<1>a. MarkTypes
  BY DEF TypeOK, MarkTypes
<1>1. CASE Start
  <2>1. session = "down" /\ session' = "up" /\ Mark!Startup(Gui)
    BY <1>1 DEF Start
  <2> QED
    BY <1>a, <2>1 DEF Marks, MarkTypes, Mark!Startup, Mark!Ends
<1>2. CASE AboutToQuit
  <2>1. session = "up" /\ session' = "exiting" /\ Mark!Quit(Gui)
    BY <1>2 DEF AboutToQuit
  <2> QED
    BY <1>a, <2>1 DEF Marks, MarkTypes, Mark!Quit, Mark!WindowGone, Mark!Ended
<1>3. CASE Exit
  <2>1. session = "exiting" /\ session' = "down" /\ Mark!Exit(Gui)
    BY <1>3 DEF Exit, ProcessGone
  <2> QED
    BY <1>a, <2>1 DEF Marks, MarkTypes, Mark!Exit
<1>4. CASE Crash
  <2>1. session' = "down"
    BY <1>4 DEF Crash, ProcessGone
  <2>2. CASE session = "up" /\ Mark!Crash(Gui)
    BY <1>a, <2>1, <2>2 DEF Marks, MarkTypes, Mark!Crash, Mark!WindowGone, Mark!Ended
  <2>3. CASE session = "exiting" /\ Mark!Late(Gui)
    BY <1>a, <2>1, <2>3 DEF Marks, MarkTypes, Mark!Late, Mark!Ended
  <2> QED
    BY <1>4, <2>2, <2>3 DEF Crash
<1>5. CASE StartWorker \/ PickFolder \/ RunWorker \/ ThreadEnds \/ Deliver \/ UNCHANGED vars
  <2>1. UNCHANGED session /\ UNCHANGED markVars
    BY <1>5 DEF StartWorker, PickFolder, RunWorker, ThreadEnds, Deliver, vars, guiVars
  <2> QED
    BY <2>1 DEF Marks, markVars
<1> QED
  BY <1>1, <1>2, <1>3, <1>4, <1>5 DEF Next

(***************************************************************************)
(* The theorems.                                                            *)
(***************************************************************************)
\* The invariant holds before the program was ever started.
LEMMA InitInv ==
  ASSUME Init
  PROVE  IInv
<1> USE DEF Init, WorkerInit, Mark!MarkerInit
<1>1. uiQueue = <<>> /\ uiQueue \in Seq(Signals) /\ Len(uiQueue) = 0
  BY EmptySeq
<1>2. JobTypes
  <2>1. /\ salvage \in BOOLEAN /\ previewOnly \in BOOLEAN /\ aborted \in BOOLEAN
        /\ cpMine \in BOOLEAN /\ cpLate \in BOOLEAN /\ blind \in BOOLEAN
    OBVIOUS
  <2>2. attempt \in 1 .. MaxAttempts /\ checkpoint \in -1 .. MaxEntries
        /\ faults \in 0 .. MaxFaults
    BY MaxEntriesAssumption, MaxFaultsAssumption DEF MaxAttempts, NoFile
  <2>3. total \in 0 .. MaxEntries /\ index \in 0 .. MaxEntries /\ failed \in 0 .. MaxEntries
    BY MaxEntriesAssumption
  <2>4. /\ errors = {} /\ skipped = {} /\ nonFiles = {}
        /\ place \in [Entries -> Entries]
    OBVIOUS
  <2>5. FileTypes
    BY DEF FileTypes
  <2> QED
    BY <2>1, <2>2, <2>3, <2>4, <2>5 DEF JobTypes
<1>3. WindowTypes
  <2>1. barMax \in Nat /\ barValue \in Int
    BY DEF DefaultMax
  <2>2. enabled \in BOOLEAN /\ opened \in BOOLEAN
    OBVIOUS
  <2> QED
    BY <2>1, <2>2 DEF WindowTypes
<1>4. MarkTypes
  BY DEF MarkTypes, Mark!Ends
<1>5. TypeOK
  BY <1>1, <1>2, <1>3, <1>4 DEF TypeOK, JobTypes, FileTypes, WindowTypes, MarkTypes
<1>6. Phases
  BY <1>1 DEF Phases
<1>7. Accounts
  BY DEF Accounts, Untouched, EntriesAccounted, LoopStages
<1>8. Checkpoints
  BY DEF Checkpoints, CheckpointBracketsWork
<1>9. Shown
  <2>1. ~Asked /\ ~opened
    BY <1>1 DEF Asked
  <2>2. ShownFolderHidesNoFailure
    BY <1>1, <2>1, ShownMeans
  <2> QED
    BY <2>1, <2>2 DEF Shown, Asked
<1>10. Marks
  BY DEF Marks, Mark!MarkerFailed
<1> QED
  BY <1>5, <1>6, <1>7, <1>8, <1>9, <1>10 DEF IInv

\* Every step keeps the invariant.
LEMMA NextInv ==
  ASSUME IInv, [Next]_vars
  PROVE  IInv'
<1> USE DEF IInv
<1>1. TypeOK'
  BY TypeInductive
<1>2. Phases'
  BY PhasesInductive
<1>3. Accounts'
  BY AccountsInductive
<1>4. Checkpoints'
  BY CheckpointsInductive
<1>5. Shown'
  BY <1>1, ShownInductive
<1>6. Marks'
  BY MarksInductive
<1> QED
  BY <1>1, <1>2, <1>3, <1>4, <1>5, <1>6

\* The inductive invariant holds in every state of the front end.
THEOREM Invariant == Spec => []IInv
<1>1. Init => IInv
  BY InitInv
<1>2. IInv /\ [Next]_vars => IInv'
  BY NextInv
<1> QED
  BY <1>1, <1>2, PTL DEF Spec

\* Every variable of the window, the worker and the disk keeps its type.
THEOREM TypeCorrect == Spec => []TypeOK
<1>1. IInv => TypeOK
  BY DEF IInv
<1> QED
  BY <1>1, Invariant, PTL

\* The loop of extract() loses no entry that the program can notice losing: before
\* its index an entry is on disk, was no file or is reported, but for what the disk
\* refused unseen and for a path that two entries share; what is after it is not
\* begun, and the failure count is that of the report.
THEOREM NoEntryLost == Spec => []EntriesAccounted
<1>1. IInv => EntriesAccounted
  BY DEF IInv, Accounts
<1> QED
  BY <1>1, Invariant, PTL

\* The progress file that a crash leaves behind names no entry whose predecessors
\* are not resolved, and, unless it could not be opened again, the entry in work.
THEOREM CheckpointTrue == Spec => []CheckpointBracketsWork
<1>1. IInv => CheckpointBracketsWork
  BY DEF IInv, Checkpoints
<1> QED
  BY <1>1, Invariant, PTL

\* openFolder is posted, and obeyed, only after an extraction that reported no entry
\* and resolved all of them.
THEOREM ShownWithoutFailure == Spec => []ShownFolderHidesNoFailure
<1>1. IInv => ShownFolderHidesNoFailure
  BY DEF IInv, Shown
<1> QED
  BY <1>1, Invariant, PTL

\* The buttons are enabled only when worker, thread and signals are gone, so
\* startWorker never makes a second worker.
THEOREM OneWorker == Spec => []EnabledMeansQuiet
<1>1. IInv => EnabledMeansQuiet
  BY DEF IInv, Phases, EnabledMeansQuiet
<1> QED
  BY <1>1, Invariant, PTL

\* A start warns of a crash exactly when the run before died with its window up,
\* if that run could write its marker and remove it.
THEOREM MarkerTells == Spec => []WarnedIffCrashed
<1>1. IInv => WarnedIffCrashed
  BY DEF IInv, TypeOK, Marks, WarnedIffCrashed, Mark!WarnedIffCrashed
<1> QED
  BY <1>1, Invariant, PTL

\* A path on disk that is left as it was, or written by a later entry of the job
\* that wrote it, or in a folder the guardrail could not look at.
PathKept(f) ==
  \/ out'[f] = out[f] /\ by'[f] \in {by[f], Nobody}
  \/ by[f] # Nobody /\ by[f] < by'[f] /\ place[by'[f]] = f
  \/ blind \/ folder' # "full"

\* The entry in work writes to its own path only, which an earlier entry of this
\* job may have, and no earlier job unless the guardrail was blind.
LEMMA EntryKeepsPaths ==
  ASSUME TypeOK, Accounts, pc = "write", Filed, NEW f \in Entries, out[f] # "untouched"
  PROVE  PathKept(f)
<1>1. /\ index \in Entries /\ index \in Nat /\ FileTypes /\ place \in [Entries -> Entries]
      /\ by[f] < index
  BY EntryInWork
<1>2. CASE UNCHANGED fileVars
  BY <1>2 DEF PathKept, fileVars
<1>3. CASE \E what \in {"partial", "cut", "whole"} : Leaves(what)
  <2>1. PICK what \in {"partial", "cut", "whole"} : Leaves(what)
    BY <1>3
  <2>2. /\ by'[place[index]] = index
        /\ f # place[index] => out'[f] = out[f] /\ by'[f] = by[f]
    BY <1>1, <2>1, LeavesAtPlace
  <2>3. blind \/ by[f] # Nobody
    BY DEF Accounts, LoopStages, Ours
  <2> QED
    BY <1>1, <2>2, <2>3 DEF PathKept
<1> QED
  BY <1>2, <1>3 DEF Filed

\* No job writes to a file that an earlier job has begun, short of the user naming
\* another folder or the guardrail failing to look at the full one; and a job
\* writes to its own files again only for a later entry of the same path.
THEOREM WrittenOnce == Spec => NothingOverwritten
<1> DEFINE Kept == \A f \in Entries : out[f] # "untouched" => PathKept(f)
<1>1. ASSUME IInv, [Next]_vars
      PROVE  Kept
  <2>0. TypeOK /\ Accounts
    BY <1>1 DEF IInv
  <2> SUFFICES ASSUME NEW f \in Entries, out[f] # "untouched"
               PROVE  PathKept(f)
    OBVIOUS
  <2>1. CASE Start \/ AboutToQuit \/ ThreadEnds \/ Deliver \/ UNCHANGED vars
    BY <2>1 DEF Start, AboutToQuit, ThreadEnds, Deliver, vars, workerVars, diskVars, fileVars,
       PathKept
  <2>2. CASE Exit \/ Crash
    <3>1. UNCHANGED fileVars \/ (pc = "write" /\ Leaves("partial"))
      BY <2>2 DEF Exit, Crash, ProcessGone
    <3>2. CASE UNCHANGED fileVars
      BY <3>2 DEF fileVars, PathKept
    <3>3. CASE pc = "write" /\ Leaves("partial")
      BY <2>0, <3>3, EntryKeepsPaths DEF Filed
    <3> QED
      BY <3>1, <3>2, <3>3
  <2>3. CASE StartWorker
    BY <2>3 DEF StartWorker, NewJob, PathKept
  <2>4. CASE PickFolder
    BY <2>4 DEF PickFolder, PathKept
  <2>5. CASE RunWorker
    <3>1. CASE EntryWritten \/ EntryThrows
      <4>1. pc = "write" /\ Filed
        BY <3>1 DEF EntryWritten, EntryThrows, Filed
      <4> QED
        BY <2>0, <4>1, EntryKeepsPaths
    <3>2. CASE ~(EntryWritten \/ EntryThrows)
      <4>1. UNCHANGED <<out, by>>
        BY <2>5, <3>2 DEF RunWorker, WorkerStep, Check, OpenAttempt, Guard, UnpackFails,
           PreviewDone, UnpackDone, LoopHead, WriteCheckpoint, PreflightFails,
           PreflightPasses, Report, Finish, Fatal, diskVars, fileVars
      <4> QED
        BY <4>1 DEF PathKept
    <3> QED
      BY <3>1, <3>2
  <2> QED
    BY <1>1, <2>1, <2>2, <2>3, <2>4, <2>5 DEF Next
<1>2. IInv /\ [Next]_vars => [Kept]_vars
  BY <1>1
<1>3. Init => IInv
  BY InitInv
<1>4. IInv /\ [Next]_vars => IInv'
  BY NextInv
<1>5. [][Kept]_vars <=> NothingOverwritten
  BY DEF NothingOverwritten, PathKept
<1> QED
  BY <1>2, <1>3, <1>4, <1>5, PTL DEF Spec
-----------------------------------------------------------------------------
(***************************************************************************)
(* The refinement.  Of the steps of the window, its worker and the signals  *)
(* between them the user sees the start, the delivery of a signal, the end  *)
(* and a new window, and nothing else.                                      *)
(***************************************************************************)
\* Whether the total is still on its way, and what the progress counts up to.
Early(q) == IF q # <<>> /\ q[1].kind = "setMax" THEN 1 ELSE 0
Limit(q, max) == IF Early(q) = 1 THEN q[1].value ELSE max

\* The signals on the queue go on where the bar stands: the total comes first and
\* finds the bar at 0, every progress is one more than the one before and within the
\* total, and none follows the folder that is shown.
InOrder(q, bar, max) ==
  \A k \in 1 .. Len(q) :
    /\ q[k].kind = "setMax" => k = 1 /\ bar = 0
    /\ q[k].kind = "progress" => /\ q[k].value = bar + k - Early(q)
                                 /\ q[k].value <= Limit(q, max)
    /\ q[k].kind = "openFolder" => \A j \in k .. Len(q) : q[j].kind # "progress"

\* Before the loop nothing is posted; inside it the bar and the signals on their
\* way make the loop's index.
Counting ==
  session = "up" =>
    /\ InOrder(uiQueue, barValue, barMax)
    /\ pc \in {"check", "open", "guard", "unpack"} => uiQueue = <<>> /\ barValue = 0
    /\ pc \in LoopStages => /\ Limit(uiQueue, barMax) = total
                            /\ barValue + Len(uiQueue) - Early(uiQueue) = index

VInv == IInv /\ Counting

(***************************************************************************)
(* Queues.                                                                  *)
(***************************************************************************)
\* An empty queue is in order.
LEMMA NothingPosted ==
  ASSUME NEW bar, NEW max
  PROVE  InOrder(<<>>, bar, max) /\ Early(<<>>) = 0
BY EmptySeq DEF InOrder, Early

\* Behind its first signal a queue tells no total.
LEMMA TotalIsFirst ==
  ASSUME NEW q \in Seq(Signals), q # <<>>, NEW bar, NEW max, InOrder(q, bar, max)
  PROVE  Early(Tail(q)) = 0 /\ Limit(Tail(q), max) = max
<1> DEFINE t == Tail(q)
<1>1. /\ Len(q) \in Nat /\ Len(t) = Len(q) - 1 /\ t \in Seq(Signals)
      /\ \A k \in 1 .. Len(t) : t[k] = q[k + 1]
  BY Taken
<1>2. ASSUME t # <<>> PROVE t[1].kind # "setMax"
  <2>1. Len(t) \in Nat \ {0}
    BY <1>1, <1>2, EmptySeq
  <2>2. 2 \in 1 .. Len(q) /\ 1 \in 1 .. Len(t)
    BY <1>1, <2>1
  <2>3. t[1] = q[2]
    BY <1>1, <2>2
  <2> QED
    BY <2>2, <2>3 DEF InOrder
<1> QED
  BY <1>2 DEF Early, Limit

\* The total is taken: the bar stays at 0, and what follows counts up to it.
LEMMA TotalTaken ==
  ASSUME NEW q \in Seq(Signals), q # <<>>, NEW bar \in Int, NEW max \in Nat,
         InOrder(q, bar, max), q[1].kind = "setMax"
  PROVE  /\ bar = 0 /\ q[1].value \in Nat
         /\ InOrder(Tail(q), bar, q[1].value)
         /\ Early(q) = 1 /\ Early(Tail(q)) = 0
         /\ Limit(Tail(q), q[1].value) = Limit(q, max)
<1> DEFINE t == Tail(q)
           n == q[1].value
<1>1. /\ Len(q) \in Nat /\ Len(q) >= 1 /\ Len(t) = Len(q) - 1 /\ q[1] \in Signals
      /\ \A k \in 1 .. Len(t) : t[k] = q[k + 1]
  BY Taken
<1>2. bar = 0 /\ n \in Nat
  BY <1>1, SignalKinds DEF InOrder
<1>3. Early(q) = 1 /\ Limit(q, max) = n
  BY DEF Early, Limit
<1>4. Early(t) = 0 /\ Limit(t, n) = n
  BY TotalIsFirst DEF Limit
<1>5. InOrder(t, bar, n)
  <2> SUFFICES ASSUME NEW k \in 1 .. Len(t)
               PROVE  /\ t[k].kind # "setMax"
                      /\ t[k].kind = "progress" => t[k].value = bar + k /\ t[k].value <= n
                      /\ t[k].kind = "openFolder" =>
                           \A j \in k .. Len(t) : t[j].kind # "progress"
    BY <1>4 DEF InOrder
  <2>1. k + 1 \in 1 .. Len(q) /\ t[k] = q[k + 1] /\ k + 1 # 1
    BY <1>1
  <2>2. \A j \in k .. Len(t) : j + 1 \in k + 1 .. Len(q) /\ t[j] = q[j + 1]
    BY <1>1
  <2>3. q[k + 1].kind = "progress" => q[k + 1].value = bar + (k + 1) - 1 /\ q[k + 1].value <= n
    BY <1>3, <2>1 DEF InOrder
  <2> QED
    BY <1>2, <2>1, <2>2, <2>3 DEF InOrder
<1> QED
  BY <1>2, <1>3, <1>4, <1>5

\* A progress is taken: the bar goes one up.
LEMMA ProgressTaken ==
  ASSUME NEW q \in Seq(Signals), q # <<>>, NEW bar \in Int, NEW max \in Nat,
         InOrder(q, bar, max), q[1].kind = "progress"
  PROVE  /\ q[1].value = bar + 1 /\ q[1].value <= max
         /\ InOrder(Tail(q), bar + 1, max)
         /\ Early(q) = 0 /\ Early(Tail(q)) = 0
         /\ Limit(Tail(q), max) = max /\ Limit(q, max) = max
<1> DEFINE t == Tail(q)
<1>1. /\ Len(q) \in Nat /\ Len(q) >= 1 /\ Len(t) = Len(q) - 1
      /\ \A k \in 1 .. Len(t) : t[k] = q[k + 1]
  BY Taken
<1>2. Early(q) = 0 /\ Limit(q, max) = max
  BY DEF Early, Limit
<1>3. 1 \in 1 .. Len(q) /\ q[1].value = bar + 1 - 0 /\ q[1].value <= max
  BY <1>1, <1>2 DEF InOrder
<1>4. Early(t) = 0 /\ Limit(t, max) = max
  BY TotalIsFirst
<1>5. InOrder(t, bar + 1, max)
  <2> SUFFICES ASSUME NEW k \in 1 .. Len(t)
               PROVE  /\ t[k].kind # "setMax"
                      /\ t[k].kind = "progress" => /\ t[k].value = bar + 1 + k
                                                   /\ t[k].value <= max
                      /\ t[k].kind = "openFolder" =>
                           \A j \in k .. Len(t) : t[j].kind # "progress"
    BY <1>4 DEF InOrder
  <2>1. k + 1 \in 1 .. Len(q) /\ t[k] = q[k + 1] /\ k + 1 # 1
    BY <1>1
  <2>2. \A j \in k .. Len(t) : j + 1 \in k + 1 .. Len(q) /\ t[j] = q[j + 1]
    BY <1>1
  <2>3. q[k + 1].kind = "progress" => q[k + 1].value = bar + (k + 1) - 0 /\ q[k + 1].value <= max
    BY <1>2, <2>1 DEF InOrder
  <2> QED
    BY <2>1, <2>2, <2>3 DEF InOrder
<1> QED
  BY <1>2, <1>3, <1>4, <1>5

\* The folder is shown: no progress is left.
LEMMA FolderTaken ==
  ASSUME NEW q \in Seq(Signals), q # <<>>, NEW bar \in Int, NEW max \in Nat,
         InOrder(q, bar, max), q[1].kind = "openFolder"
  PROVE  InOrder(Tail(q), bar, max)
<1> DEFINE t == Tail(q)
<1>1. /\ Len(q) \in Nat /\ Len(q) >= 1 /\ Len(t) = Len(q) - 1
      /\ \A k \in 1 .. Len(t) : t[k] = q[k + 1]
  BY Taken
<1>2. \A j \in 1 .. Len(q) : q[j].kind # "progress"
  BY <1>1 DEF InOrder
<1> SUFFICES ASSUME NEW k \in 1 .. Len(t)
             PROVE  t[k].kind # "setMax" /\ \A j \in 1 .. Len(t) : t[j].kind # "progress"
  BY <1>1, <1>2 DEF InOrder
<1>3. k + 1 \in 1 .. Len(q) /\ t[k] = q[k + 1] /\ k + 1 # 1
  BY <1>1
<1>4. \A j \in 1 .. Len(t) : j + 1 \in 1 .. Len(q) /\ t[j] = q[j + 1]
  BY <1>1
<1> QED
  BY <1>2, <1>3, <1>4 DEF InOrder

\* The next progress is posted behind a queue that shows no folder yet.
LEMMA ProgressPosted ==
  ASSUME NEW q \in Seq(Signals), NEW bar \in Int, NEW max \in Nat, InOrder(q, bar, max),
         \A k \in 1 .. Len(q) : q[k] # OpenFolder,
         NEW n \in 0 .. MaxEntries + 1,
         n = bar + Len(q) - Early(q) + 1, n <= Limit(q, max)
  PROVE  LET r == Append(q, Progress(n)) IN
         /\ InOrder(r, bar, max) /\ Early(r) = Early(q) /\ Limit(r, max) = Limit(q, max)
         /\ Len(r) = Len(q) + 1
<1> DEFINE s == Progress(n)
           r == Append(q, s)
<1>1. s \in Signals /\ s.kind = "progress" /\ s.value = n
  BY SignalKinds DEF Progress
<1>2. /\ r \in Seq(Signals) /\ Len(q) \in Nat /\ Len(r) = Len(q) + 1
      /\ \A k \in 1 .. Len(q) : r[k] = q[k]
      /\ r[Len(q) + 1] = s
  BY <1>1, Posted
<1> HIDE DEF s, r
<1>3. Early(r) = Early(q) /\ (Early(q) = 1 => r[1] = q[1])
  <2>1. r # <<>>
    BY <1>2, EmptySeq
  <2>2. CASE q = <<>>
    <3>1. r[1] = s
      BY <1>2, <2>2, EmptySeq
    <3> QED
      BY <1>1, <2>2, <3>1 DEF Early
  <2>3. CASE q # <<>>
    <3>1. Len(q) \in Nat \ {0}
      BY <2>3, EmptySeq
    <3>2. r[1] = q[1]
      BY <1>2, <3>1
    <3> QED
      BY <2>1, <2>3, <3>2 DEF Early
  <2> QED
    BY <2>2, <2>3
<1>4. Limit(r, max) = Limit(q, max)
  BY <1>3 DEF Limit
<1>5. InOrder(r, bar, max)
  <2> SUFFICES ASSUME NEW k \in 1 .. Len(r)
               PROVE  /\ r[k].kind = "setMax" => k = 1 /\ bar = 0
                      /\ r[k].kind = "progress" => /\ r[k].value = bar + k - Early(q)
                                                   /\ r[k].value <= Limit(q, max)
                      /\ r[k].kind # "openFolder"
    BY <1>3, <1>4 DEF InOrder
  <2>1. CASE k \in 1 .. Len(q)
    <3>1. r[k] = q[k] /\ q[k] \in Signals
      BY <1>2, <2>1, ElementOfSeq
    <3>2. r[k].kind # "openFolder"
      BY <2>1, <3>1, SignalKinds
    <3> QED
      BY <2>1, <3>1, <3>2 DEF InOrder
  <2>2. CASE k = Len(q) + 1
    <3>1. r[k] = s
      BY <1>2, <2>2
    <3>2. Len(q) \in Nat
      BY LenProperties
    <3>3. ASSUME Early(q) = 0 PROVE n = bar + k - Early(q)
      BY <2>2, <3>2, <3>3
    <3>4. ASSUME Early(q) = 1 PROVE n = bar + k - Early(q)
      BY <2>2, <3>2, <3>4
    <3>5. n = bar + k - Early(q)
      BY <3>3, <3>4 DEF Early
    <3> QED
      BY <1>1, <3>1, <3>5
  <2> QED
    BY <1>2, <2>1, <2>2
<1> QED
  BY <1>2, <1>3, <1>4, <1>5 DEF s, r

\* The end of a job adds no progress.
LEMMA EndPosted ==
  ASSUME NEW q \in Seq(Signals), NEW bar \in Int, NEW max \in Nat, InOrder(q, bar, max),
         \A k \in 1 .. Len(q) : q[k] # OpenFolder,
         NEW ss \in {<<>>, <<OpenFolder>>}
  PROVE  InOrder(q \o ss \o <<Finished>>, bar, max)
<1> DEFINE r == q \o ss \o <<Finished>>
<1>1. ss \in Seq(Signals) /\ \A k \in 1 .. Len(ss) : ss[k] = OpenFolder
  <2>1. CASE ss = <<>>
    BY <2>1, LastSignals
  <2>2. CASE ss = <<OpenFolder>>
    BY <2>2, LastSignals
  <2> QED
    BY <2>1, <2>2
<1>2. /\ r \in Seq(Signals) /\ Len(q) \in Nat /\ Len(ss) \in Nat
      /\ Len(r) = Len(q) + Len(ss) + 1
      /\ \A k \in 1 .. Len(q) : r[k] = q[k]
      /\ \A k \in 1 .. Len(ss) : r[Len(q) + k] = ss[k]
      /\ r[Len(q) + Len(ss) + 1] = Finished
  BY <1>1, Ended
<1> HIDE DEF r
<1>3. ASSUME NEW k \in 1 .. Len(r), k > Len(q)
      PROVE  r[k].kind \in {"openFolder", "finished"}
  <2>1. CASE k = Len(q) + Len(ss) + 1
    BY <1>2, <2>1, SignalKinds
  <2>2. CASE k <= Len(q) + Len(ss)
    <3>1. k - Len(q) \in 1 .. Len(ss) /\ k = Len(q) + (k - Len(q))
      BY <1>2, <1>3, <2>2
    <3>2. r[k] = OpenFolder
      BY <1>1, <1>2, <3>1
    <3> QED
      BY <3>2, SignalKinds
  <2> QED
    BY <1>2, <2>1, <2>2
<1>4. Early(r) = Early(q) /\ (Early(q) = 1 => r[1] = q[1])
  <2>1. r # <<>> /\ 1 \in 1 .. Len(r)
    BY <1>2, EmptySeq
  <2>2. CASE q = <<>>
    <3>1. Len(q) = 0
      BY <2>2, EmptySeq
    <3>2. r[1].kind # "setMax"
      BY <1>2, <1>3, <2>1, <3>1
    <3> QED
      BY <2>2, <3>2 DEF Early
  <2>3. CASE q # <<>>
    <3>1. Len(q) \in Nat \ {0}
      BY <2>3, EmptySeq
    <3>2. r[1] = q[1]
      BY <1>2, <3>1
    <3> QED
      BY <2>1, <2>3, <3>2 DEF Early
  <2> QED
    BY <2>2, <2>3
<1>5. Limit(r, max) = Limit(q, max)
  BY <1>4 DEF Limit
<1>6. InOrder(r, bar, max)
  <2> SUFFICES ASSUME NEW k \in 1 .. Len(r)
               PROVE  /\ r[k].kind = "setMax" => k = 1 /\ bar = 0
                      /\ r[k].kind = "progress" => /\ r[k].value = bar + k - Early(q)
                                                   /\ r[k].value <= Limit(q, max)
                      /\ r[k].kind = "openFolder" =>
                           \A j \in k .. Len(r) : r[j].kind # "progress"
    BY <1>4, <1>5 DEF InOrder
  <2>1. CASE k \in 1 .. Len(q)
    <3>1. r[k] = q[k] /\ q[k] \in Signals
      BY <1>2, <2>1, ElementOfSeq
    <3>2. r[k].kind # "openFolder"
      BY <2>1, <3>1, SignalKinds
    <3> QED
      BY <2>1, <3>1, <3>2 DEF InOrder
  <2>2. CASE k > Len(q)
    <3>1. \A j \in k .. Len(r) : j \in 1 .. Len(r) /\ j > Len(q)
      BY <1>2, <2>2
    <3> QED
      BY <1>3, <2>2, <3>1
  <2> QED
    BY <1>2, <2>1, <2>2
<1> QED
  BY <1>6 DEF r

\* The total alone, and the three signals of a preview, are in order behind an
\* empty queue.
LEMMA TotalPosted ==
  ASSUME NEW n \in 0 .. MaxEntries + 1, NEW max \in Nat
  PROVE  LET r == Append(<<>>, Max(n)) IN
         InOrder(r, 0, max) /\ Early(r) = 1 /\ Limit(r, max) = n /\ Len(r) = 1
<1> DEFINE r == Append(<<>>, Max(n))
<1>1. r # <<>> /\ Len(r) = 1 /\ r[1] = Max(n)
  OBVIOUS
<1>2. Max(n).kind = "setMax" /\ Max(n).value = n
  BY DEF Max
<1> QED
  BY <1>1, <1>2 DEF InOrder, Early, Limit

LEMMA PreviewPosted ==
  ASSUME NEW max \in Nat
  PROVE  InOrder(<<>> \o <<Max(1), Progress(1)>> \o <<Finished>>, 0, max)
<1> DEFINE r == <<>> \o <<Max(1), Progress(1)>> \o <<Finished>>
<1>1. r # <<>> /\ Len(r) = 3 /\ r[1] = Max(1) /\ r[2] = Progress(1) /\ r[3] = Finished
  OBVIOUS
<1>2. /\ Max(1).kind = "setMax" /\ Max(1).value = 1
      /\ Progress(1).kind = "progress" /\ Progress(1).value = 1
      /\ Finished.kind = "finished"
  BY DEF Max, Progress, Finished
<1>3. Early(r) = 1 /\ Limit(r, max) = 1
  BY <1>1, <1>2 DEF Early, Limit
<1> HIDE DEF r
<1> SUFFICES InOrder(r, 0, max)
  BY DEF r
<1> QED
  BY <1>1, <1>2, <1>3 DEF InOrder

(***************************************************************************)
(* The steps.                                                               *)
(***************************************************************************)
\* A step of the worker keeps the count.
LEMMA WorkerCounting ==
  ASSUME VInv, RunWorker
  PROVE  Counting'
<1> SUFFICES ASSUME session' = "up" PROVE Counting'
  BY DEF Counting
<1>1. session = "up" /\ UNCHANGED <<session, barValue, barMax>>
  BY DEF RunWorker, guiVars
<1>2. TypeOK /\ Accounts /\ Shown /\ pc \in Stages
  BY WorkerSignals DEF VInv, IInv, RunWorker
<1>3. /\ uiQueue \in Seq(Signals) /\ barValue \in Int /\ barMax \in Nat
      /\ total \in 0 .. MaxEntries /\ index \in 0 .. MaxEntries
  BY <1>2 DEF TypeOK
<1>4. /\ InOrder(uiQueue, barValue, barMax)
      /\ \A k \in 1 .. Len(uiQueue) : uiQueue[k] # OpenFolder
      /\ pc \in {"check", "open", "guard", "unpack"} => uiQueue = <<>> /\ barValue = 0
      /\ pc \in LoopStages => /\ Limit(uiQueue, barMax) = total
                              /\ barValue + Len(uiQueue) - Early(uiQueue) = index
  BY <1>1, <1>2 DEF VInv, Counting, Shown
<1>5. ASSUME NEW ss \in {<<>>, <<OpenFolder>>},
             uiQueue' = uiQueue \o ss \o <<Finished>>, pc' = "done"
      PROVE  Counting'
  <2>1. InOrder(uiQueue', barValue, barMax)
    BY <1>3, <1>4, <1>5, EndPosted
  <2> QED
    BY <1>1, <1>5, <2>1 DEF Counting, LoopStages
<1>6. ASSUME FinishWith(<<>>)
      PROVE  Counting'
  BY <1>5, <1>6 DEF FinishWith
<1>7. ASSUME UNCHANGED <<uiQueue, index, total>>,
             pc' \in {"check", "open", "guard", "unpack"} =>
               pc \in {"check", "open", "guard", "unpack"},
             pc' \in LoopStages => pc \in LoopStages
      PROVE  Counting'
  BY <1>1, <1>4, <1>7 DEF Counting
<1>8. ASSUME pc \in LoopStages \ {"head"}, uiQueue' = Append(uiQueue, Progress(index + 1)),
             UNCHANGED total, pc' = "head" => index' = index + 1, pc' \in {"head", "report"}
      PROVE  Counting'
  <2>1. index < total
    BY <1>2, <1>8 DEF Accounts
  <2>2. Early(uiQueue) \in {0, 1} /\ Len(uiQueue) \in Nat
    BY <1>3, LenProperties DEF Early
  <2>3. /\ index + 1 \in 0 .. MaxEntries + 1
        /\ index + 1 = barValue + Len(uiQueue) - Early(uiQueue) + 1
        /\ index + 1 <= Limit(uiQueue, barMax)
    BY <1>3, <1>4, <1>8, <2>1, <2>2, MaxEntriesAssumption
  <2>4. /\ InOrder(uiQueue', barValue, barMax)
        /\ Early(uiQueue') = Early(uiQueue) /\ Limit(uiQueue', barMax) = Limit(uiQueue, barMax)
        /\ Len(uiQueue') = Len(uiQueue) + 1
    BY <1>3, <1>4, <1>8, <2>3, ProgressPosted
  <2>5. pc' = "head" => barValue + Len(uiQueue') - Early(uiQueue') = index'
    BY <1>3, <1>8, <2>2, <2>3, <2>4
  <2> QED
    BY <1>1, <1>4, <1>8, <2>4, <2>5 DEF Counting, LoopStages
<1> USE DEF LoopStages
<1>a. CASE Check
  BY <1>a, <1>6, <1>7 DEF Check, jobVars
<1>b. CASE OpenAttempt
  BY <1>b, <1>6, <1>7 DEF OpenAttempt
<1>c. CASE Guard
  BY <1>c, <1>6, <1>7 DEF Guard, jobVars
<1>d. CASE UnpackFails
  BY <1>d, <1>6 DEF UnpackFails
<1>e. CASE PreviewDone
  <2>1. /\ uiQueue' = <<>> \o <<Max(1), Progress(1)>> \o <<Finished>> /\ pc' = "done"
        /\ barValue = 0
    BY <1>4, <1>e DEF PreviewDone, FinishWith
  <2>2. InOrder(uiQueue', 0, barMax)
    BY <1>3, <2>1, PreviewPosted
  <2> QED
    BY <1>1, <2>1, <2>2 DEF Counting
<1>f. CASE UnpackDone
  <2>1. PICK n \in 0 .. MaxEntries : total' = n /\ uiQueue' = Append(<<>>, Max(n))
    BY <1>4, <1>f DEF UnpackDone
  <2>2. n \in 0 .. MaxEntries + 1
    BY MaxEntriesAssumption
  <2>3. /\ InOrder(uiQueue', 0, barMax) /\ Early(uiQueue') = 1 /\ Limit(uiQueue', barMax) = n
        /\ Len(uiQueue') = 1
    BY <1>3, <2>1, <2>2, TotalPosted
  <2>4. barValue = 0 /\ index' = 0 /\ pc' = "head"
    BY <1>4, <1>f DEF UnpackDone
  <2> QED
    BY <1>1, <2>1, <2>3, <2>4 DEF Counting
<1>g. CASE LoopHead
  BY <1>g, <1>7 DEF LoopHead, jobVars
<1>h. CASE WriteCheckpoint
  BY <1>h, <1>7 DEF WriteCheckpoint, jobVars
<1>i. CASE PreflightFails
  BY <1>i, <1>8 DEF PreflightFails
<1>j. CASE PreflightPasses
  BY <1>j, <1>7 DEF PreflightPasses, jobVars
<1>k. CASE EntryWritten
  BY <1>k, <1>8 DEF EntryWritten
<1>l. CASE EntryThrows
  BY <1>l, <1>8 DEF EntryThrows
<1>m. CASE Report
  BY <1>m, <1>7 DEF Report, jobVars
<1>n. CASE Finish
  BY <1>n, <1>5 DEF Finish, FinishWith
<1>o. CASE Fatal
  BY <1>o, <1>6 DEF Fatal
<1> QED
  BY <1>a, <1>b, <1>c, <1>d, <1>e, <1>f, <1>g, <1>h, <1>i, <1>j, <1>k, <1>l, <1>m, <1>n,
     <1>o DEF RunWorker, WorkerStep

\* What the user sees.
Shows == View!ViewNext \/ UNCHANGED View!view

\* A delivered signal keeps the count, and shows a total, a progress, the end of the
\* job, or nothing.
LEMMA DeliverShows ==
  ASSUME VInv, Deliver
  PROVE  Counting' /\ Shows
<1> DEFINE q == uiQueue
           t == Tail(uiQueue)
<1>1. /\ q \in Seq(Signals) /\ q # <<>> /\ barValue \in Int /\ barMax \in Nat
      /\ session = "up" /\ session' = "up" /\ uiQueue' = t
      /\ UNCHANGED <<pc, jobVars>>
  BY DEF VInv, IInv, TypeOK, Deliver
<1>2. /\ Len(q) \in Nat /\ Len(q) >= 1 /\ Len(t) = Len(q) - 1 /\ Head(q) = q[1]
      /\ q[1] \in Signals /\ 1 \in 1 .. Len(q)
      /\ Len(q) = 1 => t = <<>>
  BY <1>1, Taken
<1>3. ~enabled
  BY <1>1 DEF VInv, IInv, Phases
<1>4. /\ InOrder(q, barValue, barMax)
      /\ pc \notin {"check", "open", "guard", "unpack"}
      /\ pc \in LoopStages => /\ Limit(q, barMax) = total
                              /\ barValue + Len(q) - Early(q) = index
  BY <1>1 DEF VInv, Counting
<1>5. pc \in LoopStages => pc \in Stages
  BY DEF LoopStages, Stages
<1>6. CASE q[1].kind = "setMax" /\ SetMaximum(q[1].value)
  <2>1. /\ barValue = 0 /\ q[1].value \in Nat
        /\ InOrder(t, barValue, q[1].value)
        /\ Early(q) = 1 /\ Early(t) = 0
        /\ Limit(t, q[1].value) = Limit(q, barMax)
    BY <1>1, <1>4, <1>6, TotalTaken
  <2>2. barMax' = q[1].value /\ barValue' = barValue /\ ~enabled'
    BY <1>3, <1>6, <2>1 DEF SetMaximum
  <2>3. Counting'
    BY <1>1, <1>2, <1>4, <2>1, <2>2 DEF Counting, jobVars
  <2>4. View!Announce
    BY <1>1, <1>3, <2>1, <2>2 DEF View!Announce
  <2> QED
    BY <2>3, <2>4 DEF Shows, View!ViewNext
<1>7. CASE q[1].kind = "progress" /\ SetValue(q[1].value)
  <2>1. /\ q[1].value = barValue + 1 /\ q[1].value <= barMax
        /\ InOrder(t, barValue + 1, barMax)
        /\ Early(q) = 0 /\ Early(t) = 0
        /\ Limit(t, barMax) = barMax /\ Limit(q, barMax) = barMax
    BY <1>1, <1>4, <1>7, ProgressTaken
  <2>2. barMax' = barMax /\ barValue' = barValue + 1 /\ ~enabled'
    BY <1>1, <1>3, <1>7, <2>1 DEF SetValue
  <2>3. Counting'
    BY <1>1, <1>2, <1>4, <2>1, <2>2 DEF Counting, jobVars
  <2>4. View!Advance
    BY <1>1, <1>3, <2>1, <2>2 DEF View!Advance
  <2> QED
    BY <2>3, <2>4 DEF Shows, View!ViewNext
<1>8. CASE q[1].kind = "openFolder" /\ OpenUrl
  <2>1. InOrder(t, barValue, barMax)
    BY <1>1, <1>4, <1>8, FolderTaken
  <2>2. pc \notin Stages
    <3>1. q[1] = OpenFolder
      BY <1>2, <1>8, SignalKinds
    <3> QED
      BY <1>2, <3>1 DEF VInv, IInv, Shown
  <2>3. UNCHANGED <<barMax, barValue, enabled, session>>
    BY <1>1, <1>8 DEF OpenUrl
  <2> QED
    BY <1>1, <1>4, <1>5, <2>1, <2>2, <2>3 DEF Counting, Shows, View!view
<1>9. CASE q[1].kind \in EndKinds /\ (QuitThread \/ EnableButtons)
  <2>1. t = <<>> /\ pc \notin Stages
    <3>1. Len(q) = 1 /\ (pc = "done" \/ thread = "none")
      BY <1>2, <1>9 DEF VInv, IInv, Phases, EndKinds
    <3> QED
      BY <1>2, <3>1 DEF VInv, IInv, Phases, Stages
  <2>2. UNCHANGED <<barMax, barValue>>
    BY <1>9 DEF QuitThread, EnableButtons
  <2>3. InOrder(t, barValue', barMax')
    BY <2>1, NothingPosted
  <2>4. Counting'
    BY <1>1, <1>4, <1>5, <2>1, <2>3 DEF Counting
  <2>5. Shows
    <3>1. CASE QuitThread
      BY <1>1, <2>2, <3>1 DEF QuitThread, Shows, View!view
    <3>2. CASE EnableButtons
      BY <1>1, <1>3, <2>2, <3>2 DEF EnableButtons, Shows, View!ViewNext, View!End
    <3> QED
      BY <1>9, <3>1, <3>2
  <2> QED
    BY <2>4, <2>5
<1> QED
  BY <1>2, <1>6, <1>7, <1>8, <1>9 DEF Deliver, EndKinds

\* Every step keeps the count, and is one of JobView's or shows nothing.
LEMMA StepShows ==
  ASSUME VInv, [Next]_vars
  PROVE  Counting' /\ Shows
<1>1. CASE Start
  <2>1. /\ session # "up" /\ session' = "up" /\ enabled' /\ barMax' = 100 /\ barValue' = -1
        /\ uiQueue' = <<>> /\ pc' = "idle"
    BY <1>1 DEF Start, NoWindow, DefaultMax
  <2>2. InOrder(uiQueue', barValue', barMax')
    BY <2>1, NothingPosted
  <2>3. Counting'
    BY <2>1, <2>2 DEF Counting, LoopStages
  <2>4. View!NewWindow
    BY <2>1 DEF View!NewWindow, View!Blank
  <2> QED
    BY <2>3, <2>4 DEF Shows, View!ViewNext
<1>2. CASE AboutToQuit \/ Exit \/ Crash
  <2>1. session' # "up" /\ barMax' = 100 /\ barValue' = -1
    BY <1>2 DEF AboutToQuit, Exit, Crash, ProcessGone, NoWindow, DefaultMax
  <2>2. View!End \/ View!NewWindow
    BY <2>1 DEF View!End, View!NewWindow, View!Blank
  <2> QED
    BY <2>1, <2>2 DEF Counting, Shows, View!ViewNext
<1>3. CASE StartWorker
  <2>1. /\ session = "up" /\ session' = "up" /\ enabled /\ ~enabled' /\ barValue' = 0
        /\ UNCHANGED barMax /\ uiQueue' = <<>> /\ pc' = "check"
    BY <1>3 DEF StartWorker, NewJob, VInv, IInv, Phases
  <2>2. InOrder(uiQueue', barValue', barMax')
    BY <2>1, NothingPosted
  <2>3. Counting'
    BY <2>1, <2>2 DEF Counting, LoopStages
  <2>4. View!Begin
    BY <2>1 DEF View!Begin
  <2> QED
    BY <2>3, <2>4 DEF Shows, View!ViewNext
<1>4. CASE PickFolder
  <2>1. UNCHANGED <<pc, jobVars, uiQueue, session, enabled, barMax, barValue>>
    BY <1>4 DEF PickFolder
  <2> QED
    BY <2>1 DEF VInv, Counting, Shows, View!view, jobVars
<1>5. CASE RunWorker
  <2>1. UNCHANGED <<session, enabled, barMax, barValue>>
    BY <1>5 DEF RunWorker, guiVars
  <2> QED
    BY <1>5, <2>1, WorkerCounting DEF Shows, View!view
<1>6. CASE ThreadEnds
  <2>1. /\ uiQueue = <<>> /\ uiQueue' = <<ThreadFinished>> /\ pc' = "idle"
        /\ UNCHANGED <<session, enabled, barMax, barValue>>
    BY <1>6 DEF ThreadEnds, WorkerGone, VInv, IInv, Phases
  <2>2. \A k \in 1 .. Len(uiQueue') : uiQueue'[k].kind = "threadFinished"
    BY <2>1, SignalKinds
  <2>3. InOrder(uiQueue', barValue', barMax')
    BY <2>2 DEF InOrder
  <2> QED
    BY <2>1, <2>3 DEF Counting, LoopStages, Shows, View!view
<1>7. CASE Deliver
  BY <1>7, DeliverShows
<1>8. CASE UNCHANGED vars
  BY <1>8 DEF vars, workerVars, jobVars, guiVars, VInv, Counting, Shows, View!view
<1> QED
  BY <1>1, <1>2, <1>3, <1>4, <1>5, <1>6, <1>7, <1>8 DEF Next

\* The program shows its jobs as JobView promises: one at a time, each counted from 0
\* one entry after another up to an announced total, whatever quits, crashes and
\* exceptions come between.
THEOREM JobsAsPromised == Spec => ViewSpec
<1>1. Init => VInv /\ View!ViewInit
  BY InitInv DEF Init, VInv, Counting, View!ViewInit, View!Blank, DefaultMax
<1>2. VInv /\ [Next]_vars => VInv' /\ [View!ViewNext]_(View!view)
  BY NextInv, StepShows DEF VInv, Shows
<1> QED
  BY <1>1, <1>2, PTL DEF Spec, ViewSpec, View!ViewSpec
=============================================================================
