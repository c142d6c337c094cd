------------------------------- MODULE IoFile -------------------------------
(***************************************************************************)
(* common/io_file.cpp: IOFile objects, the stdio streams they own, and the  *)
(* files below, by their lengths.  A stream keeps what is written back      *)
(* until it is flushed; a flush that fails drops what it could not write.   *)
(* stdio itself is external.  One byte a write.                             *)
(***************************************************************************)
EXTENDS Integers

CONSTANTS Objects, IoPaths, MaxIo  \* MaxIo bounds the calls and the inodes

ASSUME IoAssumption == MaxIo \in Nat

VARIABLES
  names,   \* the inode each path leads to, 0: none
  sizes,   \* the length of each inode on disk
  streams, \* the open streams, by number (name, history: the path opened)
  obj,     \* each IOFile: file_path, file_access_mode and the stream, 0: closed
  told,    \* the answer of the last GetSize, with its object and (history) FALSE
           \* where the file system failed, or <<>>
  length,  \* history: the length as if nothing were buffered
  mixed,   \* history: inodes whose bytes went out of order between the streams, or
           \* were lost by a flush
  ioCalls
ioVars == <<names, sizes, streams, obj, told, length, mixed, ioCalls>>

Modes == {"Read", "Write", "ReadWrite", "Append", "ReadAppend"}
Inodes == 1 .. MaxIo
ClosedFile == [path |-> "", mode |-> "none", stream |-> 0]
NoStream == [name |-> "", inode |-> 0, pos |-> 0, held |-> 0, append |-> FALSE]
Most(a, b) == IF a > b THEN a ELSE b

IoInit ==
  /\ names = [p \in IoPaths |-> 0] /\ sizes = [k \in Inodes |-> 0]
  /\ streams = [k \in Inodes |-> NoStream] /\ obj = [o \in Objects |-> ClosedFile]
  /\ told = <<>> /\ length = sizes /\ mixed = {} /\ ioCalls = 0

IoCall == ioCalls < MaxIo /\ ioCalls' = ioCalls + 1
IsOpen(o) == obj[o].stream # 0
InodeAt(p) == IF p \in IoPaths THEN names[p] ELSE 0
StreamOf(o) == streams[obj[o].stream]

\* fflush: the bytes held go where the stream wrote them.
Flushed(sz, s) ==
  CASE s.held = 0 -> sz
    [] s.held > 0 /\ s.append -> [sz EXCEPT ![s.inode] = @ + s.held]
    [] s.held > 0 /\ ~s.append -> [sz EXCEPT ![s.inode] = Most(@, s.pos)]

\* The stream without the last n bytes it holds: those a full disk did not take.
Less(s, n) == [s EXCEPT !.held = @ - n, !.pos = IF s.append THEN @ ELSE Most(@ - n, 0)]
\* What may be lost, and the inodes of which something was.
Losses(o) == IF IsOpen(o) THEN 0 .. StreamOf(o).held ELSE {0}
MixedBy(k, n) == IF n = 0 THEN mixed ELSE mixed \cup {k}

AfterClose(o, n) == IF IsOpen(o) THEN Flushed(sizes, Less(StreamOf(o), n)) ELSE sizes
MixedByClose(o, n) == IF IsOpen(o) THEN MixedBy(StreamOf(o).inode, n) ELSE mixed
\* A stream other than this one holds bytes of the inode that now changes.
Overtaken(k, this) ==
  IF \E j \in Inodes \ {this} : streams[j].inode = k /\ streams[j].held > 0
  THEN mixed \cup {k} ELSE mixed
NoMore(o) == IF IsOpen(o) THEN [streams EXCEPT ![obj[o].stream] = NoStream] ELSE streams

-----------------------------------------------------------------------------
\* Open closes first, and nobody asks how; the modes find, empty or create the
\* file, or fopen fails.
OpenFile(o) ==
  /\ IoCall /\ told' = <<>>
  /\ \E p \in IoPaths, mode \in Modes, n \in Losses(o) :
       LET there == names[p] # 0
           creates == ~there /\ mode \notin {"Read", "ReadWrite"}
           inode == IF there THEN names[p] ELSE ioCalls'
           k == ioCalls'  \* a number not in use
           closed == AfterClose(o, n)
           empties == mode = "Write" IN
       \/ /\ there \/ creates
          /\ names' = [names EXCEPT ![p] = inode]
          /\ sizes' = IF empties THEN [closed EXCEPT ![inode] = 0] ELSE closed
          /\ length' = IF empties THEN [length EXCEPT ![inode] = 0] ELSE length
          /\ mixed' = MixedByClose(o, n) \cup (IF empties THEN Overtaken(inode, 0) ELSE {})
          /\ streams' = [NoMore(o) EXCEPT ![k] =
               [name |-> p, inode |-> inode, pos |-> 0, held |-> 0,
                append |-> mode \in {"Append", "ReadAppend"}]]
          /\ obj' = [obj EXCEPT ![o] = [path |-> p, mode |-> mode, stream |-> k]]
       \/ /\ sizes' = closed /\ streams' = NoMore(o) /\ mixed' = MixedByClose(o, n)
          /\ obj' = [obj EXCEPT ![o] = [path |-> p, mode |-> mode, stream |-> 0]]
          /\ UNCHANGED <<names, length>>

\* That fclose fails is logged.
CloseFile(o) ==
  /\ IoCall /\ IsOpen(o) /\ told' = <<>>
  /\ \E n \in Losses(o) : sizes' = AfterClose(o, n) /\ mixed' = MixedByClose(o, n)
  /\ streams' = NoMore(o)
  /\ obj' = [obj EXCEPT ![o].stream = 0] /\ UNCHANGED <<names, length>>

\* Mutation: the paths stay with the objects.
SwappedButPath(o, p) ==
  [obj EXCEPT ![o] = [obj[p] EXCEPT !.path = obj[o].path],
              ![p] = [obj[o] EXCEPT !.path = obj[p].path]]

\* The move constructor and assignment swap what the objects hold.
Swapped(o, p) == [obj EXCEPT ![o] = obj[p], ![p] = obj[o]]
Move(o, p) ==
  /\ IoCall /\ o # p /\ obj' = Swapped(o, p) /\ told' = <<>>
  /\ UNCHANGED <<names, sizes, streams, length, mixed>>

-----------------------------------------------------------------------------
\* WriteSpan and WriteObject refuse a closed file; WriteRaw would pass the null
\* stream on.  It flushes, and answers what fwrite took before.
WriteFile(o, raw) ==
  /\ IoCall /\ IsOpen(o) /\ obj[o].mode # "Read" /\ told' = <<>>
  /\ LET s == StreamOf(o)
         to == IF s.append THEN length[s.inode] + 1 ELSE s.pos + 1
         new == [s EXCEPT !.pos = to, !.held = @ + 1] IN
     /\ length' = [length EXCEPT ![s.inode] = Most(@, to)]
     /\ \/ /\ ~raw
           /\ streams' = [streams EXCEPT ![obj[o].stream] = new]
           /\ mixed' = Overtaken(s.inode, obj[o].stream)
           /\ UNCHANGED sizes
        \/ \E n \in 0 .. new.held :
             /\ raw
             /\ streams' = [streams EXCEPT ![obj[o].stream] = [Less(new, n) EXCEPT !.held = 0]]
             /\ mixed' = Overtaken(s.inode, obj[o].stream) \cup MixedBy(s.inode, n)
             /\ sizes' = Flushed(sizes, Less(new, n))
  /\ UNCHANGED <<names, obj>>

\* Flush and Commit, which answer whether it went well; the seek of stdio flushes
\* too, and stays where it is when it cannot.
Emptied(o, n) == [streams EXCEPT ![obj[o].stream] = [Less(@, n) EXCEPT !.held = 0]]
Flush(o, n) == /\ sizes' = Flushed(sizes, Less(StreamOf(o), n))
               /\ mixed' = MixedBy(StreamOf(o).inode, n)
FlushFile(o) ==
  /\ IoCall /\ IsOpen(o) /\ told' = <<>>
  /\ \E n \in Losses(o) : Flush(o, n) /\ streams' = Emptied(o, n)
  /\ UNCHANGED <<names, obj, length>>
SeekFile(o) ==
  /\ IoCall /\ IsOpen(o) /\ told' = <<>>
  /\ \E n \in Losses(o) :
       /\ Flush(o, n)
       /\ \/ n > 0 /\ streams' = Emptied(o, n)
          \/ \E to \in {0, sizes'[StreamOf(o).inode]} :
               n = 0 /\ streams' = [Emptied(o, n) EXCEPT ![obj[o].stream].pos = to]
  /\ UNCHANGED <<names, obj, length>>

\* SetSize cuts the file below the stream, whose bytes come later, or fails.
SetSize(o) ==
  /\ IoCall /\ IsOpen(o) /\ obj[o].mode # "Read" /\ told' = <<>>
  /\ LET k == StreamOf(o).inode IN
     \/ \E n \in 0 .. 2 :
          /\ sizes' = [sizes EXCEPT ![k] = n] /\ length' = [length EXCEPT ![k] = n]
          /\ mixed' = Overtaken(k, 0)
     \/ UNCHANGED <<sizes, length, mixed>>
  /\ UNCHANGED <<names, streams, obj>>

\* GetSize flushes, does not look how that went, and asks the file system for the
\* path; it answers 0 when the file system finds none, or fails.
GetSize(o) ==
  /\ IoCall /\ IsOpen(o)
  /\ \E n \in Losses(o) : Flush(o, n) /\ streams' = Emptied(o, n)
  /\ LET k == InodeAt(obj[o].path) IN
     \E ok \in BOOLEAN : told' = <<o, IF ok /\ k # 0 THEN sizes'[k] ELSE 0, ok>>
  /\ UNCHANGED <<names, obj, length>>

Unlink(o) ==
  /\ IoCall /\ IsOpen(o) /\ told' = <<>>
  /\ names' = [p \in IoPaths |-> IF p = obj[o].path THEN 0 ELSE names[p]]
  /\ UNCHANGED <<sizes, streams, obj, length, mixed>>

IoNext == \E o \in Objects :
  \/ OpenFile(o) \/ CloseFile(o) \/ FlushFile(o) \/ SeekFile(o) \/ SetSize(o) \/ GetSize(o)
  \/ Unlink(o)
  \/ \E p \in Objects : Move(o, p)
  \/ \E raw \in BOOLEAN : WriteFile(o, raw)
IoSpec == IoInit /\ [][IoNext]_ioVars

-----------------------------------------------------------------------------
\* GetSize counts every byte that this object accepted, through whatever moves,
\* as long as the path still leads to its file, no other stream holds bytes of
\* it, and no write, truncation or SetSize overtook bytes in a buffer
\* (io_file.cpp:158-171, 354-373).  What a flush could not bring to the disk it
\* does not count although a write answered that it was taken (io_file.h:187-192,
\* io_file.cpp:198-220, 360): of a file with such a loss nothing is said, nor of
\* the 0 that stands for an error of the file system.
SizeCountsTheWritten ==
  told = <<>> \/
    LET s == StreamOf(told[1]) IN
    \/ names[s.name] # s.inode \/ s.inode \in mixed \/ ~told[3]
    \/ \E k \in Inodes : streams[k].inode = s.inode /\ streams[k].held > 0
    \/ told[2] = length[s.inode]
=============================================================================
