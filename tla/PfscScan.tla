------------------------------ MODULE PfscScan ------------------------------
(***************************************************************************)
(* GetPFSCOffset of src/core/file_format/pkg.cpp, one turn of a loop a      *)
(* step.  The loops' index is a u32, which runs modulo Wrap; the buffer's   *)
(* size is a size_t.                                                        *)
(***************************************************************************)
EXTENDS PfscHeader, FiniteSets

CONSTANTS
  Wrap,       \* the number of values of a u32
  MaxSize,    \* bound on the size of the buffer
  MaxHits     \* bound on the occurrences of the magic number

ASSUME ScanAssumption == Wrap \in Nat \ {0} /\ MaxSize \in Nat /\ MaxHits \in Nat

VARIABLES
  size, hits,   \* the buffer
  loop,         \* the loop that runs, "done" once the function has returned
  i,            \* its index
  result        \* what was returned

buffer == <<size, hits>>
scanVars == <<size, hits, loop, i, result>>

\* Occurrences of the magic number do not overlap.
Apart(ps) == \A p, q \in ps : p # q => p - q >= MagicSize \/ q - p >= MagicSize

ScanInit ==
  /\ size \in 0 .. MaxSize
  /\ hits \in {ps \in SUBSET (0 .. size - MagicSize) :
                 Cardinality(ps) <= MaxHits /\ Apart(ps)}
  /\ loop = "start" /\ i = 0
  /\ result = NotFound

Return(offset) ==
  /\ loop' = "done" /\ result' = offset
  /\ UNCHANGED <<buffer, i>>

BeginLoop(next, first) ==
  /\ loop' = next /\ i' = first
  /\ UNCHANGED <<buffer, result>>

HeaderAt(p) == p \in hits /\ p + MinHeader <= size

\* One turn of a loop that looks at i: the header is there, or the index moves.
Look(stride) ==
  \/ HeaderAt(i) /\ Return(i)
  \/ /\ ~HeaderAt(i)
     /\ i' = (i + stride) % Wrap
     /\ UNCHANGED <<buffer, loop, result>>

\* The buffer is too small, or the header is at offset 0.
Start ==
  /\ loop = "start"
  /\ \/ size < MinHeader /\ Return(NotFound)
     \/ size >= MinHeader /\ HeaderAt(0) /\ Return(0)
     \/ size >= MinHeader /\ ~HeaderAt(0) /\ BeginLoop("fast", FastStart)

\* Mutation: the loop stops one header short of the end of the buffer.
FastShort ==
  /\ loop = "fast"
  /\ IF i + MinHeader < size THEN Look(FastStride) ELSE BeginLoop("sector", 0)

Fast ==
  /\ loop = "fast"
  /\ IF i < size /\ i + MagicSize <= size THEN Look(FastStride)
                                          ELSE BeginLoop("sector", 0)

SectorScan ==
  /\ loop = "sector"
  /\ IF i + MagicSize <= size THEN Look(SectorSize) ELSE BeginLoop("byte", 0)

\* Mutation: the index is not advanced over an incomplete header.
ByteScanStuck ==
  /\ loop = "byte"
  /\ IF i + MagicSize <= size % Wrap
       THEN Look(IF i \in hits THEN 0 ELSE Granularity(size))
       ELSE Return(NotFound)

\* The size is cut to 32 bits here.
ByteScan ==
  /\ loop = "byte"
  /\ IF i + MagicSize <= size % Wrap THEN Look(Granularity(size))
                                     ELSE Return(NotFound)

ScanNext == Start \/ Fast \/ SectorScan \/ ByteScan

\* The function runs on until it returns.
ScanSpec == ScanInit /\ [][ScanNext]_scanVars /\ WF_scanVars(ScanNext)

-----------------------------------------------------------------------------
\* The four loops return the preferred header of the buffer, or none when the
\* buffer holds none (the whole of GetPFSCOffset).
FindsHeader == loop = "done" => result = HeaderOffset(hits, size)

\* The search ends: a buffer without a header is told from one with a header
\* ("Search the entire buffer", pkg.cpp:139).
ScanEnds == <>(loop = "done")
=============================================================================
