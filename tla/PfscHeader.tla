----------------------------- MODULE PfscHeader -----------------------------
(***************************************************************************)
(* Where a buffer holds the PFSC header: what GetPFSCOffset of              *)
(* src/core/file_format/pkg.cpp looks for.  A buffer is its size and the    *)
(* set of offsets at which the magic number stands in it.                   *)
(***************************************************************************)
EXTENDS Integers

CONSTANTS
  MagicSize,     \* sizeof(u32)
  MinHeader,     \* MinPFSCSize, the least number of bytes from the magic on
  FastStart,     \* 0x20000, where the layout of most packages puts it
  FastStride,    \* 0x10000
  SectorSize,    \* 0x1000
  SampleAbove,   \* 0x40000000, the size beyond which bytes are sampled
  SampleStride   \* 16

ASSUME HeaderAssumption ==
  /\ MagicSize \in Nat \ {0} /\ MinHeader \in Nat /\ MagicSize <= MinHeader
  /\ FastStart \in Nat /\ FastStride \in Nat \ {0}
  /\ SectorSize \in Nat \ {0} /\ SampleAbove \in Nat /\ SampleStride \in Nat \ {0}

NotFound == -1

Granularity(size) == IF size > SampleAbove THEN SampleStride ELSE 1

\* The header begins at p and lies in the buffer.
Complete(hits, size) == {p \in hits : p + MinHeader <= size}

\* The offsets each of the four searches looks at, the preferred search first.
AtStart(ps) == ps \cap {0}
OnFast(ps) == {p \in ps : p >= FastStart /\ (p - FastStart) % FastStride = 0}
OnSector(ps) == {p \in ps : p % SectorSize = 0}
OnSample(ps, size) == {p \in ps : p % Granularity(size) = 0}

Least(ps) == CHOOSE p \in ps : \A q \in ps : p <= q

\* The header of a buffer: the first of the most preferred occurrences.
HeaderOffset(hits, size) ==
  LET found == Complete(hits, size)
      first == IF AtStart(found) # {} THEN AtStart(found)
               ELSE IF OnFast(found) # {} THEN OnFast(found)
               ELSE IF OnSector(found) # {} THEN OnSector(found)
               ELSE OnSample(found, size)
  IN  IF first = {} THEN NotFound ELSE Least(first)
=============================================================================
