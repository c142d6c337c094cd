---------------------------- MODULE FileExtract ----------------------------
(***************************************************************************)
(* Writing one entry of the file table: CanExtractFile, which looks at the  *)
(* entry without touching the disk, and ExtractFiles, which reads, decrypts *)
(* and inflates its blocks one by one and writes them to the output, or     *)
(* throws.  Every number comes from the package, and u64 arithmetic runs    *)
(* modulo Wrap.                                                             *)
(***************************************************************************)
EXTENDS Integers, Sequences

CONSTANTS
  Wrap,           \* the number of values of a u64
  Block,          \* 0x10000, the bytes of an inflated block
  Page,           \* 0x1000, the bytes of a block of the cipher
  MaxRead,        \* 0x20000
  PkgSizes,       \* what the size of the file can be
  ImageOffsets,   \* pfs_image_offset
  PfscOffsets,    \* pfsc_offset
  SectorMaps,     \* what the sector map can be
  Locs,           \* inode.loc
  BlockCounts,    \* inode.Blocks
  FileSizes       \* inode.Size

ASSUME ExtractAssumption ==
  /\ Page \in Nat \ {0} /\ Block \in Nat \ {0} /\ Block % Page = 0
  /\ MaxRead \in Nat /\ Block + Page <= MaxRead
  /\ Wrap \in Nat /\ Wrap % Page = 0 /\ Block + 2 * Page <= Wrap
  /\ PkgSizes \subseteq 0 .. Wrap - 1 /\ ImageOffsets \subseteq 0 .. Wrap - 1
  /\ PfscOffsets \subseteq 0 .. Wrap - 1 /\ SectorMaps \subseteq Seq(0 .. Wrap - 1)
  /\ Locs \subseteq Nat /\ BlockCounts \subseteq Nat /\ FileSizes \subseteq Int

VARIABLES
  entry,        \* "file", "other" (no file), or "bad" (no such inode, path or file)
  pkgSize, imageOffset, pfscOffset, sectorMap,   \* the package
  loc, nblocks, fileSize,                        \* the inode
  stage,        \* how far ExtractFiles is, "thrown" or "done" when it has ended
  j,            \* the block it works on
  written,      \* the bytes of the output file, None while there is none
  lastRead,     \* history: the last read: where, how much, and which page it is taken for
  faulted,      \* history: the disk failed, or a block did not inflate
  dropped       \* history: bytes that the output took are not in the file

inode == <<loc, nblocks, fileSize>>
input == <<entry, pkgSize, imageOffset, pfscOffset, sectorMap, inode>>
vars == <<input, stage, j, written, lastRead, faulted, dropped>>

None == -1

Add(a, b) == (a + b) % Wrap
Sub(a, b) == (a - b) % Wrap
Ceil(n) == Page * (Add(n, Page - 1) \div Page)

\* sectorMap[k], counted from 0.
Sector(k) == sectorMap[k + 1]

\* What both functions compute for the block at index k of the sector map.
SectorSize(k) == Sub(Sector(k + 1), Sector(k))
FileOffset(k) == Add(Add(imageOffset, pfscOffset), Sector(k))

PreviousData(k) == Add(Sector(k), pfscOffset) % Page
ReadSize(k) == Ceil(Add(PreviousData(k), SectorSize(k)))
ReadStart(k) == Sub(FileOffset(k), PreviousData(k))
CipherPage(k) == Add(pfscOffset, Sector(k)) \div Page

\* The checks of the inode that both functions make.
InodeFits ==
  /\ fileSize >= 0 /\ fileSize <= nblocks * Block
  /\ loc < Len(sectorMap)
  /\ nblocks + 1 <= Len(sectorMap) - loc

\* Mutation: the read is not compared with the size of the package.
BlockAcceptedAnywhere(k) ==
  /\ Sector(k + 1) > Sector(k) /\ SectorSize(k) <= Block
  /\ FileOffset(k) >= PreviousData(k)

\* The checks of CanExtractFile for a block.
BlockAccepted(k) ==
  /\ Sector(k + 1) > Sector(k) /\ SectorSize(k) <= Block
  /\ FileOffset(k) >= PreviousData(k)
  /\ ReadSize(k) # 0
  /\ ReadStart(k) <= pkgSize /\ ReadSize(k) <= pkgSize - ReadStart(k)

\* CanExtractFile.
CanExtractFile ==
  \/ entry = "other"
  \/ /\ entry = "file" /\ InodeFits
     /\ \A k \in loc .. loc + nblocks - 1 : BlockAccepted(k)

Init ==
  /\ entry \in {"file", "other", "bad"}
  /\ pkgSize \in PkgSizes /\ imageOffset \in ImageOffsets /\ pfscOffset \in PfscOffsets
  /\ sectorMap \in SectorMaps
  /\ loc \in Locs /\ nblocks \in BlockCounts /\ fileSize \in FileSizes
  /\ stage = "begin" /\ j = 0
  /\ written = None /\ lastRead = <<>>
  /\ faulted = FALSE /\ dropped = FALSE

Throw ==
  /\ stage' = "thrown"
  /\ UNCHANGED <<input, j, written, lastRead, faulted, dropped>>

\* A call to the disk or to zlib fails.
Fault ==
  /\ stage' = "thrown" /\ faulted' = TRUE
  /\ UNCHANGED <<input, j, written, lastRead, dropped>>

\* Up to the opening of the output, which truncates it.
Begin ==
  /\ stage = "begin"
  /\ \/ /\ entry = "other"
        /\ stage' = "done"
        /\ UNCHANGED <<input, j, written, lastRead, faulted, dropped>>
     \/ entry = "bad" /\ Throw
     \/ entry = "file" /\ ~InodeFits /\ Throw
     \/ entry = "file" /\ InodeFits /\ Fault
     \/ /\ entry = "file" /\ InodeFits
        /\ written' = 0
        /\ stage' = IF nblocks = 0 THEN "done" ELSE "read"
        /\ UNCHANGED <<input, j, lastRead, faulted, dropped>>

Here == loc + j

\* The checks ExtractFiles makes for a block; the sum is not kept from wrapping.
BlockChecked(k) ==
  /\ SectorSize(k) # 0 /\ SectorSize(k) <= Block
  /\ ReadSize(k) # 0 /\ ReadSize(k) <= MaxRead
  /\ FileOffset(k) >= PreviousData(k)
  /\ Add(ReadStart(k), ReadSize(k)) <= pkgSize

\* Mutation: the page the bytes are decrypted as is counted in the file.
ReadAsFilePage ==
  lastRead' = [start |-> ReadStart(Here), length |-> ReadSize(Here),
               page |-> FileOffset(Here) \div Page, from |-> PreviousData(Here)]

\* The bytes that are read, and the page decryptPFS takes them for.
Reading ==
  lastRead' = [start |-> ReadStart(Here), length |-> ReadSize(Here),
               page |-> CipherPage(Here), from |-> PreviousData(Here)]

\* Seek takes an s64; a read that ends beyond the file is short.
ReadBlock ==
  /\ stage = "read"
  /\ \/ ~BlockChecked(Here) /\ Throw
     \/ BlockChecked(Here) /\ Fault
     \/ /\ BlockChecked(Here)
        /\ ReadStart(Here) + ReadSize(Here) <= pkgSize
        /\ Reading
        /\ stage' = "write"
        /\ UNCHANGED <<input, j, written, faulted, dropped>>

\* "This is to remove the zeros at the end of the file."
LastPart ==
  LET rest == fileSize - j * Block
  IN  IF rest < 0 THEN 0 ELSE IF rest > Block THEN Block ELSE rest

\* What is written of the block.
Piece == IF j < nblocks - 1 THEN Block ELSE LastPart

\* The block is inflated, unless it is whole already, and written.  fwrite only
\* fills the stream: that the flush after it fails, or the close at the end, is
\* noticed by nobody, and the file is as long as the bytes that arrived.
WriteBlock ==
  /\ stage = "write"
  /\ \/ Fault
     \/ /\ \/ written' = written + Piece /\ UNCHANGED dropped
           \/ written' \in 0 .. written + Piece - 1 /\ dropped' = TRUE
        /\ j' = j + 1
        /\ stage' = IF j + 1 = nblocks THEN "done" ELSE "read"
        /\ UNCHANGED <<input, lastRead, faulted>>

Next == Begin \/ ReadBlock \/ WriteBlock

Spec == Init /\ [][Next]_vars

-----------------------------------------------------------------------------
\* No sum of offsets of the package runs over.
NoWrap ==
  \A k \in DOMAIN sectorMap : imageOffset + pfscOffset + sectorMap[k] < Wrap

\* The preflight check and the extraction agree, although each makes its own
\* checks: what CanExtractFile accepts, ExtractFiles refuses only when the disk or
\* zlib fails, and what it refuses, ExtractFiles never completes, unless the
\* package's offsets run over 64 bits.
PreflightAgrees ==
  /\ stage = "thrown" /\ CanExtractFile => faulted
  /\ stage = "done" /\ NoWrap => CanExtractFile

\* A block is read from inside the file, it is decrypted as the page of the image
\* it is read from, and the bytes that are used of it are those of its sector;
\* and a completed file of which every byte that the stream took arrived is not
\* cut short, and has the size its inode tells when the inode has no more blocks
\* than the size needs.  Of a file that lost bytes in a flush or the close it only
\* says that it is no longer than its blocks: ExtractFiles returns from it as from
\* a whole one.
WrittenAsTold ==
  /\ stage = "write" =>
       /\ lastRead.start + lastRead.length <= pkgSize
       /\ lastRead.start = Add(imageOffset, (lastRead.page * Page) % Wrap)
       /\ Add(lastRead.start, lastRead.from) = FileOffset(Here)
       /\ lastRead.from + SectorSize(Here) <= lastRead.length
  /\ stage = "done" /\ entry = "file" =>
       /\ written <= nblocks * Block
       /\ ~dropped => /\ written >= fileSize
                      /\ nblocks * Block - fileSize < Block => written = fileSize
=============================================================================
