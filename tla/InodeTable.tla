----------------------------- MODULE InodeTable -----------------------------
(***************************************************************************)
(* The part of PKG::Extract that fills iNodeBuf: which of an image's blocks *)
(* it takes for blocks of inodes, and how many inodes it finds there.       *)
(***************************************************************************)
EXTENDS InodeLayout

CONSTANT MaxInodes   \* bound on the inodes of an image

VARIABLES
  ndinode,   \* the number of inodes, from the image's header
  block,     \* the loop's i
  inodes     \* iNodeBuf.size()

vars == <<ndinode, block, inodes>>

Init == ndinode \in 1 .. MaxInodes /\ block = 0 /\ inodes = 0

\* The inodes that block b of the image holds.
InodesIn(b) ==
  LET before == (b - 1) * PerBlock
  IN  IF b < 1 \/ before >= ndinode THEN 0
      ELSE IF ndinode - before > PerBlock THEN PerBlock ELSE ndinode - before

ReadBlock ==
  /\ block <= BlocksOf(ndinode)
  /\ inodes' = IF block >= 1 /\ block <= OccupiedBlocks(ndinode)
                 THEN inodes + InodesIn(block) ELSE inodes
  /\ block' = block + 1
  /\ UNCHANGED ndinode

Spec == Init /\ [][ReadBlock]_vars

\* Once the blocks that hold inodes are passed, every inode was copied: the
\* number of blocks the code computes is the number of "blocks(0x10000) ...
\* taken by iNodes" (pkg.cpp:764).
AllInodesRead == block > BlocksOf(ndinode) => inodes = ndinode
=============================================================================
