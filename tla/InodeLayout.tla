---------------------------- MODULE InodeLayout ----------------------------
(***************************************************************************)
(* How the inodes of a PFS image fill its blocks: they are packed from the  *)
(* start of a block, and none crosses into the next one (the loop that      *)
(* copies them in PKG::Extract).                                            *)
(***************************************************************************)
EXTENDS Integers

CONSTANTS
  BlockSize,   \* 0x10000
  InodeSize    \* 0xA8

ASSUME LayoutAssumption ==
  /\ BlockSize \in Nat /\ InodeSize \in Nat \ {0} /\ InodeSize <= BlockSize

PerBlock == BlockSize \div InodeSize

\* The blocks that hold n inodes.
BlocksOf(n) == (n + PerBlock - 1) \div PerBlock

\* occupied_blocks: "how many blocks(0x10000) are taken by iNodes".
OccupiedBlocks(n) ==
  (n * InodeSize) \div BlockSize + (IF (n * InodeSize) % BlockSize # 0 THEN 1 ELSE 0)
=============================================================================
