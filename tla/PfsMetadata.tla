---------------------------- MODULE PfsMetadata ----------------------------
(***************************************************************************)
(* The walk of PKG::Extract over the metadata of a PFS image: block by      *)
(* block, and within a block of directory entries entry by entry, it fills  *)
(* iNodeBuf, fsTable and extractPaths and makes the directories.            *)
(*                                                                          *)
(* The images are those of packages: the superroot (inode 0) holds the flat *)
(* path table, in some packages a further file, and uroot, the root of the  *)
(* user's tree; a directory's entries lie in consecutive blocks and begin   *)
(* with "." and ".."; a directory comes after its parent; the contents of   *)
(* files come after the directories and may look like anything.             *)
(***************************************************************************)
EXTENDS InodeLayout, FiniteSets, Sequences, SequencesExt

CONSTANTS
  MaxNodes,          \* bound on the files and directories below uroot
  Names,             \* the names they can have
  Sanitized,         \* SanitizeFileName: a function from Names to names
  EntrySizes,        \* the sizes of an entry on disk; those of an image have one size
  DirentSize         \* sizeof(Dirent): an entry with the longest name

ASSUME MetadataAssumption ==
  /\ MaxNodes \in Nat /\ DirentSize \in Nat /\ EntrySizes \subseteq Nat \ {0}
  /\ \A s \in EntrySizes : s <= DirentSize /\ s + DirentSize <= BlockSize
  /\ DOMAIN Sanitized = Names

VARIABLES
  uroot, nodes, kind, name, parent, odd,         \* the image's tree
  children, dirs,  \* the orders of the entries in a directory, and of the directories
  entSize,       \* the size of an entry of a directory
  blocks,        \* the blocks of the image
  stage,         \* how the walk goes: "block", "entries", or how it ended
  i, j,          \* the block, and the entry in it
  ndinode,       \* the number of inodes, from the image's header
  inodes,        \* iNodeBuf.size()
  counter,       \* ndinode_counter
  inTree,        \* dinode_reached
  endReached,    \* end_reached
  currentDir,    \* current_dir
  fsTable,       \* fsTable, without the names
  paths,         \* extractPaths, as a partial function on inode numbers
  made           \* the directories that exist on disk

image == <<uroot, nodes, kind, name, parent, odd, children, dirs, entSize, blocks>>
walk == <<stage, i, j, ndinode, inodes, counter, inTree, endReached, currentDir>>
vars == <<image, walk, fsTable, paths, made>>

FILE == 2   \* the types of a directory entry, as in pfs.h
DIR == 3
SELF == 4
UP == 5
ODD == 0    \* any other number

Root == <<>>   \* extract_path: paths are sequences of names below it

-----------------------------------------------------------------------------
(***************************************************************************)
(* The image.                                                               *)
(***************************************************************************)
Entry(ino, type, nm) == [ino |-> ino, type |-> type, name |-> nm]

Directories == {uroot} \cup {n \in nodes : kind[n] = DIR}
ChildrenOf(d) == {n \in nodes : parent[n] = d}

\* The entries of directory d.
EntryOf(n) == Entry(n, IF n \in odd THEN ODD ELSE kind[n], name[n])
EntriesOf(d) ==
  <<Entry(d, SELF, "."), Entry(IF d = uroot THEN d ELSE parent[d], UP, "..")>>
    \o [k \in 1 .. Len(children[d]) |-> EntryOf(children[d][k])]

DirentsPerBlock == BlockSize \div entSize

\* The entries of d in a block that comes q blocks after its first one.
Part(d, q) ==
  SubSeq(EntriesOf(d), q * DirentsPerBlock + 1,
         IF (q + 1) * DirentsPerBlock < Len(EntriesOf(d))
           THEN (q + 1) * DirentsPerBlock ELSE Len(EntriesOf(d)))
Parts(d) == (Len(EntriesOf(d)) + DirentsPerBlock - 1) \div DirentsPerBlock

HasFiles == \E n \in nodes : kind[n] = FILE

InodeCount == Cardinality(nodes) + uroot + 1

\* The blocks of the inodes and of the superroot's entries and files come before
\* those of the directories; the place behind these stands for one more.
Superroot == BlocksOf(InodeCount) + 2
FirstBlock[k \in 1 .. Len(dirs) + 1] ==
  IF k = 1 THEN Superroot + 2 ELSE FirstBlock[k - 1] + Parts(dirs[k - 1])
LastBlock == FirstBlock[Len(dirs) + 1] - 1

\* The content of a file, which looks like an entry of a directory here.
Content ==
  [kind |-> "content", entries |-> <<Entry(1, FILE, CHOOSE nm \in Names : TRUE)>>]
Block(what, entries) == [kind |-> what, entries |-> entries]

Image ==
  [b \in 1 .. LastBlock + (IF HasFiles THEN 1 ELSE 0) |->
     CASE b = 1 -> Block("header", <<>>)
       [] b \in 2 .. Superroot - 1 -> Block("inodes", <<>>)
       [] b = Superroot -> Block("superroot", <<>>)
       [] b \in FirstBlock[1] .. LastBlock ->
            LET k == CHOOSE k \in 1 .. Len(dirs) : b \in FirstBlock[k] .. FirstBlock[k + 1] - 1
            IN Block("entries", Part(dirs[k], b - FirstBlock[k]))
       [] OTHER -> Content]

\* Parents come before their children, in the numbers of the inodes and in the
\* order of the directories; siblings have different names and come in any order.
TreeInit ==
  /\ uroot \in {2, 3}
  /\ \E count \in 0 .. MaxNodes : nodes = uroot + 1 .. uroot + count
  /\ kind \in [nodes -> {FILE, DIR}]
  /\ parent \in {f \in [nodes -> nodes \cup {uroot}] :
                   \A n \in nodes : f[n] < n /\ (f[n] \in nodes => kind[f[n]] = DIR)}
  /\ name \in {f \in [nodes -> Names] :
                 \A m, n \in nodes : m # n /\ parent[m] = parent[n] => f[m] # f[n]}
  /\ odd \in {{}, nodes}
  /\ children \in {f \in [Directories -> UNION {SetToSeqs(ChildrenOf(d)) : d \in Directories}] :
                     \A d \in Directories : f[d] \in SetToSeqs(ChildrenOf(d))}
  /\ \E order \in SetToSeqs({n \in nodes : kind[n] = DIR}) :
       /\ \A k, l \in DOMAIN order : parent[order[k]] = order[l] => l < k
       /\ dirs = <<uroot>> \o order
  /\ entSize \in EntrySizes
  /\ blocks = Image

Init ==
  /\ TreeInit
  /\ stage = "block" /\ i = 0 /\ j = 1
  /\ ndinode = 0 /\ inodes = 0 /\ counter = 0
  /\ inTree = FALSE /\ endReached = FALSE
  /\ currentDir = Root
  /\ fsTable = <<>> /\ paths = <<>> /\ made = {Root}

-----------------------------------------------------------------------------
(***************************************************************************)
(* The walk.                                                                *)
(***************************************************************************)
\* extractPaths[ino] = path.
PathsWith(ino, path) ==
  [n \in DOMAIN paths \cup {ino} |-> IF n = ino THEN path ELSE paths[n]]

Current == blocks[i + 1]

\* A sector that is not held, is empty, too large or does not inflate ends the
\* walk with an exception.
BlockThrows ==
  /\ stage = "block" /\ i < Len(blocks)
  /\ stage' = "thrown"
  /\ UNCHANGED <<image, i, j, ndinode, inodes, counter, inTree, endReached,
                 currentDir, fsTable, paths, made>>

\* The header tells the number of inodes.
HeaderCount == IF i = 0 THEN InodeCount ELSE ndinode

\* The blocks taken for blocks of inodes are those after the header.
InodesRead ==
  LET read == inodes + PerBlock
  IN  IF i >= 1 /\ i <= OccupiedBlocks(ndinode')
        THEN IF read < InodeCount THEN read ELSE InodeCount
        ELSE inodes

\* A directory is recognised by "." and "..".
StartsDirectory ==
  /\ Len(Current.entries) >= 2
  /\ Current.entries[1].type = SELF /\ Current.entries[2].type = UP

\* The superroot: its entries are counted, and the last of them is taken for
\* the root of the tree that is extracted.
ReadSuperroot ==
  IF Current.kind = "superroot"
    THEN /\ counter' = counter + uroot
         /\ paths' = PathsWith(counter + uroot, Root)
    ELSE UNCHANGED <<counter, paths>>

ReadBlock ==
  /\ stage = "block" /\ i < Len(blocks)
  /\ ndinode' = HeaderCount
  /\ inodes' = InodesRead
  /\ ReadSuperroot
  /\ inTree' = (inTree \/ StartsDirectory)
  /\ IF inTree' THEN stage' = "entries" /\ j' = 1 /\ UNCHANGED i
                ELSE i' = i + 1 /\ UNCHANGED <<stage, j>>
  /\ UNCHANGED <<image, endReached, currentDir, fsTable, made>>

ModeOf(n) == IF n \in nodes THEN kind[n] ELSE IF n \in {0, uroot} THEN DIR ELSE FILE

\* NormalizeDirentType: the type of the entry, or that of its inode.
Normalized(e) ==
  IF e.type # ODD THEN e.type ELSE IF e.ino < inodes THEN ModeOf(e.ino) ELSE ODD

\* Mutation: the directory that "." names does not become the current one.
SelfPathKept(e) ==
  /\ UNCHANGED currentDir
  /\ paths' = IF e.ino \in DOMAIN paths THEN paths ELSE PathsWith(e.ino, currentDir)

\* ".": the directory it names becomes the current one.
SelfPath(e) ==
  IF e.ino \in DOMAIN paths
    THEN currentDir' = paths[e.ino] /\ UNCHANGED paths
    ELSE paths' = PathsWith(e.ino, currentDir) /\ UNCHANGED currentDir

\* A name below the current directory.
ChildPath(e) ==
  /\ paths' = PathsWith(e.ino, Append(currentDir, Sanitized[e.name]))
  /\ UNCHANGED currentDir

IsDirectory(e) == Normalized(e) = DIR

\* Mutation: the root of the image is forgotten in the count.
LastNodeUncounted(n) == n = ndinode

\* "1 for the image itself (root)."
LastNode(n) == n + 1 = ndinode

\* A whole Dirent is copied, whatever the size of the entry: one that begins in
\* the last sizeof(Dirent) bytes of a block ends the block.
InTime(m) == (m - 1) * entSize + DirentSize <= BlockSize

\* One entry of the block.  create_directory throws when the parent is missing.
ReadEntry ==
  /\ stage = "entries" /\ j <= Len(Current.entries) /\ InTime(j)
  /\ LET e == Current.entries[j]
         type == Normalized(e)
         below == type \in {FILE, DIR}
     IN  /\ fsTable' = IF type = ODD THEN fsTable
                       ELSE Append(fsTable, [inode |-> e.ino, type |-> type])
         /\ \/ type = SELF /\ SelfPath(e)
            \/ below /\ ChildPath(e)
            \/ type \in {UP, ODD} /\ UNCHANGED <<paths, currentDir>>
         /\ IF below /\ IsDirectory(e)
              THEN IF currentDir \in made THEN made' = made \cup {paths'[e.ino]} /\ UNCHANGED stage
                                          ELSE stage' = "noParent" /\ UNCHANGED made
              ELSE UNCHANGED <<made, stage>>
         /\ counter' = IF below THEN counter + 1 ELSE counter
         /\ endReached' = (endReached \/ (below /\ LastNode(counter + 1)))
  /\ j' = j + 1
  /\ UNCHANGED <<image, i, ndinode, inodes, inTree>>

EndBlock ==
  /\ stage = "entries" /\ (j > Len(Current.entries) \/ ~InTime(j))
  /\ IF endReached THEN stage' = "count" /\ UNCHANGED i
                   ELSE stage' = "block" /\ i' = i + 1
  /\ UNCHANGED <<image, j, ndinode, inodes, counter, inTree, endReached, currentDir,
                 fsTable, paths, made>>

EndBlocks ==
  /\ stage = "block" /\ i = Len(blocks)
  /\ stage' = "count"
  /\ UNCHANGED <<image, i, j, ndinode, inodes, counter, inTree, endReached, currentDir,
                 fsTable, paths, made>>

\* A table without a file is filled from the inodes that are files.
Synthetic == SelectSeq([k \in 1 .. inodes |-> k - 1], LAMBDA n : ModeOf(n) = FILE)

Count ==
  /\ stage = "count"
  /\ stage' = "listed"
  /\ IF \E k \in DOMAIN fsTable : fsTable[k].type = FILE
       THEN UNCHANGED <<fsTable, paths>>
       ELSE /\ fsTable' = fsTable \o [k \in DOMAIN Synthetic |->
                                        [inode |-> Synthetic[k], type |-> FILE]]
            /\ paths' = [n \in DOMAIN paths \cup Range(Synthetic) |->
                        IF n \in DOMAIN paths THEN paths[n] ELSE <<"inode">>]
  /\ UNCHANGED <<image, i, j, ndinode, inodes, counter, inTree, endReached, currentDir,
                 made>>

Next ==
  \/ BlockThrows \/ ReadBlock
  \/ ReadEntry \/ EndBlock \/ EndBlocks
  \/ Count

Spec == Init /\ [][Next]_vars
=============================================================================
