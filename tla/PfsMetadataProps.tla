-------------------------- MODULE PfsMetadataProps --------------------------
(***************************************************************************)
(* What makes the walk over the metadata correct.                           *)
(***************************************************************************)
EXTENDS PfsMetadata

\* The path of each file and directory, from the root of the tree.
TruePath[n \in nodes] ==
  Append(IF parent[n] = uroot THEN Root ELSE TruePath[parent[n]], Sanitized[name[n]])

\* No entry of a directory is one that the code skips.
NoneSkipped == \A d \in Directories : \A q \in 0 .. Parts(d) - 1 : InTime(Len(Part(d, q)))

\* The entry of n is read, not skipped at the end of its block.
Read(n) ==
  LET c == CHOOSE c \in DOMAIN children[parent[n]] : children[parent[n]][c] = n
  IN  InTime(((c + 1) % DirentsPerBlock) + 1)

\* And those of the directories above it are.
Found[n \in nodes] == Read(n) /\ (parent[n] # uroot => Found[parent[n]])

\* The walk is through the directories, and not yet in the contents of files.
Through == (stage = "block" /\ i = LastBlock) \/ (stage = "count" /\ i < LastBlock)

RightPlace(n) ==
  /\ n \in DOMAIN paths /\ paths[n] = TruePath[n]
  /\ kind[n] = DIR => TruePath[n] \in made

\* When the walk returns, every file and directory of the tree has the path its
\* place in the tree gives it, although the code knows only which "." it saw last
\* and directories fill several blocks; and every directory is made, its parent
\* first, whatever their order: create_directory makes one level only.  The code
\* skips the entries in the last sizeof(Dirent) bytes of a block: where an image
\* has some, this is so of what lies below none of them when the directories have
\* been read, and in no image create_directory misses a parent.
PathsMatchTree ==
  /\ stage # "noParent"
  /\ Through => \A n \in nodes : Found[n] => RightPlace(n)
  /\ stage = "listed" /\ NoneSkipped => \A n \in nodes : RightPlace(n)

Listed(n) == {k \in DOMAIN fsTable : fsTable[k].inode = n /\ fsTable[k].type \in {FILE, DIR}}
ListedOnce(n) == \E k \in DOMAIN fsTable : Listed(n) = {k} /\ fsTable[k].type = kind[n]

\* When the walk returns, every file and directory is listed exactly once under
\* its type, and nothing else is: the walk stops with the last entry, before the
\* contents of files, which may look like entries (end_reached).  Where the code
\* skips entries they are not counted, and the walk runs on into the contents;
\* of these images it is so of the entries it reads, up to there.
ListsTheTree ==
  /\ Through => /\ \A n \in nodes : Read(n) => ListedOnce(n)
                /\ \A n \in 0 .. uroot : Listed(n) = {}
  /\ stage = "listed" /\ HasFiles /\ NoneSkipped =>
       /\ \A n \in nodes : ListedOnce(n)
       /\ \A n \in 0 .. uroot : Listed(n) = {}
=============================================================================
