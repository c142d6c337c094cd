-------------------------- MODULE PfsMetadataProofs ---------------------------
(***************************************************************************)
(* The walk over the metadata rebuilds the tree, for any tree, any order of *)
(* its directories and of their entries, and blocks of any size.            *)
(***************************************************************************)
EXTENDS PfsMetadataProps, FiniteSetTheorems, SequenceTheorems, TLAPS

\* The tree and its layout, as TreeInit has chosen them.
TreeRight ==
  /\ uroot \in {2, 3}
  /\ \E count \in 0 .. MaxNodes : nodes = uroot + 1 .. uroot + count
  /\ kind \in [nodes -> {FILE, DIR}] /\ odd \subseteq nodes /\ name \in [nodes -> Names]
  /\ parent \in [nodes -> nodes \cup {uroot}]
  /\ \A n \in nodes : parent[n] < n /\ parent[n] \in Directories
  /\ \A d \in Directories :
       /\ children[d] \in [1 .. Cardinality(ChildrenOf(d)) -> ChildrenOf(d)]
       /\ \A n \in ChildrenOf(d) : \E k \in DOMAIN children[d] : children[d][k] = n
       /\ \A k, l \in DOMAIN children[d] : children[d][k] = children[d][l] => k = l
  /\ dirs \in Seq(Directories) /\ Len(dirs) >= 1 /\ dirs[1] = uroot
  /\ \A d \in Directories : \E k \in DOMAIN dirs : dirs[k] = d
  /\ \A k, l \in DOMAIN dirs :
       /\ dirs[k] = dirs[l] => k = l
       /\ k > 1 => (parent[dirs[k]] = dirs[l] => l < k)
  /\ entSize \in EntrySizes
  /\ blocks = Image

\* All blocks of inodes are read where they are needed: for few enough inodes.
InodesAllRead == odd = {} \/ BlocksOf(InodeCount) <= OccupiedBlocks(InodeCount)

\* And no entry of a directory lies where the code skips it.
ImageRead == InodesAllRead /\ NoneSkipped

PathOf(d) == IF d = uroot THEN Root ELSE TruePath[d]

\* The place behind block b is that before entry p + 1 of the k-th directory.
Before(b, k, p) ==
  /\ k \in 1 .. Len(dirs) + 1 /\ FirstBlock[k] <= b /\ p = (b - FirstBlock[k]) * DirentsPerBlock
  /\ IF k <= Len(dirs) THEN b < FirstBlock[k + 1] ELSE b = FirstBlock[k]

\* The walk has read all entries of k - 1 directories and p of the k-th.
Place(k, p) ==
  \/ stage = "block" /\ Before(i + 1, k, p)
  \/ /\ stage = "entries" /\ k <= Len(dirs) /\ j \in 1 .. Len(Current.entries) + 1
     /\ Before(i + 1, k, p - (j - 1))

\* The files and directories in the entries before that place.
Seen(k, p) ==
  {n \in nodes : \E l \in 1 .. Len(dirs) :
     /\ dirs[l] = parent[n]
     /\ \/ l < k
        \/ l = k /\ \E c \in DOMAIN children[parent[n]] : c + 2 <= p /\ children[parent[n]][c] = n}

\* What the walk has left of the files and directories S.
PathsRight(S) ==
  /\ DOMAIN paths = {uroot} \cup S /\ paths[uroot] = Root
  /\ \A n \in S : paths[n] = TruePath[n]
MadeRight(S) == Root \in made /\ \A n \in S : kind[n] = DIR => TruePath[n] \in made
TableRight(S) ==
  /\ fsTable \in Seq([inode : Nat, type : Nat])
  /\ \A n \in nodes \ S : Listed(n) = {}
  /\ \A n \in 0 .. uroot : Listed(n) = {}
  /\ \A n \in S : \E k \in DOMAIN fsTable : Listed(n) = {k} /\ fsTable[k].type = kind[n]

InodesRight ==
  /\ inodes \in 0 .. InodeCount
  /\ \A c \in 0 .. OccupiedBlocks(InodeCount) : c < i => inodes = InodeCount \/ inodes >= PerBlock * c

\* Up to the first directory.
Outside ==
  /\ stage = "block" /\ i \in 0 .. FirstBlock[1] - 1 /\ ~endReached /\ InodesRight
  /\ i > 0 => ndinode = InodeCount
  /\ IF i < Superroot THEN counter = 0 /\ DOMAIN paths = {}
                      ELSE counter = uroot /\ PathsRight({})
  /\ currentDir = Root /\ made = {Root} /\ fsTable = <<>>

\* Among the directories.
Inside ==
  /\ stage \in {"block", "entries"} /\ ndinode = InodeCount /\ i \in Nat
  /\ odd # {} => inodes = InodeCount
  /\ \E k \in 1 .. Len(dirs) + 1, p \in Nat :
       /\ Place(k, p) /\ counter = uroot + Cardinality(Seen(k, p))
       /\ endReached <=> (nodes # {} /\ Seen(k, p) = nodes)
       /\ PathsRight(Seen(k, p)) /\ MadeRight(Seen(k, p)) /\ TableRight(Seen(k, p))
       /\ p > 0 => currentDir = PathOf(dirs[k])
  /\ stage = "block" => ~endReached

\* Behind them.
Ended ==
  /\ stage \in {"count", "listed"} /\ MadeRight(nodes)
  /\ HasFiles \/ stage = "count" => TableRight(nodes)
  /\ \A n \in nodes : n \in DOMAIN paths /\ paths[n] = TruePath[n]

\* The inductive invariant.
WalkInv ==
  /\ TreeRight
  /\ ImageRead =>
       \/ stage = "thrown" \/ Ended
       \/ ~inTree /\ Outside
       \/ inTree /\ Inside

-----------------------------------------------------------------------------
(***************************************************************************)
(* Numbers and lists.                                                       *)
(***************************************************************************)
\* A set of numbers that lacks one lacks a first one.
LEMMA FirstMissing ==
  ASSUME NEW n \in Nat, NEW S, NEW k \in 0 .. n, k \notin S
  PROVE  \E b \in 0 .. n : b \notin S /\ \A a \in 0 .. n : a < b => a \in S
<1> DEFINE bad == {b \in Nat : b <= n /\ b \notin S}
<1>1. bad \subseteq Nat /\ bad # {}
  OBVIOUS
<1>2. PICK b \in bad : \A a \in bad : ~(<<a, b>> \in OpToRel(<, Nat))
  BY <1>1, NatLessThanWellFounded, WFMin
<1>3. b \in bad /\ \A a \in bad : ~(a < b)
  BY <1>1, <1>2 DEF OpToRel
<1>4. b \in 0 .. n /\ b \notin S
  BY <1>3
<1>5. ASSUME NEW a \in 0 .. n, a < b PROVE a \in S
  <2>1. a \notin bad
    BY <1>3, <1>5
  <2> QED
    BY <2>1
<1> QED
  BY <1>4, <1>5

\* What is true of 0 and passes from each number to the next one up to n.
LEMMA CountingUp ==
  ASSUME NEW n \in Nat, NEW S, 0 \in S, \A k \in 1 .. n : k - 1 \in S => k \in S
  PROVE  \A k \in 0 .. n : k \in S
<1> SUFFICES ASSUME NEW k \in 0 .. n, k \notin S PROVE FALSE
  OBVIOUS
<1>1. PICK b \in 0 .. n : b \notin S /\ \A a \in 0 .. n : a < b => a \in S
  BY FirstMissing
<1>2. b # 0
  BY <1>1
<1>3. b \in 1 .. n /\ b - 1 \in 0 .. n /\ b - 1 < b
  BY <1>2
<1> QED
  BY <1>1, <1>3

\* A list written as a function has the length of its domain.
LEMMA ListLength ==
  ASSUME NEW n \in Nat, NEW f, DOMAIN f = 1 .. n, NEW T, f \in [1 .. n -> T]
  PROVE  f \in Seq(T) /\ Len(f) = n
OBVIOUS

\* A list behind a list of two.
LEMMA TwoBefore ==
  ASSUME NEW T, NEW s \in Seq(T), Len(s) = 2, NEW r \in Seq(T), NEW n \in Nat, Len(r) = n
  PROVE  /\ s \o r \in Seq(T) /\ Len(s \o r) = n + 2
         /\ (s \o r)[1] = s[1] /\ (s \o r)[2] = s[2]
         /\ \A c \in 1 .. n : (s \o r)[c + 2] = r[c]
<1>1. /\ s \o r \in Seq(T) /\ Len(s \o r) = 2 + n
      /\ \A c \in 1 .. 2 + n : (s \o r)[c] = IF c <= 2 THEN s[c] ELSE r[c - 2]
  BY ConcatProperties
<1>2. (s \o r)[1] = s[1] /\ (s \o r)[2] = s[2]
  BY <1>1
<1>3. ASSUME NEW c \in 1 .. n PROVE (s \o r)[c + 2] = r[c]
  <2>1. c + 2 \in 1 .. 2 + n /\ ~(c + 2 <= 2) /\ c + 2 - 2 = c
    OBVIOUS
  <2> QED
    BY <1>1, <2>1
<1> QED
  BY <1>1, <1>2, <1>3

\* Products grow with their first factor.
LEMMA ProductGrows ==
  ASSUME NEW a \in Nat, NEW b \in Nat, NEW m \in Nat, a <= b
  PROVE  a * m \in Nat /\ b * m \in Nat /\ a * m <= b * m
<1>1. PICK c \in Nat : b = a + c
  <2>1. b - a \in Nat /\ b = a + (b - a)
    OBVIOUS
  <2> QED
    BY <2>1
<1>2. (a + c) * m = a * m + c * m
  OBVIOUS
<1>3. a * m \in Nat /\ c * m \in Nat
  OBVIOUS
<1> QED
  BY <1>1, <1>2, <1>3

\* Quotient and remainder.
LEMMA Division ==
  ASSUME NEW n \in Nat, NEW m \in Nat \ {0}
  PROVE  n \div m \in Nat /\ n % m \in 0 .. m - 1 /\ n = m * (n \div m) + (n % m)
OBVIOUS

\* Rounding up keeps above what the number is above.
LEMMA RoundedUpBound ==
  ASSUME NEW n \in Nat, NEW m \in Nat \ {0}, NEW b \in Nat, n > (b - 1) * m
  PROVE  n \div m + (IF n % m # 0 THEN 1 ELSE 0) >= b
<1> DEFINE q == n \div m
           r == n % m
<1>1. q \in Nat /\ r \in 0 .. m - 1 /\ n = m * q + r
  BY Division
<1> HIDE DEF q, r
<1>2. q >= b - 1
  <2> SUFFICES ASSUME q + 1 <= b - 1 PROVE FALSE
    BY <1>1
  <2>1. q + 1 \in Nat /\ b - 1 \in Nat
    BY <1>1
  <2>2. (q + 1) * m <= (b - 1) * m /\ (q + 1) * m \in Nat /\ (b - 1) * m \in Nat
    BY <2>1, ProductGrows
  <2>3. (q + 1) * m = m * q + m
    BY <1>1
  <2>4. m * q \in Nat
    BY <1>1
  <2> QED
    BY <1>1, <2>2, <2>3, <2>4
<1>3. q = b - 1 => r # 0
  <2> SUFFICES ASSUME q = b - 1, r = 0 PROVE FALSE
    OBVIOUS
  <2>1. n = m * q /\ m * q = q * m
    BY <1>1
  <2> QED
    BY <2>1
<1>4. q + (IF r # 0 THEN 1 ELSE 0) >= b
  BY <1>1, <1>2, <1>3
<1> QED
  BY <1>4 DEF q, r

\* A number of things, and the number of the blocks of m that hold them.
LEMMA RoundedUp ==
  ASSUME NEW n \in Nat, NEW m \in Nat \ {0}, NEW b, b = (n + m - 1) \div m
  PROVE  b \in Nat /\ b * m \in Nat /\ b * m >= n /\ (b - 1) * m < n
<1> DEFINE r == (n + m - 1) % m
<1>1. n + m - 1 \in Nat /\ b \in Nat /\ r \in 0 .. m - 1 /\ n + m - 1 = m * b + r
  <2>1. n + m - 1 \in Nat
    OBVIOUS
  <2>2. r \in 0 .. m - 1 /\ n + m - 1 = m * b + r /\ b \in Int
    BY <2>1
  <2>3. b \in Nat
    BY <2>1
  <2> QED
    BY <2>1, <2>2, <2>3
<1> HIDE DEF r
<1>2. m * b = b * m /\ b * m \in Nat /\ (b - 1) * m = b * m - m
  BY <1>1
<1> QED
  BY <1>1, <1>2
-----------------------------------------------------------------------------
(***************************************************************************)
(* The tree.                                                                *)
(***************************************************************************)
\* The numbers of the files and directories, and how many some of them are.
LEMMA TreeNumbers ==
  ASSUME TreeRight
  PROVE  /\ uroot \in {2, 3} /\ uroot \in Nat /\ uroot \notin nodes
         /\ Cardinality(nodes) \in Nat /\ InodeCount \in Nat
         /\ InodeCount = Cardinality(nodes) + uroot + 1
         /\ \A n \in nodes : n \in Nat /\ n > uroot /\ n < InodeCount
         /\ \A S \in SUBSET nodes :
              /\ IsFiniteSet(S) /\ Cardinality(S) \in Nat
              /\ Cardinality(S) = Cardinality(nodes) => S = nodes
<1>1. uroot \in {2, 3} /\ uroot \in Nat
  BY DEF TreeRight
<1>2. PICK count \in 0 .. MaxNodes : nodes = uroot + 1 .. uroot + count
  BY DEF TreeRight
<1>3. count \in Nat
  BY <1>2, MetadataAssumption
<1>4. IsFiniteSet(nodes) /\ Cardinality(nodes) = count
  BY <1>1, <1>2, <1>3, FS_Interval
<1>5. \A n \in nodes : n \in Nat /\ n > uroot /\ n < count + uroot + 1
  BY <1>1, <1>2, <1>3
<1>6. InodeCount = Cardinality(nodes) + uroot + 1
  BY DEF InodeCount
<1>7. ASSUME NEW S \in SUBSET nodes
      PROVE  /\ IsFiniteSet(S) /\ Cardinality(S) \in Nat
             /\ Cardinality(S) = Cardinality(nodes) => S = nodes
  BY <1>4, FS_Subset, FS_CardinalityType
<1> QED
  BY <1>1, <1>3, <1>4, <1>5, <1>6, <1>7

\* What is in a tree.
LEMMA TreeParts ==
  ASSUME TreeRight
  PROVE  /\ \A n \in nodes : /\ parent[n] \in Nat /\ parent[n] < n /\ parent[n] \in Directories
                             /\ kind[n] \in {FILE, DIR} /\ name[n] \in Names
         /\ odd \subseteq nodes
         /\ Directories \subseteq nodes \cup {uroot} /\ uroot \in Directories
         /\ \A d \in Directories : d # uroot => d \in nodes /\ kind[d] = DIR
<1>1. Directories \subseteq nodes \cup {uroot} /\ uroot \in Directories
  BY DEF Directories
<1>2. \A d \in Directories : d # uroot => d \in nodes /\ kind[d] = DIR
  BY DEF Directories
<1>3. \A n \in nodes : parent[n] < n /\ parent[n] \in Directories
  BY DEF TreeRight
<1>4. \A d \in Directories : d \in Nat
  BY <1>1, TreeNumbers
<1>5. \A n \in nodes : kind[n] \in {FILE, DIR} /\ name[n] \in Names
  BY DEF TreeRight
<1>6. odd \subseteq nodes
  BY DEF TreeRight
<1> QED
  BY <1>1, <1>2, <1>3, <1>4, <1>5, <1>6

\* A path is that of the directory above with one name more.
LEMMA TruePathIs ==
  ASSUME TreeRight, NEW n \in nodes
  PROVE  TruePath[n] = Append(PathOf(parent[n]), Sanitized[name[n]])
<1> DEFINE Longer(g, m) == Append(IF parent[m] = uroot THEN Root ELSE g[parent[m]], Sanitized[name[m]])
           Upto(g, k) == \A m \in nodes : m <= k => g[m] = Longer(g, m)
           S == {k \in 0 .. InodeCount : \E g : g = [m \in nodes |-> g[m]] /\ Upto(g, k)}
<1>1. /\ InodeCount \in Nat /\ uroot \in Nat
      /\ \A m \in nodes : m \in Nat /\ m > uroot /\ m < InodeCount
  BY TreeNumbers
<1>2. \A m \in nodes : parent[m] \in Nat /\ parent[m] < m /\ (parent[m] # uroot => parent[m] \in nodes)
  BY TreeParts
<1>3. 0 \in S
  <2> DEFINE g == [m \in nodes |-> Root]
  <2>1. g = [m \in nodes |-> g[m]]
    OBVIOUS
  <2>2. Upto(g, 0)
    BY <1>1
  <2> HIDE DEF g, Upto
  <2>3. \E f : f = [m \in nodes |-> f[m]] /\ Upto(f, 0)
    BY <2>1, <2>2
  <2>4. 0 \in 0 .. InodeCount
    BY <1>1
  <2> QED
    BY <2>3, <2>4
<1>4. ASSUME NEW k \in 1 .. InodeCount, k - 1 \in S
      PROVE  k \in S
  <2>1. PICK g : g = [m \in nodes |-> g[m]] /\ Upto(g, k - 1)
    BY <1>4
  <2> DEFINE h == [m \in nodes |-> IF m = k THEN Longer(g, m) ELSE g[m]]
  <2>2. \A m \in nodes : h[m] = IF m = k THEN Longer(g, m) ELSE g[m]
    OBVIOUS
  <2>3. h = [m \in nodes |-> h[m]]
    OBVIOUS
  <2> HIDE DEF h
  <2>4. ASSUME NEW m \in nodes, m <= k
        PROVE  h[m] = Longer(h, m)
    <3>1. Longer(h, m) = Longer(g, m)
      <4>1. parent[m] # uroot => h[parent[m]] = g[parent[m]]
        BY <1>1, <1>2, <2>2, <2>4
      <4> QED
        BY <4>1
    <3>2. CASE m = k
      BY <2>2, <3>1, <3>2
    <3>3. CASE m # k
      <4>1. m <= k - 1
        BY <1>1, <2>4, <3>3
      <4>2. g[m] = Longer(g, m)
        BY <2>1, <4>1
      <4> QED
        BY <2>2, <3>1, <3>3, <4>2
    <3> QED
      BY <3>2, <3>3
  <2>5. Upto(h, k)
    BY <2>4
  <2> HIDE DEF Upto
  <2>6. \E f : f = [m \in nodes |-> f[m]] /\ Upto(f, k)
    BY <2>3, <2>5
  <2>7. k \in 0 .. InodeCount
    BY <1>1
  <2> QED
    BY <2>6, <2>7
<1>5. InodeCount \in S
  <2> HIDE DEF S
  <2>1. \A k \in 0 .. InodeCount : k \in S
    BY <1>1, <1>3, <1>4, CountingUp
  <2> QED
    BY <1>1, <2>1
<1>6. PICK g : g = [m \in nodes |-> g[m]] /\ Upto(g, InodeCount)
  BY <1>5
<1> DEFINE Says(f) == f = [m \in nodes |-> Append(IF parent[m] = uroot THEN Root ELSE f[parent[m]],
                                                   Sanitized[name[m]])]
<1>7. Says(g)
  <2> DEFINE h == [m \in nodes |-> Longer(g, m)]
  <2>1. \A m \in nodes : g[m] = h[m]
    <3>1. \A m \in nodes : m <= InodeCount
      BY <1>1
    <3>2. \A m \in nodes : g[m] = Longer(g, m)
      BY <1>6, <3>1
    <3> HIDE DEF Longer
    <3> QED
      BY <3>2
  <2>2. h = [m \in nodes |-> h[m]]
    OBVIOUS
  <2> HIDE DEF h
  <2>3. g = h
    BY <1>6, <2>1, <2>2
  <2> QED
    BY <2>3 DEF h
<1>8. TruePath = CHOOSE f : Says(f)
  BY DEF TruePath
<1>9. Says(TruePath)
  <2> HIDE DEF Says
  <2> QED
    BY <1>7, <1>8
<1> QED
  BY <1>9 DEF PathOf
-----------------------------------------------------------------------------
(***************************************************************************)
(* The layout of the image.                                                 *)
(***************************************************************************)
EntrySet == [ino : Nat, type : Nat, name : Names \cup {".", ".."}]
ChildCount(d) == Cardinality(ChildrenOf(d))
UpEntry(d) == Entry(IF d = uroot THEN d ELSE parent[d], UP, "..")

\* A block holds two entries at least, and an entry has a size.
LEMMA TwoFit ==
  ASSUME TreeRight
  PROVE  /\ DirentsPerBlock \in Nat /\ DirentsPerBlock >= 2
         /\ entSize \in Nat \ {0} /\ DirentSize \in Nat /\ BlockSize \in Nat
<1>1. entSize \in EntrySizes
  BY DEF TreeRight
<1>2. /\ entSize \in Nat \ {0} /\ DirentSize \in Nat /\ BlockSize \in Nat
      /\ entSize <= DirentSize /\ entSize + DirentSize <= BlockSize
  BY <1>1, MetadataAssumption, LayoutAssumption
<1>3. PICK q \in Nat : q = DirentsPerBlock
  BY <1>2 DEF DirentsPerBlock
<1>4. PICK r \in Nat : r < entSize /\ BlockSize = entSize * q + r
  <2>1. PICK b \in Nat : b = BlockSize
    BY <1>2
  <2>2. PICK m \in Nat \ {0} : m = entSize
    BY <1>2
  <2>3. b % m \in 0 .. m - 1 /\ b = m * (b \div m) + (b % m)
    BY Division
  <2>4. b \div m = q
    BY <1>3, <2>1, <2>2 DEF DirentsPerBlock
  <2>5. PICK r \in 0 .. m - 1 : b = m * q + r
    BY <2>3, <2>4
  <2> QED
    BY <2>1, <2>2, <2>5
<1>5. q >= 2
  <2>1. CASE q = 0
    <3>1. entSize * q = 0
      BY <1>2, <2>1
    <3> QED
      BY <1>2, <1>4, <3>1
  <2>2. CASE q = 1
    <3>1. entSize * q = entSize
      BY <1>2, <2>2
    <3> QED
      BY <1>2, <1>4, <3>1
  <2> QED
    BY <1>3, <2>1, <2>2
<1> QED
  BY <1>2, <1>3, <1>5

\* The children of a directory are listed, each once.
LEMMA ChildrenListed ==
  ASSUME TreeRight, NEW d \in Directories
  PROVE  /\ ChildCount(d) \in Nat /\ Len(children[d]) = ChildCount(d)
         /\ DOMAIN children[d] = 1 .. ChildCount(d)
         /\ \A c \in 1 .. ChildCount(d) : children[d][c] \in nodes /\ parent[children[d][c]] = d
         /\ \A n \in nodes : parent[n] = d => \E c \in 1 .. ChildCount(d) : children[d][c] = n
         /\ \A c, e \in 1 .. ChildCount(d) : children[d][c] = children[d][e] => c = e
<1>1. ChildrenOf(d) \in SUBSET nodes /\ \A n \in ChildrenOf(d) : n \in nodes /\ parent[n] = d
  BY DEF ChildrenOf
<1>2. ChildCount(d) \in Nat
  BY <1>1, TreeNumbers DEF ChildCount
<1>3. children[d] \in [1 .. ChildCount(d) -> ChildrenOf(d)]
  BY DEF TreeRight, ChildCount
<1>4. DOMAIN children[d] = 1 .. ChildCount(d) /\ Len(children[d]) = ChildCount(d)
  BY <1>2, <1>3, ListLength
<1>5. \A n \in ChildrenOf(d) : \E c \in DOMAIN children[d] : children[d][c] = n
  BY DEF TreeRight
<1>6. \A c, e \in DOMAIN children[d] : children[d][c] = children[d][e] => c = e
  BY DEF TreeRight
<1>7. \A n \in nodes : parent[n] = d => n \in ChildrenOf(d)
  BY DEF ChildrenOf
<1> QED
  BY <1>1, <1>2, <1>3, <1>4, <1>5, <1>6, <1>7

\* The entries of a directory: ".", ".." and its children.
LEMMA EntriesAre ==
  ASSUME TreeRight, NEW d \in Directories
  PROVE  /\ EntriesOf(d) \in Seq(EntrySet) /\ Len(EntriesOf(d)) = ChildCount(d) + 2
         /\ EntriesOf(d)[1] = Entry(d, SELF, ".") /\ EntriesOf(d)[2] = UpEntry(d)
         /\ \A c \in 1 .. ChildCount(d) : EntriesOf(d)[c + 2] = EntryOf(children[d][c])
<1> DEFINE two == <<Entry(d, SELF, "."), UpEntry(d)>>
           rest == [c \in 1 .. Len(children[d]) |-> EntryOf(children[d][c])]
<1>1. ChildCount(d) \in Nat /\ Len(children[d]) = ChildCount(d)
  BY ChildrenListed
<1>2. \A c \in 1 .. ChildCount(d) : EntryOf(children[d][c]) \in EntrySet
  <2>1. \A n \in nodes : EntryOf(n) \in EntrySet
    BY TreeNumbers, TreeParts DEF EntryOf, EntrySet, Entry, FILE, DIR, ODD
  <2> QED
    BY <2>1, ChildrenListed
<1>3. rest \in [1 .. ChildCount(d) -> EntrySet] /\ DOMAIN rest = 1 .. ChildCount(d)
  BY <1>1, <1>2
<1>4. rest \in Seq(EntrySet) /\ Len(rest) = ChildCount(d)
  <2> HIDE DEF rest
  <2> QED
    BY <1>1, <1>3, ListLength
<1>5. d \in Nat /\ (d # uroot => parent[d] \in Nat)
  BY TreeNumbers, TreeParts
<1>6. Entry(d, SELF, ".") \in EntrySet /\ UpEntry(d) \in EntrySet
  BY <1>5, TreeNumbers DEF Entry, UpEntry, EntrySet, SELF, UP
<1>7. two \in Seq(EntrySet) /\ Len(two) = 2 /\ two[1] = Entry(d, SELF, ".") /\ two[2] = UpEntry(d)
  <2> HIDE DEF EntrySet
  <2> QED
    BY <1>6
<1>8. EntriesOf(d) = two \o rest
  BY DEF EntriesOf, UpEntry
<1>9. \A c \in 1 .. ChildCount(d) : rest[c] = EntryOf(children[d][c])
  BY <1>1
<1> HIDE DEF two, rest
<1>10. /\ two \o rest \in Seq(EntrySet) /\ Len(two \o rest) = ChildCount(d) + 2
       /\ (two \o rest)[1] = two[1] /\ (two \o rest)[2] = two[2]
       /\ \A c \in 1 .. ChildCount(d) : (two \o rest)[c + 2] = rest[c]
  <2> DEFINE n == ChildCount(d)
  <2>1. two \in Seq(EntrySet) /\ Len(two) = 2 /\ rest \in Seq(EntrySet) /\ n \in Nat /\ Len(rest) = n
    BY <1>1, <1>4, <1>7
  <2> HIDE DEF n, EntrySet
  <2>2. /\ two \o rest \in Seq(EntrySet) /\ Len(two \o rest) = n + 2
        /\ (two \o rest)[1] = two[1] /\ (two \o rest)[2] = two[2]
        /\ \A c \in 1 .. n : (two \o rest)[c + 2] = rest[c]
    BY <2>1, TwoBefore
  <2> QED
    BY <2>2 DEF n
<1> QED
  BY <1>7, <1>8, <1>9, <1>10

\* How many blocks a directory fills, and what is in them.
LEMMA PartsAre ==
  ASSUME TreeRight, NEW d \in Directories
  PROVE  /\ Parts(d) \in Nat \ {0} /\ Len(EntriesOf(d)) \in Nat
         /\ \A q \in 0 .. Parts(d) - 1 :
              /\ q * DirentsPerBlock \in Nat /\ q * DirentsPerBlock < Len(EntriesOf(d))
              /\ Len(Part(d, q)) = IF (q + 1) * DirentsPerBlock < Len(EntriesOf(d))
                                     THEN DirentsPerBlock
                                     ELSE Len(EntriesOf(d)) - q * DirentsPerBlock
              /\ \A m \in 1 .. Len(Part(d, q)) :
                   Part(d, q)[m] = EntriesOf(d)[q * DirentsPerBlock + m]
              /\ q < Parts(d) - 1 => (q + 1) * DirentsPerBlock < Len(EntriesOf(d))
              /\ q = Parts(d) - 1 => (q + 1) * DirentsPerBlock >= Len(EntriesOf(d))
<1> DEFINE E == EntriesOf(d)
           size == DirentsPerBlock
           last == Parts(d)
<1>1. size \in Nat /\ size \in Nat \ {0, 1} /\ size # 0
  BY TwoFit
<1>2. ChildCount(d) \in Nat /\ E \in Seq(EntrySet) /\ Len(E) = ChildCount(d) + 2 /\ Len(E) \in Nat
  BY ChildrenListed, EntriesAre
<1>3. last = (Len(E) + size - 1) \div size
  BY DEF Parts
<1> HIDE DEF E, size, last
<1>4. last \in Nat /\ last * size \in Nat /\ last * size >= Len(E) /\ (last - 1) * size < Len(E)
  BY <1>1, <1>2, <1>3, RoundedUp
<1>5. last # 0
  <2>1. 0 * size = 0
    BY <1>1
  <2> QED
    BY <1>2, <1>4, <2>1
<1>6. ASSUME NEW q \in 0 .. last - 1
      PROVE  /\ q * size \in Nat /\ q * size < Len(E)
             /\ (q + 1) * size = q * size + size
             /\ q < last - 1 => (q + 1) * size < Len(E)
             /\ q = last - 1 => (q + 1) * size >= Len(E)
  <2>1. q \in Nat /\ q + 1 \in Nat /\ last - 1 \in Nat /\ q <= last - 1
    BY <1>4, <1>5
  <2>2. q * size \in Nat /\ q * size <= (last - 1) * size /\ (last - 1) * size \in Nat
    BY <1>1, <2>1, ProductGrows
  <2>3. q < last - 1 => (q + 1) * size <= (last - 1) * size /\ (q + 1) * size \in Nat
    BY <1>1, <2>1, ProductGrows
  <2>4. q = last - 1 => (q + 1) * size >= Len(E)
    <3>1. q = last - 1 => q + 1 = last
      BY <1>4
    <3> QED
      BY <1>4, <3>1
  <2>5. (q + 1) * size = q * size + size
    BY <1>1, <2>1
  <2> QED
    BY <1>2, <1>4, <2>2, <2>3, <2>4, <2>5
<1>7. ASSUME NEW q \in 0 .. last - 1
      PROVE  /\ Len(Part(d, q)) = IF (q + 1) * size < Len(E) THEN size ELSE Len(E) - q * size
             /\ \A m \in 1 .. Len(Part(d, q)) : Part(d, q)[m] = E[q * size + m]
  <2> DEFINE from == q * size
             to == IF (q + 1) * size < Len(E) THEN (q + 1) * size ELSE Len(E)
  <2>1. from \in Nat /\ from < Len(E) /\ (q + 1) * size = from + size
    BY <1>6
  <2>2. to \in Nat /\ from + 1 <= to /\ to <= Len(E)
    BY <1>1, <1>2, <2>1
  <2>3. Part(d, q) = SubSeq(E, from + 1, to)
    BY DEF Part, E, size
  <2>4. to - from = IF (q + 1) * size < Len(E) THEN size ELSE Len(E) - from
    BY <1>1, <1>2, <2>1
  <2> HIDE DEF from, to
  <2>5. Len(SubSeq(E, from + 1, to)) = to - from
    BY <1>2, <2>1, <2>2
  <2>6. \A m \in 1 .. to - from : SubSeq(E, from + 1, to)[m] = E[from + m]
    BY <1>2, <2>1, <2>2
  <2>7. Len(Part(d, q)) = to - from /\ \A m \in 1 .. Len(Part(d, q)) : Part(d, q)[m] = E[from + m]
    BY <2>3, <2>5, <2>6
  <2> QED
    BY <2>4, <2>7 DEF from
<1> QED
  BY <1>2, <1>4, <1>5, <1>6, <1>7 DEF E, size, last
\* The blocks of the inodes.
LEMMA LayoutNumbers ==
  ASSUME TreeRight
  PROVE  /\ PerBlock \in Nat \ {0}
         /\ BlocksOf(InodeCount) \in Nat \ {0}
         /\ PerBlock * BlocksOf(InodeCount) >= InodeCount
         /\ OccupiedBlocks(InodeCount) \in Nat
         /\ Superroot \in Nat /\ Superroot = BlocksOf(InodeCount) + 2
<1>1. BlockSize \in Nat /\ InodeSize \in Nat \ {0} /\ InodeSize <= BlockSize
  BY LayoutAssumption
<1>2. BlockSize # 0 /\ BlockSize \in Nat \ {0}
  BY <1>1
<1>3. PerBlock \in Nat \ {0}
  <2>1. BlockSize \div InodeSize \in Nat /\ BlockSize \div InodeSize # 0
    BY <1>1
  <2> QED
    BY <2>1 DEF PerBlock
<1>4. InodeCount \in Nat /\ InodeCount > 0
  BY TreeNumbers
<1> DEFINE b == BlocksOf(InodeCount)
<1>5. b = (InodeCount + PerBlock - 1) \div PerBlock
  BY DEF BlocksOf
<1>6. b \in Nat /\ b * PerBlock \in Nat /\ b * PerBlock >= InodeCount
  <2> HIDE DEF b
  <2> QED
    BY <1>3, <1>4, <1>5, RoundedUp
<1>7. b # 0 /\ PerBlock * b = b * PerBlock
  <2> HIDE DEF b
  <2>1. b = 0 => b * PerBlock = 0
    BY <1>3
  <2>2. PerBlock * b = b * PerBlock
    BY <1>3, <1>6
  <2> QED
    BY <1>4, <1>6, <2>1, <2>2
<1>8. OccupiedBlocks(InodeCount) \in Nat
  <2>1. InodeCount * InodeSize \in Nat
    BY <1>1, <1>4
  <2> DEFINE m == InodeCount * InodeSize
  <2>2. m \div BlockSize \in Nat
    <3> HIDE DEF m
    <3> QED
      BY <1>2, <2>1 DEF m
  <2> QED
    BY <2>2 DEF OccupiedBlocks
<1>9. Superroot = b + 2
  BY DEF Superroot
<1> QED
  BY <1>3, <1>6, <1>7, <1>8, <1>9

\* The directories follow each other.
LEMMA DirsAre ==
  ASSUME TreeRight
  PROVE  /\ Len(dirs) \in Nat /\ Len(dirs) >= 1 /\ DOMAIN dirs = 1 .. Len(dirs)
         /\ dirs[1] = uroot /\ \A k \in 1 .. Len(dirs) : dirs[k] \in Directories
         /\ \A d \in Directories : \E k \in 1 .. Len(dirs) : dirs[k] = d
         /\ \A k, l \in 1 .. Len(dirs) : dirs[k] = dirs[l] => k = l
         /\ \A k, l \in 1 .. Len(dirs) : k > 1 /\ parent[dirs[k]] = dirs[l] => l < k
<1>1. dirs \in Seq(Directories) /\ Len(dirs) >= 1 /\ dirs[1] = uroot
  BY DEF TreeRight
<1>2. Len(dirs) \in Nat /\ DOMAIN dirs = 1 .. Len(dirs) /\ \A k \in 1 .. Len(dirs) : dirs[k] \in Directories
  BY <1>1
<1>3. \A d \in Directories : \E k \in DOMAIN dirs : dirs[k] = d
  BY DEF TreeRight
<1>4. \A k, l \in DOMAIN dirs : /\ dirs[k] = dirs[l] => k = l
                                /\ k > 1 => (parent[dirs[k]] = dirs[l] => l < k)
  BY DEF TreeRight
<1> QED
  BY <1>1, <1>2, <1>3, <1>4

\* Their blocks do as well.
LEMMA FirstBlockIs ==
  ASSUME TreeRight
  PROVE  /\ FirstBlock[1] = Superroot + 2
         /\ \A k \in 1 .. Len(dirs) + 1 : FirstBlock[k] \in Nat
         /\ \A k \in 1 .. Len(dirs) : FirstBlock[k + 1] = FirstBlock[k] + Parts(dirs[k])
<1> DEFINE n == Len(dirs) + 1
           Next1(g, m) == IF m = 1 THEN Superroot + 2 ELSE g[m - 1] + Parts(dirs[m - 1])
           Upto(g, k) == \A m \in 1 .. n : m <= k => g[m] = Next1(g, m)
           S == {k \in 0 .. n : \E g \in [1 .. n -> Nat] : Upto(g, k)}
<1>1. n \in Nat /\ Len(dirs) \in Nat /\ n = Len(dirs) + 1 /\ n >= 2
  BY DirsAre
<1>2. Superroot + 2 \in Nat
  BY LayoutNumbers
<1>3. \A m \in 2 .. n : Parts(dirs[m - 1]) \in Nat
  <2>1. \A m \in 2 .. n : dirs[m - 1] \in Directories
    BY <1>1, DirsAre
  <2> QED
    BY <2>1, PartsAre
<1> HIDE DEF n
<1>4. ASSUME NEW g \in [1 .. n -> Nat], NEW m \in 1 .. n
      PROVE  Next1(g, m) \in Nat
  <2>1. CASE m = 1
    BY <1>2, <2>1
  <2>2. CASE m # 1
    <3>1. m \in 2 .. n /\ m - 1 \in 1 .. n
      BY <1>1, <2>2
    <3>2. g[m - 1] \in Nat /\ Parts(dirs[m - 1]) \in Nat
      BY <1>3, <3>1
    <3> QED
      BY <2>2, <3>2
  <2> QED
    BY <2>1, <2>2
<1>5. 0 \in S
  <2> DEFINE g == [m \in 1 .. n |-> 0]
  <2>1. g \in [1 .. n -> Nat] /\ Upto(g, 0)
    BY <1>1
  <2>2. 0 \in 0 .. n
    BY <1>1
  <2> HIDE DEF g, Upto
  <2> QED
    BY <2>1, <2>2
<1>6. ASSUME NEW k \in 1 .. n, k - 1 \in S
      PROVE  k \in S
  <2>1. PICK g \in [1 .. n -> Nat] : Upto(g, k - 1)
    BY <1>6
  <2> DEFINE h == [m \in 1 .. n |-> IF m = k THEN Next1(g, m) ELSE g[m]]
  <2>2. h \in [1 .. n -> Nat]
    <3>1. \A m \in 1 .. n : Next1(g, m) \in Nat
      BY <1>4
    <3> HIDE DEF Next1
    <3> QED
      BY <3>1
  <2>3. \A m \in 1 .. n : h[m] = IF m = k THEN Next1(g, m) ELSE g[m]
    OBVIOUS
  <2> HIDE DEF h
  <2>4. ASSUME NEW m \in 1 .. n, m <= k
        PROVE  h[m] = Next1(h, m)
    <3>1. Next1(h, m) = Next1(g, m)
      <4>1. CASE m = 1
        BY <4>1
      <4>2. CASE m # 1
        <5>1. m - 1 \in 1 .. n /\ m - 1 # k
          BY <1>1, <2>4, <4>2
        <5>2. h[m - 1] = g[m - 1]
          BY <2>3, <5>1
        <5> QED
          BY <5>2
      <4> QED
        BY <4>1, <4>2
    <3>2. m = k \/ m <= k - 1
      BY <1>1, <2>4
    <3>3. m <= k - 1 => m # k /\ g[m] = Next1(g, m)
      <4>1. m <= k - 1 => m # k
        BY <1>1
      <4>2. m <= k - 1 => g[m] = Next1(g, m)
        BY <2>1
      <4> QED
        BY <4>1, <4>2
    <3> HIDE DEF Next1
    <3> QED
      BY <2>3, <3>1, <3>2, <3>3
  <2>5. Upto(h, k)
    BY <2>4
  <2>6. k \in 0 .. n
    BY <1>1
  <2> HIDE DEF Upto
  <2> QED
    BY <2>2, <2>5, <2>6
<1>7. n \in S
  <2> HIDE DEF S
  <2>1. \A k \in 0 .. n : k \in S
    BY <1>1, <1>5, <1>6, CountingUp
  <2> QED
    BY <1>1, <2>1
<1>8. PICK g \in [1 .. n -> Nat] : Upto(g, n)
  BY <1>7
<1> DEFINE Says(f) == f = [k \in 1 .. Len(dirs) + 1 |->
                              IF k = 1 THEN Superroot + 2 ELSE f[k - 1] + Parts(dirs[k - 1])]
<1>9. Says(g)
  <2> DEFINE h == [m \in 1 .. n |-> Next1(g, m)]
  <2>1. \A m \in 1 .. n : g[m] = Next1(g, m)
    <3>1. \A m \in 1 .. n : m <= n
      BY <1>1
    <3> HIDE DEF Next1
    <3> QED
      BY <1>8, <3>1
  <2>2. g = h
    <3> HIDE DEF Next1
    <3>1. DOMAIN h = 1 .. n /\ \A m \in 1 .. n : h[m] = Next1(g, m)
      OBVIOUS
    <3>2. h = [m \in 1 .. n |-> h[m]] /\ g = [m \in 1 .. n |-> g[m]]
      OBVIOUS
    <3> HIDE DEF h
    <3> QED
      BY <2>1, <3>1, <3>2
  <2> QED
    BY <2>2 DEF n
<1>10. FirstBlock = CHOOSE f : Says(f)
  BY DEF FirstBlock
<1>11. Says(FirstBlock)
  <2> HIDE DEF Says
  <2> QED
    BY <1>9, <1>10
<1>12. \A m \in 1 .. n : FirstBlock[m] = Next1(FirstBlock, m)
  BY <1>11 DEF n
<1>13. FirstBlock[1] = Superroot + 2
  BY <1>1, <1>12
<1>14. ASSUME NEW k \in 1 .. Len(dirs)
       PROVE  FirstBlock[k + 1] = FirstBlock[k] + Parts(dirs[k])
  <2>1. k + 1 \in 1 .. n /\ k + 1 # 1 /\ k + 1 - 1 = k
    BY <1>1
  <2> QED
    BY <1>12, <2>1
<1>15. ASSUME NEW k \in 1 .. n PROVE FirstBlock[k] \in Nat
  <2> DEFINE T == {b \in 0 .. n : b >= 1 => FirstBlock[b] \in Nat}
  <2>1. 0 \in T
    BY <1>1
  <2>2. ASSUME NEW b \in 1 .. n, b - 1 \in T PROVE b \in T
    <3>1. CASE b = 1
      BY <1>1, <1>2, <1>13, <3>1
    <3>2. CASE b # 1
      <4>1. b \in 2 .. n /\ b - 1 >= 1 /\ b - 1 \in 1 .. Len(dirs) /\ b \in 0 .. n /\ b - 1 + 1 = b
        BY <1>1, <3>2
      <4>2. FirstBlock[b - 1] \in Nat /\ Parts(dirs[b - 1]) \in Nat
        BY <1>3, <2>2, <4>1
      <4>3. FirstBlock[b - 1 + 1] = FirstBlock[b - 1] + Parts(dirs[b - 1])
        BY <1>14, <4>1
      <4>4. FirstBlock[b] \in Nat
        BY <4>1, <4>2, <4>3
      <4> QED
        BY <4>1, <4>4
    <3> QED
      BY <3>1, <3>2
  <2>3. \A b \in 0 .. n : b \in T
    <3> HIDE DEF T
    <3> QED
      BY <1>1, <2>1, <2>2, CountingUp
  <2>4. k \in 0 .. n /\ k >= 1
    BY <1>1
  <2>5. k \in T
    BY <2>3, <2>4
  <2> QED
    BY <2>4, <2>5
<1> QED
  BY <1>13, <1>14, <1>15 DEF n
\* A later directory begins in a later block.
LEMMA FirstBlockGrows ==
  ASSUME TreeRight, NEW k \in 1 .. Len(dirs) + 1, NEW l \in 1 .. Len(dirs) + 1, k < l
  PROVE  FirstBlock[k] < FirstBlock[l]
<1> DEFINE n == Len(dirs) + 1
           T == {b \in 0 .. n : k < b => FirstBlock[k] < FirstBlock[b]}
<1>1. Len(dirs) \in Nat /\ n \in Nat /\ k \in 1 .. n /\ l \in 0 .. n
  BY DirsAre
<1>2. 0 \in T
  BY <1>1
<1>3. ASSUME NEW b \in 1 .. n, b - 1 \in T PROVE b \in T
  <2>1. CASE ~(k < b)
    BY <1>1, <2>1
  <2>2. CASE k < b
    <3>1. b - 1 \in 1 .. Len(dirs) /\ b - 1 + 1 = b /\ b - 1 \in 1 .. Len(dirs) + 1 /\ b \in 0 .. n
          /\ b \in 1 .. Len(dirs) + 1
      BY <1>1, <2>2
    <3>2. dirs[b - 1] \in Directories
      BY <3>1, DirsAre
    <3>3. Parts(dirs[b - 1]) \in Nat \ {0}
      BY <3>2, PartsAre
    <3>4. /\ FirstBlock[b - 1 + 1] = FirstBlock[b - 1] + Parts(dirs[b - 1])
          /\ FirstBlock[b - 1] \in Nat /\ FirstBlock[k] \in Nat
      BY <3>1, FirstBlockIs
    <3>5. FirstBlock[b] > FirstBlock[b - 1] /\ FirstBlock[b] \in Nat
      BY <3>1, <3>3, <3>4
    <3>6. k = b - 1 \/ k < b - 1
      BY <1>1, <2>2
    <3>7. FirstBlock[k] < FirstBlock[b]
      BY <1>3, <3>4, <3>5, <3>6
    <3> QED
      BY <3>1, <3>7
  <2> QED
    BY <2>1, <2>2
<1>4. \A b \in 0 .. n : b \in T
  <2> HIDE DEF T
  <2> QED
    BY <1>1, <1>2, <1>3, CountingUp
<1>5. l \in T
  BY <1>1, <1>4
<1> QED
  BY <1>5

\* A block lies in one directory.
LEMMA OneDirectory ==
  ASSUME TreeRight, NEW k \in 1 .. Len(dirs), NEW l \in 1 .. Len(dirs), NEW b \in Nat,
         FirstBlock[k] <= b, b < FirstBlock[k + 1], FirstBlock[l] <= b, b < FirstBlock[l + 1]
  PROVE  k = l
<1>1. Len(dirs) \in Nat /\ k + 1 \in 1 .. Len(dirs) + 1 /\ l + 1 \in 1 .. Len(dirs) + 1
      /\ k \in 1 .. Len(dirs) + 1 /\ l \in 1 .. Len(dirs) + 1
  BY DirsAre
<1>2. \A m \in 1 .. Len(dirs) + 1 : FirstBlock[m] \in Nat
  BY FirstBlockIs
<1>3. CASE k < l
  <2>1. k + 1 = l \/ k + 1 < l
    BY <1>1, <1>3
  <2>2. FirstBlock[k + 1] <= FirstBlock[l]
    BY <1>1, <1>2, <2>1, FirstBlockGrows
  <2> QED
    BY <1>1, <1>2, <2>2
<1>4. CASE l < k
  <2>1. l + 1 = k \/ l + 1 < k
    BY <1>1, <1>4
  <2>2. FirstBlock[l + 1] <= FirstBlock[k]
    BY <1>1, <1>2, <2>1, FirstBlockGrows
  <2> QED
    BY <1>1, <1>2, <2>2
<1> QED
  BY <1>1, <1>3, <1>4

\* The blocks of the image.
LEMMA BlocksAre ==
  ASSUME TreeRight
  PROVE  /\ LastBlock = FirstBlock[Len(dirs) + 1] - 1 /\ LastBlock \in Nat
         /\ FirstBlock[1] = Superroot + 2 /\ FirstBlock[1] <= LastBlock
         /\ Len(blocks) = LastBlock + (IF HasFiles THEN 1 ELSE 0)
         /\ \A b \in 1 .. FirstBlock[1] - 1 :
              /\ blocks[b].kind = "superroot" <=> b = Superroot
              /\ ~(Len(blocks[b].entries) >= 2)
         /\ \A k \in 1 .. Len(dirs) : \A b \in Nat :
              FirstBlock[k] <= b /\ b < FirstBlock[k + 1] =>
                /\ blocks[b].kind # "superroot"
                /\ blocks[b].entries = Part(dirs[k], b - FirstBlock[k])
<1> DEFINE n == LastBlock + (IF HasFiles THEN 1 ELSE 0)
           D == Len(dirs)
<1>1. D \in Nat /\ D >= 1 /\ 1 \in 1 .. D + 1 /\ D + 1 \in 1 .. D + 1
  BY DirsAre
<1>2. Superroot \in Nat /\ Superroot >= 3
  BY LayoutNumbers
<1>3. FirstBlock[1] = Superroot + 2 /\ \A m \in 1 .. D + 1 : FirstBlock[m] \in Nat
  BY FirstBlockIs
<1>4. FirstBlock[1] < FirstBlock[D + 1]
  BY <1>1, FirstBlockGrows
<1>5. LastBlock = FirstBlock[D + 1] - 1
  BY DEF LastBlock
<1>6. LastBlock \in Nat /\ FirstBlock[1] <= LastBlock
  BY <1>1, <1>2, <1>3, <1>4, <1>5
<1>7. n \in Nat /\ n >= LastBlock
  BY <1>6
<1>8. blocks = Image
  BY DEF TreeRight
<1>9. DOMAIN blocks = 1 .. n
  BY <1>8 DEF Image
<1>10. Len(blocks) = n
  <2> HIDE DEF n
  <2> DEFINE T == {blocks[b] : b \in 1 .. n}
  <2>1. blocks \in [1 .. n -> T]
    <3>1. blocks = [b \in 1 .. n |-> blocks[b]]
      BY <1>8, <1>9 DEF Image
    <3> QED
      BY <3>1
  <2> HIDE DEF T
  <2> QED
    BY <1>7, <1>9, <2>1, ListLength
<1>11. ASSUME NEW b \in 1 .. n
       PROVE  /\ b = 1 => blocks[b] = Block("header", <<>>)
              /\ b \in 2 .. Superroot - 1 => blocks[b] = Block("inodes", <<>>)
              /\ b = Superroot => blocks[b] = Block("superroot", <<>>)
              /\ b \in FirstBlock[1] .. LastBlock =>
                   blocks[b] = Block("entries",
                     LET k == CHOOSE k \in 1 .. D : b \in FirstBlock[k] .. FirstBlock[k + 1] - 1
                     IN Part(dirs[k], b - FirstBlock[k]))
              /\ b = Superroot + 1 => blocks[b] = Content
  <2> DEFINE inside == b \in FirstBlock[1] .. LastBlock
             it == LET k == CHOOSE k \in 1 .. Len(dirs) : b \in FirstBlock[k] .. FirstBlock[k + 1] - 1
                   IN Block("entries", Part(dirs[k], b - FirstBlock[k]))
  <2>1. blocks[b] = CASE b = 1 -> Block("header", <<>>)
                      [] b \in 2 .. Superroot - 1 -> Block("inodes", <<>>)
                      [] b = Superroot -> Block("superroot", <<>>)
                      [] inside -> it
                      [] OTHER -> Content
    BY <1>8 DEF Image
  <2>2. /\ inside => b # 1 /\ b \notin 2 .. Superroot - 1 /\ b # Superroot
        /\ b = Superroot + 1 => ~inside /\ b # 1 /\ b \notin 2 .. Superroot - 1 /\ b # Superroot
        /\ b = Superroot => b # 1 /\ b \notin 2 .. Superroot - 1
        /\ b \in 2 .. Superroot - 1 => b # 1
    BY <1>2, <1>3, <1>6
  <2>3. it = Block("entries",
                     LET k == CHOOSE k \in 1 .. D : b \in FirstBlock[k] .. FirstBlock[k + 1] - 1
                     IN Part(dirs[k], b - FirstBlock[k]))
    OBVIOUS
  <2> HIDE DEF inside, it
  <2>4. inside => blocks[b] = it
    BY <2>1, <2>2
  <2>5. b = Superroot + 1 => blocks[b] = Content
    BY <2>1, <2>2
  <2>6. b = 1 => blocks[b] = Block("header", <<>>)
    BY <2>1, <2>2, <1>2
  <2>7. b \in 2 .. Superroot - 1 => blocks[b] = Block("inodes", <<>>)
    BY <2>1, <2>2, <1>2
  <2>8. b = Superroot => blocks[b] = Block("superroot", <<>>)
    BY <2>1, <2>2, <1>2
  <2> QED
    BY <2>3, <2>4, <2>5, <2>6, <2>7, <2>8 DEF inside
<1>12. ASSUME NEW b \in 1 .. FirstBlock[1] - 1
       PROVE  /\ blocks[b].kind = "superroot" <=> b = Superroot
              /\ ~(Len(blocks[b].entries) >= 2)
  <2>1. b \in 1 .. n
    BY <1>3, <1>6, <1>7, <1>1
  <2>2. b = 1 \/ b \in 2 .. Superroot - 1 \/ b = Superroot \/ b = Superroot + 1
    BY <1>2, <1>3
  <2>3. CASE b = 1
    <3>1. blocks[b] = Block("header", <<>>)
      BY <1>11, <2>1, <2>3
    <3> QED
      BY <3>1, <2>3, <1>2 DEF Block
  <2>4. CASE b \in 2 .. Superroot - 1
    <3>1. blocks[b] = Block("inodes", <<>>)
      BY <1>11, <2>1, <2>4
    <3> QED
      BY <3>1, <2>4, <1>2 DEF Block
  <2>5. CASE b = Superroot
    <3>1. blocks[b] = Block("superroot", <<>>)
      BY <1>11, <2>1, <2>5
    <3> QED
      BY <3>1, <2>5 DEF Block
  <2>6. CASE b = Superroot + 1
    <3>1. blocks[b] = Content
      BY <1>11, <2>1, <2>6
    <3>2. Content.kind = "content" /\ Len(Content.entries) = 1
      BY DEF Content
    <3> QED
      BY <3>1, <3>2, <2>6, <1>2
  <2> QED
    BY <2>2, <2>3, <2>4, <2>5, <2>6
<1>13. ASSUME NEW k \in 1 .. D, NEW b \in Nat, FirstBlock[k] <= b, b < FirstBlock[k + 1]
       PROVE  /\ blocks[b].kind # "superroot"
              /\ blocks[b].entries = Part(dirs[k], b - FirstBlock[k])
  <2>1. /\ k = 1 \/ 1 < k
        /\ k + 1 = D + 1 \/ k + 1 < D + 1
        /\ k \in 1 .. D + 1 /\ k + 1 \in 1 .. D + 1
    BY <1>1
  <2>2. FirstBlock[1] <= FirstBlock[k] /\ FirstBlock[k + 1] <= FirstBlock[D + 1]
    <3>1. FirstBlock[1] = FirstBlock[k] \/ FirstBlock[1] < FirstBlock[k]
      BY <1>1, <2>1, FirstBlockGrows
    <3>2. FirstBlock[k + 1] = FirstBlock[D + 1] \/ FirstBlock[k + 1] < FirstBlock[D + 1]
      BY <1>1, <2>1, FirstBlockGrows
    <3> QED
      BY <1>1, <1>3, <2>1, <3>1, <3>2
  <2>3. FirstBlock[k] \in Nat /\ FirstBlock[k + 1] \in Nat /\ FirstBlock[D + 1] \in Nat /\ FirstBlock[1] \in Nat
    BY <1>1, <1>3, <2>1
  <2>4. b \in FirstBlock[1] .. LastBlock /\ b \in 1 .. n
    <3> HIDE DEF n
    <3>1. FirstBlock[1] <= b /\ b < FirstBlock[D + 1]
      BY <1>13, <2>2, <2>3
    <3>2. b <= LastBlock
      BY <1>5, <2>3, <3>1
    <3>3. 1 <= FirstBlock[1]
      BY <1>2, <1>3
    <3> QED
      BY <1>6, <1>7, <2>3, <3>1, <3>2, <3>3
  <2> DEFINE l == CHOOSE l \in 1 .. D : b \in FirstBlock[l] .. FirstBlock[l + 1] - 1
  <2>5. b \in FirstBlock[k] .. FirstBlock[k + 1] - 1
    BY <1>13, <2>3
  <2>6. l \in 1 .. D /\ b \in FirstBlock[l] .. FirstBlock[l + 1] - 1
    BY <2>5
  <2> HIDE DEF l
  <2>7. l \in 1 .. D + 1 /\ l + 1 \in 1 .. D + 1
    BY <1>1, <2>6
  <2>8. FirstBlock[l] <= b /\ b < FirstBlock[l + 1]
    <3>1. FirstBlock[l] \in Nat /\ FirstBlock[l + 1] \in Nat
      BY <1>3, <2>7
    <3> QED
      BY <2>6, <3>1
  <2>9. k = l
    BY <1>13, <2>6, <2>8, OneDirectory
  <2>10. blocks[b] = Block("entries", Part(dirs[l], b - FirstBlock[l]))
    BY <1>11, <2>4 DEF l
  <2> QED
    BY <2>9, <2>10 DEF Block
<1> QED
  BY <1>3, <1>5, <1>6, <1>10, <1>12, <1>13
-----------------------------------------------------------------------------
(***************************************************************************)
(* Places in the image.                                                     *)
(***************************************************************************)
\* What the walk never changes, and what depends on nothing else.
LEMMA ImageKept ==
  ASSUME UNCHANGED image
  PROVE  /\ UNCHANGED <<uroot, nodes, kind, name, parent, odd, children, dirs, entSize, blocks>>
         /\ TruePath' = TruePath /\ FirstBlock' = FirstBlock
         /\ InodeCount' = InodeCount /\ Superroot' = Superroot
         /\ (HasFiles' <=> HasFiles) /\ (TreeRight' <=> TreeRight)
         /\ (ImageRead' <=> ImageRead)
         /\ \A k, p : Seen(k, p)' = Seen(k, p)
         /\ \A b, k, p : Before(b, k, p)' <=> Before(b, k, p)
         /\ \A d : PathOf(d)' = PathOf(d)
<1>1. UNCHANGED <<uroot, nodes, kind, name, parent, odd, children, dirs, entSize, blocks>>
  BY DEF image
<1>2. TruePath' = TruePath
  BY <1>1 DEF TruePath
<1>3. InodeCount' = InodeCount
  BY <1>1 DEF InodeCount
<1>4. Superroot' = Superroot
  BY <1>3 DEF Superroot, BlocksOf
<1>5. \A d : Parts(d)' = Parts(d)
  BY <1>1 DEF Parts, EntriesOf, EntryOf, Entry, DirentsPerBlock
<1>6. FirstBlock' = FirstBlock
  BY <1>1, <1>4, <1>5 DEF FirstBlock
<1>7. HasFiles' <=> HasFiles
  BY <1>1 DEF HasFiles
<1>8. Image' = Image
  <2>1. \A d, q : Part(d, q)' = Part(d, q)
    BY <1>1 DEF Part, EntriesOf, EntryOf, Entry, DirentsPerBlock
  <2>2. LastBlock' = LastBlock
    BY <1>1, <1>6 DEF LastBlock
  <2>3. Content' = Content
    BY DEF Content, Entry
  <2> QED
    BY <1>1, <1>4, <1>6, <1>7, <2>1, <2>2, <2>3 DEF Image, Block
<1>9. TreeRight' <=> TreeRight
  BY <1>1, <1>8 DEF TreeRight, Directories, ChildrenOf
<1>10. ImageRead' <=> ImageRead
  <2>1. \A d, q : Part(d, q)' = Part(d, q)
    BY <1>1 DEF Part, EntriesOf, EntryOf, Entry, DirentsPerBlock
  <2>2. InodesAllRead' <=> InodesAllRead
    BY <1>1, <1>3 DEF InodesAllRead
  <2>3. NoneSkipped' <=> NoneSkipped
    BY <1>1, <1>5, <2>1 DEF NoneSkipped, InTime, Directories
  <2> QED
    BY <2>2, <2>3 DEF ImageRead
<1>11. \A k, p : Seen(k, p)' = Seen(k, p)
  BY <1>1 DEF Seen
<1>12. \A b, k, p : Before(b, k, p)' <=> Before(b, k, p)
  BY <1>1, <1>6 DEF Before, DirentsPerBlock
<1>13. \A d : PathOf(d)' = PathOf(d)
  BY <1>1, <1>2 DEF PathOf
<1> QED
  BY <1>1, <1>2, <1>3, <1>4, <1>6, <1>7, <1>9, <1>10, <1>11, <1>12, <1>13
\* The numbers that make a place, put together.
LEMMA BeforeIs ==
  ASSUME NEW b, NEW k \in 1 .. Len(dirs) + 1, NEW p, FirstBlock[k] <= b,
         p = (b - FirstBlock[k]) * DirentsPerBlock,
         IF k <= Len(dirs) THEN b < FirstBlock[k + 1] ELSE b = FirstBlock[k]
  PROVE  Before(b, k, p)
BY DEF Before

\* The entries of a block, and the place behind it.
BlockIs(b, k, p, here) ==
  /\ p \in Nat /\ dirs[k] \in Directories
  /\ Len(here) \in Nat /\ Len(here) >= 1
  /\ p = 0 => Len(here) >= 2
  /\ \A m \in 1 .. Len(here) : /\ here[m] = EntriesOf(dirs[k])[p + m]
                               /\ p + m <= ChildCount(dirs[k]) + 2
  /\ b = FirstBlock[k] => p = 0
  /\ \/ Before(b + 1, k, p + Len(here))
     \/ /\ p + Len(here) = ChildCount(dirs[k]) + 2
        /\ \E z \in Nat : z = 0 /\ Before(b + 1, k + 1, z)

\* The block at a place holds the entries of its directory from there on.
LEMMA AtPlace ==
  ASSUME TreeRight, NEW k \in 1 .. Len(dirs), NEW b \in Nat, NEW p, Before(b, k, p),
         NEW here, here = blocks[b].entries
  PROVE  BlockIs(b, k, p, here)
<1> DEFINE d == dirs[k]
           f == FirstBlock[k]
           g == FirstBlock[k + 1]
           q == b - f
           all == Len(EntriesOf(d))
           some == Len(here)
           size == DirentsPerBlock
<1>1. Len(dirs) \in Nat /\ d \in Directories /\ k \in 1 .. Len(dirs) + 1 /\ k + 1 \in 1 .. Len(dirs) + 1
  BY DirsAre
<1>2. f \in Nat /\ g \in Nat /\ g = f + Parts(d)
  BY <1>1, FirstBlockIs
<1>3. f <= b /\ p = q * size /\ b < g
  BY <1>1 DEF Before
<1>4. Parts(d) \in Nat \ {0} /\ all \in Nat
  BY <1>1, PartsAre
<1>5. q \in 0 .. Parts(d) - 1
  BY <1>2, <1>3, <1>4
<1>6. here = Part(d, q)
  BY <1>3, BlocksAre
<1>7. /\ p \in Nat /\ p < all
      /\ some = IF (q + 1) * size < all THEN size ELSE all - p
      /\ \A m \in 1 .. some : here[m] = EntriesOf(d)[p + m]
      /\ q < Parts(d) - 1 => (q + 1) * size < all
      /\ q = Parts(d) - 1 => (q + 1) * size >= all
  BY <1>1, <1>3, <1>5, <1>6, PartsAre
<1>8. size \in Nat /\ size >= 2
  BY TwoFit
<1>9. all = ChildCount(d) + 2 /\ ChildCount(d) \in Nat
  BY <1>1, EntriesAre, ChildrenListed
<1>10. (q + 1) * size = p + size
  <2>1. q \in Nat
    BY <1>4, <1>5
  <2> HIDE DEF q, size
  <2> QED
    BY <1>3, <1>8, <2>1
<1>11. b = f => p = 0
  <2>1. b = f => q = 0
    BY <1>2
  <2>2. 0 * size = 0
    BY <1>8
  <2> QED
    BY <1>3, <2>1, <2>2
<1> HIDE DEF d, f, g, q, all, some, size
<1>12. some \in Nat /\ some >= 1 /\ (p = 0 => some >= 2) /\ p + some <= all
  BY <1>4, <1>7, <1>8, <1>9, <1>10
<1>13. \A m \in 1 .. some : here[m] = EntriesOf(d)[p + m] /\ p + m <= ChildCount(d) + 2
  BY <1>7, <1>9, <1>12
<1>14. CASE b + 1 < g
  <2>1. q < Parts(d) - 1
    BY <1>2, <1>4, <1>14 DEF q
  <2>2. some = size
    BY <1>7, <2>1
  <2> DEFINE c == b + 1
             r == p + some
  <2>3. r = (q + 1) * size /\ q + 1 = c - f /\ f <= c /\ c < g
    BY <1>2, <1>3, <1>10, <1>14, <2>2 DEF q
  <2>4. k <= Len(dirs)
    BY <1>1
  <2>5. c = b + 1 /\ r = p + some
    OBVIOUS
  <2> HIDE DEF c, r
  <2>6. r = (c - f) * size
    BY <2>3
  <2>7. Before(b + 1, k, p + some)
    <3>1. IF k <= Len(dirs) THEN c < g ELSE c = f
      BY <2>3, <2>4
    <3>2. Before(c, k, r)
      BY <1>1, <2>3, <2>6, <3>1, BeforeIs DEF f, g, size
    <3> QED
      BY <2>5, <3>2
  <2> QED
    BY <1>1, <1>11, <1>12, <1>13, <2>7, <1>7 DEF d, f, g, some, BlockIs
<1>15. CASE ~(b + 1 < g)
  <2>1. b + 1 = g /\ q = Parts(d) - 1
    BY <1>2, <1>3, <1>4, <1>15 DEF q
  <2>2. p + some = all
    <3>1. (q + 1) * size >= all
      BY <1>7, <2>1
    <3>2. ~(p + size < all)
      BY <1>4, <1>7, <1>8, <1>10, <3>1
    <3>3. some = all - p
      BY <1>7, <1>10, <3>2
    <3> QED
      BY <1>4, <1>7, <3>3
  <2>3. PICK z \in Nat : z = 0
    OBVIOUS
  <2> DEFINE c == b + 1
             l == k + 1
  <2>4. c - g = 0 /\ g <= c /\ c = g
    BY <1>2, <2>1
  <2>5. l \in 1 .. Len(dirs) + 1 /\ c = b + 1 /\ l = k + 1 /\ g = FirstBlock[l]
    BY <1>1 DEF g
  <2> HIDE DEF c, l
  <2>6. z = (c - g) * size
    <3>1. 0 * size = 0
      BY <1>8
    <3> QED
      BY <2>3, <2>4, <3>1
  <2>7. Before(b + 1, k + 1, z)
    <3>1. ASSUME l <= Len(dirs) PROVE c < FirstBlock[l + 1]
      <4>1. l + 1 \in 1 .. Len(dirs) + 1 /\ l < l + 1
        BY <1>1, <2>5, <3>1
      <4> QED
        BY <2>4, <2>5, <4>1, FirstBlockGrows
    <3>2. IF l <= Len(dirs) THEN c < FirstBlock[l + 1] ELSE c = FirstBlock[l]
      BY <2>4, <2>5, <3>1
    <3>3. Before(c, l, z)
      BY <2>4, <2>5, <2>6, <3>2, BeforeIs DEF size
    <3> QED
      BY <2>5, <3>3
  <2>8. p + some = ChildCount(d) + 2
    BY <1>9, <2>2
  <2> QED
    BY <1>1, <1>11, <1>12, <1>13, <2>3, <2>7, <2>8, <1>7 DEF d, f, g, some, BlockIs
<1> QED
  BY <1>14, <1>15

\* What is seen is in the tree.
LEMMA SeenInTree ==
  ASSUME NEW k, NEW p
  PROVE  Seen(k, p) \subseteq nodes
BY DEF Seen

\* "." and ".." are no children.
LEMMA SeenSame ==
  ASSUME TreeRight, NEW k \in 1 .. Len(dirs), NEW p \in Nat, p < 2
  PROVE  Seen(k, p + 1) = Seen(k, p)
<1>1. ASSUME NEW n \in nodes, NEW c \in DOMAIN children[parent[n]]
      PROVE  ~(c + 2 <= p) /\ ~(c + 2 <= p + 1)
  <2>1. c \in 1 .. ChildCount(parent[n]) /\ ChildCount(parent[n]) \in Nat
    BY TreeParts, ChildrenListed
  <2> QED
    BY <2>1
<1> QED
  BY <1>1 DEF Seen

\* Each other entry is one child more.
LEMMA SeenNext ==
  ASSUME TreeRight, NEW k \in 1 .. Len(dirs), NEW c \in 1 .. ChildCount(dirs[k]),
         NEW n, n = children[dirs[k]][c]
  PROVE  /\ n \in nodes /\ parent[n] = dirs[k] /\ n \notin Seen(k, c + 1)
         /\ Seen(k, c + 1 + 1) = Seen(k, c + 1) \cup {n}
<1> DEFINE d == dirs[k]
<1>1. d \in Directories /\ Len(dirs) \in Nat
  BY DirsAre
<1>2. n \in nodes /\ parent[n] = d /\ ChildCount(d) \in Nat
  BY <1>1, ChildrenListed
<1>3. \A l \in 1 .. Len(dirs) : dirs[l] = d => l = k
  BY DirsAre
<1>4. \A e \in 1 .. ChildCount(d) : children[d][e] = n => e = c
  BY <1>1, ChildrenListed
<1>5. DOMAIN children[d] = 1 .. ChildCount(d)
  BY <1>1, ChildrenListed
<1> HIDE DEF d
<1>6. ASSUME NEW m \in nodes, NEW l \in 1 .. Len(dirs), dirs[l] = parent[m]
      PROVE  /\ l = k => parent[m] = d
             /\ parent[m] = d => l = k
  BY <1>3, <1>6 DEF d
<1>7. n \notin Seen(k, c + 1)
  <2> SUFFICES ASSUME n \in Seen(k, c + 1) PROVE FALSE
    OBVIOUS
  <2>1. PICK l \in 1 .. Len(dirs) :
          /\ dirs[l] = parent[n]
          /\ \/ l < k
             \/ l = k /\ \E e \in DOMAIN children[parent[n]] : e + 2 <= c + 1 /\ children[parent[n]][e] = n
    BY DEF Seen
  <2>2. l = k
    BY <1>2, <1>6, <2>1
  <2>3. PICK e \in 1 .. ChildCount(d) : e + 2 <= c + 1 /\ children[d][e] = n
    BY <1>1, <1>2, <1>5, <2>1, <2>2
  <2>4. e = c
    BY <1>4, <2>3
  <2> QED
    BY <1>2, <2>3, <2>4
<1>8. n \in Seen(k, c + 1 + 1)
  <2>1. c \in DOMAIN children[parent[n]] /\ c + 2 <= c + 1 + 1 /\ children[parent[n]][c] = n
    BY <1>2, <1>5 DEF d
  <2>2. dirs[k] = parent[n] /\ k \in 1 .. Len(dirs)
    BY <1>2 DEF d
  <2> QED
    BY <1>2, <2>1, <2>2 DEF Seen
<1>9. ASSUME NEW m \in Seen(k, c + 1) PROVE m \in Seen(k, c + 1 + 1)
  <2>1. m \in nodes
    BY DEF Seen
  <2>2. PICK l \in 1 .. Len(dirs) :
          /\ dirs[l] = parent[m]
          /\ \/ l < k
             \/ l = k /\ \E e \in DOMAIN children[parent[m]] : e + 2 <= c + 1 /\ children[parent[m]][e] = m
    BY DEF Seen
  <2>3. CASE l < k
    BY <2>1, <2>2, <2>3 DEF Seen
  <2>4. CASE l = k
    <3>1. parent[m] = d
      BY <1>6, <2>1, <2>2, <2>4
    <3>2. PICK e \in 1 .. ChildCount(d) : e + 2 <= c + 1 /\ children[d][e] = m
      <4>1. \E e \in DOMAIN children[parent[m]] : e + 2 <= c + 1 /\ children[parent[m]][e] = m
        BY <1>1, <2>2, <2>4
      <4> QED
        BY <1>5, <3>1, <4>1
    <3>3. e + 2 <= c + 1 + 1 /\ e \in DOMAIN children[parent[m]] /\ children[parent[m]][e] = m
      BY <1>2, <1>5, <3>1, <3>2
    <3> QED
      BY <2>1, <2>2, <2>4, <3>3 DEF Seen
  <2>5. l < k \/ l = k
    BY <2>2
  <2> QED
    BY <2>3, <2>4, <2>5
<1>10. ASSUME NEW m \in Seen(k, c + 1 + 1), m # n PROVE m \in Seen(k, c + 1)
  <2>1. m \in nodes
    BY DEF Seen
  <2>2. PICK l \in 1 .. Len(dirs) :
          /\ dirs[l] = parent[m]
          /\ \/ l < k
             \/ l = k /\ \E e \in DOMAIN children[parent[m]] : e + 2 <= c + 1 + 1 /\ children[parent[m]][e] = m
    BY DEF Seen
  <2>3. CASE l < k
    BY <2>1, <2>2, <2>3 DEF Seen
  <2>4. CASE l = k
    <3>1. parent[m] = d
      BY <1>6, <2>1, <2>2, <2>4
    <3>2. PICK e \in 1 .. ChildCount(d) : e + 2 <= c + 1 + 1 /\ children[d][e] = m
      <4>1. \E e \in DOMAIN children[parent[m]] : e + 2 <= c + 1 + 1 /\ children[parent[m]][e] = m
        BY <1>1, <2>2, <2>4
      <4> QED
        BY <1>5, <3>1, <4>1
    <3>3. e # c
      BY <1>10, <3>2 DEF d
    <3>4. e + 2 <= c + 1 /\ e \in DOMAIN children[parent[m]] /\ children[parent[m]][e] = m
      BY <1>2, <1>5, <3>1, <3>2, <3>3
    <3> QED
      BY <2>1, <2>2, <2>4, <3>4 DEF Seen
  <2>5. l < k \/ l = k
    BY <2>2
  <2> QED
    BY <2>3, <2>4, <2>5
<1> QED
  BY <1>2, <1>7, <1>8, <1>9, <1>10 DEF d
\* Nothing is seen before the first directory, and everything behind the last one.
LEMMA SeenEnds ==
  ASSUME TreeRight, NEW z \in Nat, z = 0
  PROVE  Seen(1, z) = {} /\ Seen(Len(dirs) + 1, z) = nodes
<1>1. Len(dirs) \in Nat
  BY DirsAre
<1>2. ASSUME NEW n \in nodes, NEW c \in DOMAIN children[parent[n]] PROVE ~(c + 2 <= z)
  <2>1. c \in 1 .. ChildCount(parent[n]) /\ ChildCount(parent[n]) \in Nat
    BY TreeParts, ChildrenListed
  <2> QED
    BY <2>1
<1>3. \A l \in 1 .. Len(dirs) : ~(l < 1)
  BY <1>1
<1>4. Seen(1, z) = {}
  BY <1>2, <1>3 DEF Seen
<1>5. ASSUME NEW n \in nodes PROVE n \in Seen(Len(dirs) + 1, z)
  <2>1. parent[n] \in Directories
    BY TreeParts
  <2>2. PICK l \in 1 .. Len(dirs) : dirs[l] = parent[n]
    BY <2>1, DirsAre
  <2>3. l < Len(dirs) + 1
    BY <1>1, <2>2
  <2> QED
    BY <2>2, <2>3 DEF Seen
<1> QED
  BY <1>4, <1>5, SeenInTree

\* The end of a directory is the beginning of the next one.
LEMMA SeenTurn ==
  ASSUME TreeRight, NEW k \in 1 .. Len(dirs), NEW z \in Nat, z = 0
  PROVE  Seen(k + 1, z) = Seen(k, ChildCount(dirs[k]) + 2)
<1> DEFINE d == dirs[k]
           s == ChildCount(d) + 2
<1>1. d \in Directories /\ Len(dirs) \in Nat /\ ChildCount(d) \in Nat /\ s \in Nat
  BY DirsAre, ChildrenListed
<1>2. ASSUME NEW n \in nodes, NEW c \in DOMAIN children[parent[n]] PROVE ~(c + 2 <= z)
  <2>1. c \in 1 .. ChildCount(parent[n]) /\ ChildCount(parent[n]) \in Nat
    BY TreeParts, ChildrenListed
  <2> QED
    BY <2>1
<1>3. ASSUME NEW n \in nodes, NEW l \in 1 .. Len(dirs), dirs[l] = parent[n], l = k
      PROVE  \E c \in DOMAIN children[parent[n]] : c + 2 <= s /\ children[parent[n]][c] = n
  <2>1. parent[n] = d
    BY <1>3
  <2>2. PICK c \in 1 .. ChildCount(d) : children[d][c] = n
    BY <1>1, <2>1, ChildrenListed
  <2>3. c \in DOMAIN children[d] /\ c + 2 <= s
    BY <1>1, <2>2, ChildrenListed
  <2> QED
    BY <2>1, <2>2, <2>3
<1>4. \A l \in 1 .. Len(dirs) : l < k + 1 <=> l < k \/ l = k
  BY <1>1
<1> HIDE DEF s
<1>5. ASSUME NEW n \in nodes
      PROVE  n \in Seen(k + 1, z) <=> n \in Seen(k, s)
  <2> DEFINE At(l) == dirs[l] = parent[n]
             Listed0(y) == \E c \in DOMAIN children[parent[n]] : c + 2 <= y /\ children[parent[n]][c] = n
  <2>1. n \in Seen(k + 1, z) <=>
          \E l \in 1 .. Len(dirs) : At(l) /\ (l < k + 1 \/ (l = k + 1 /\ Listed0(z)))
    BY DEF Seen
  <2>2. n \in Seen(k, s) <=>
          \E l \in 1 .. Len(dirs) : At(l) /\ (l < k \/ (l = k /\ Listed0(s)))
    BY DEF Seen
  <2>3. ~Listed0(z)
    BY <1>2
  <2>4. \A l \in 1 .. Len(dirs) : At(l) /\ l = k => Listed0(s)
    BY <1>3
  <2> HIDE DEF At, Listed0
  <2> QED
    BY <1>4, <2>1, <2>2, <2>3, <2>4
<1>6. Seen(k + 1, z) = Seen(k, s)
  BY <1>5, SeenInTree
<1> QED
  BY <1>6 DEF s

\* A directory has been seen where its entries begin.
LEMMA SeenParent ==
  ASSUME TreeRight, NEW k \in 1 .. Len(dirs), NEW p
  PROVE  dirs[k] = uroot \/ (dirs[k] # uroot /\ dirs[k] \in Seen(k, p) /\ kind[dirs[k]] = DIR)
<1> SUFFICES ASSUME dirs[k] # uroot PROVE dirs[k] \in Seen(k, p) /\ kind[dirs[k]] = DIR
  OBVIOUS
<1>1. dirs[k] \in Directories /\ dirs[1] = uroot /\ Len(dirs) \in Nat
  BY DirsAre
<1>2. dirs[k] \in nodes /\ kind[dirs[k]] = DIR
  BY <1>1, TreeParts
<1>3. parent[dirs[k]] \in Directories
  BY <1>2, TreeParts
<1>4. PICK l \in 1 .. Len(dirs) : dirs[l] = parent[dirs[k]]
  BY <1>3, DirsAre
<1>5. k # 1
  BY <1>1
<1>6. k > 1
  BY <1>1, <1>5
<1>7. l < k
  BY <1>4, <1>6, DirsAre
<1> QED
  BY <1>2, <1>4, <1>7 DEF Seen

-----------------------------------------------------------------------------
(***************************************************************************)
(* The steps of the walk.                                                   *)
(***************************************************************************)
\* An order of all members of a set.
LEMMA OrderOfAll ==
  ASSUME NEW S, IsFiniteSet(S), NEW f \in SetToSeqs(S)
  PROVE  /\ f \in [1 .. Cardinality(S) -> S] /\ Cardinality(S) \in Nat
         /\ \A n \in S : \E m \in DOMAIN f : f[m] = n
         /\ \A m, l \in DOMAIN f : f[m] = f[l] => m = l
<1> DEFINE D == 1 .. Cardinality(S)
<1>1. Cardinality(S) \in Nat
  BY FS_CardinalityType
<1>2. f \in [D -> S] /\ \A a, b \in D : a # b => f[a] # f[b]
  BY DEF SetToSeqs
<1>3. IsFiniteSet(D) /\ Cardinality(D) = Cardinality(S)
  BY <1>1, FS_Interval
<1> HIDE DEF D
<1>4. f \in Injection(D, S)
  BY <1>2 DEF Injection, IsInjective
<1>5. f \in Surjection(D, S)
  BY <1>3, <1>4, FS_Injection
<1>6. \A n \in S : \E m \in DOMAIN f : f[m] = n
  BY <1>2, <1>5 DEF Surjection
<1>7. \A m, l \in DOMAIN f : f[m] = f[l] => m = l
  BY <1>2
<1> QED
  BY <1>1, <1>2, <1>6, <1>7 DEF D

LEMMA InitWalk == Init => WalkInv
<1> SUFFICES ASSUME Init PROVE WalkInv
  OBVIOUS
<1> USE DEF Init
<1>1. /\ uroot \in {2, 3}
      /\ \E count \in 0 .. MaxNodes : nodes = uroot + 1 .. uroot + count
      /\ kind \in [nodes -> {FILE, DIR}] /\ name \in [nodes -> Names]
      /\ odd \subseteq nodes /\ parent \in [nodes -> nodes \cup {uroot}]
      /\ \A n \in nodes : parent[n] < n /\ (parent[n] \in nodes => kind[parent[n]] = DIR)
  BY DEF TreeInit
<1>2. \A n \in nodes : parent[n] < n /\ parent[n] \in Directories
  BY <1>1 DEF Directories
<1>3. IsFiniteSet(nodes) /\ uroot \notin nodes
  <2>1. PICK count \in 0 .. MaxNodes : nodes = uroot + 1 .. uroot + count
    BY <1>1
  <2>2. uroot \in Nat /\ count \in Nat
    BY <1>1, <2>1, MetadataAssumption
  <2> QED
    BY <2>1, <2>2, FS_Interval
<1>4. ASSUME NEW S \in SUBSET nodes, NEW f \in SetToSeqs(S)
      PROVE  /\ f \in [1 .. Cardinality(S) -> S] /\ Cardinality(S) \in Nat
             /\ \A n \in S : \E m \in DOMAIN f : f[m] = n
             /\ \A m, l \in DOMAIN f : f[m] = f[l] => m = l
  <2>1. IsFiniteSet(S)
    BY <1>3, FS_Subset
  <2> QED
    BY <2>1, OrderOfAll
<1>5. ASSUME NEW d \in Directories
      PROVE  /\ children[d] \in [1 .. Cardinality(ChildrenOf(d)) -> ChildrenOf(d)]
             /\ \A n \in ChildrenOf(d) : \E k \in DOMAIN children[d] : children[d][k] = n
             /\ \A k, l \in DOMAIN children[d] : children[d][k] = children[d][l] => k = l
  <2>1. children[d] \in SetToSeqs(ChildrenOf(d))
    BY DEF TreeInit
  <2>2. ChildrenOf(d) \subseteq nodes
    BY DEF ChildrenOf
  <2> QED
    BY <1>4, <2>1, <2>2
<1> DEFINE D == {n \in nodes : kind[n] = DIR}
<1>6. PICK order \in SetToSeqs(D) :
        /\ \A k, l \in DOMAIN order : parent[order[k]] = order[l] => l < k
        /\ dirs = <<uroot>> \o order
  BY DEF TreeInit
<1>7. /\ order \in [1 .. Cardinality(D) -> D] /\ Cardinality(D) \in Nat
      /\ \A n \in D : \E m \in DOMAIN order : order[m] = n
      /\ \A m, l \in DOMAIN order : order[m] = order[l] => m = l
  <2>1. D \in SUBSET nodes
    OBVIOUS
  <2> HIDE DEF D
  <2> QED
    BY <1>4, <1>6, <2>1
<1>8. Directories = {uroot} \cup D
  BY DEF Directories
<1>9. uroot \notin D
  BY <1>3
<1> DEFINE c == Cardinality(D)
<1>10. DOMAIN order = 1 .. c /\ c \in Nat /\ order \in [1 .. c -> D]
  BY <1>7
<1> HIDE DEF D, c
<1>11. order \in Seq(Directories) /\ Len(order) = c
  <2>1. order \in [1 .. c -> Directories]
    BY <1>8, <1>10
  <2> QED
    BY <1>10, <2>1, ListLength
<1>12. <<uroot>> \in Seq(Directories) /\ Len(<<uroot>>) = 1 /\ <<uroot>>[1] = uroot
  BY <1>8
<1>13. /\ dirs \in Seq(Directories) /\ Len(dirs) = c + 1
       /\ \A m \in 1 .. c + 1 : dirs[m] = IF m <= 1 THEN <<uroot>>[m] ELSE order[m - 1]
  <2>1. /\ <<uroot>> \o order \in Seq(Directories)
        /\ Len(<<uroot>> \o order) = Len(<<uroot>>) + Len(order)
        /\ \A m \in 1 .. Len(<<uroot>>) + Len(order) :
             (<<uroot>> \o order)[m] =
               IF m <= Len(<<uroot>>) THEN <<uroot>>[m] ELSE order[m - Len(<<uroot>>)]
    BY <1>11, <1>12, ConcatProperties
  <2>2. Len(<<uroot>>) + Len(order) = c + 1
    BY <1>10, <1>11, <1>12
  <2> QED
    BY <1>6, <1>12, <2>1, <2>2
<1>14. dirs[1] = uroot /\ \A m \in 2 .. c + 1 : dirs[m] = order[m - 1] /\ m - 1 \in 1 .. c
  BY <1>10, <1>12, <1>13
<1>15. DOMAIN dirs = 1 .. c + 1
  BY <1>10, <1>13
<1>16. \A d \in Directories : \E k \in DOMAIN dirs : dirs[k] = d
  <2> SUFFICES ASSUME NEW d \in Directories PROVE \E k \in DOMAIN dirs : dirs[k] = d
    OBVIOUS
  <2>1. CASE d = uroot
    BY <1>10, <1>14, <1>15, <2>1
  <2>2. CASE d # uroot
    <3>1. PICK m \in 1 .. c : order[m] = d
      BY <1>7, <1>8, <1>10, <2>2
    <3>2. m + 1 \in 2 .. c + 1 /\ m + 1 - 1 = m /\ m + 1 \in 1 .. c + 1
      BY <1>10
    <3> QED
      BY <1>14, <1>15, <3>1, <3>2
  <2> QED
    BY <2>1, <2>2
<1>17. \A k \in 2 .. c + 1 : dirs[k] \in D
  BY <1>10, <1>14
<1>18. \A k, l \in DOMAIN dirs : /\ dirs[k] = dirs[l] => k = l
                                 /\ k > 1 => (parent[dirs[k]] = dirs[l] => l < k)
  <2> SUFFICES ASSUME NEW k \in 1 .. c + 1, NEW l \in 1 .. c + 1
               PROVE  /\ dirs[k] = dirs[l] => k = l
                      /\ k > 1 => (parent[dirs[k]] = dirs[l] => l < k)
    BY <1>15
  <2>1. (k = 1 \/ k \in 2 .. c + 1) /\ (l = 1 \/ l \in 2 .. c + 1)
    BY <1>10
  <2>2. CASE k = 1
    <3>1. l = 1 \/ dirs[l] # uroot
      BY <1>9, <1>17, <2>1
    <3> QED
      BY <1>14, <2>2, <3>1
  <2>3. CASE k \in 2 .. c + 1 /\ l = 1
    BY <1>9, <1>10, <1>14, <1>17, <2>3
  <2>4. CASE k \in 2 .. c + 1 /\ l \in 2 .. c + 1
    <3>1. dirs[k] = order[k - 1] /\ dirs[l] = order[l - 1] /\ k - 1 \in 1 .. c /\ l - 1 \in 1 .. c
      BY <1>14, <2>4
    <3>2. dirs[k] = dirs[l] => k - 1 = l - 1
      BY <1>7, <1>10, <3>1
    <3>3. parent[dirs[k]] = dirs[l] => l - 1 < k - 1
      BY <1>6, <1>10, <3>1
    <3> QED
      BY <1>10, <3>2, <3>3
  <2> QED
    BY <2>1, <2>2, <2>3, <2>4
<1>19. Len(dirs) >= 1
  BY <1>10, <1>13
<1>20. blocks = Image
  BY DEF TreeInit
<1>21. TreeRight
  <2>1. entSize \in EntrySizes
    BY DEF TreeInit
  <2> QED
    BY <1>1, <1>2, <1>5, <1>13, <1>14, <1>16, <1>18, <1>19, <1>20, <2>1 DEF TreeRight
<1>22. FirstBlock[1] = Superroot + 2 /\ Superroot \in Nat /\ Superroot >= 2
  BY <1>21, FirstBlockIs, LayoutNumbers
<1>23. InodesRight
  <2>1. InodeCount \in Nat /\ OccupiedBlocks(InodeCount) \in Nat
    BY <1>21, TreeNumbers, LayoutNumbers
  <2> QED
    BY <2>1 DEF InodesRight
<1>24. Outside
  <2>1. i \in 0 .. FirstBlock[1] - 1 /\ i < Superroot /\ ~(i > 0)
    BY <1>22
  <2>2. DOMAIN paths = {}
    OBVIOUS
  <2> QED
    BY <1>23, <2>1, <2>2 DEF Outside
<1> QED
  BY <1>21, <1>24 DEF WalkInv
\* The place behind the last directory.
LEMMA BehindLast ==
  ASSUME TreeRight, NEW b \in Nat, NEW k \in 1 .. Len(dirs) + 1, NEW p, Before(b, k, p)
  PROVE  /\ b > LastBlock \/ k = Len(dirs) + 1 =>
              b = LastBlock + 1 /\ k = Len(dirs) + 1 /\ p = 0 /\ Seen(k, p) = nodes
         /\ p \in Nat
<1>1. /\ Len(dirs) \in Nat /\ \A m \in 1 .. Len(dirs) + 1 : FirstBlock[m] \in Nat
      /\ LastBlock = FirstBlock[Len(dirs) + 1] - 1 /\ LastBlock \in Nat
  BY DirsAre, FirstBlockIs, BlocksAre
<1>2. Len(dirs) + 1 \in 1 .. Len(dirs) + 1 /\ FirstBlock[Len(dirs) + 1] \in Nat
  BY <1>1
<1>3. ASSUME b > LastBlock PROVE k = Len(dirs) + 1
  <2> SUFFICES ASSUME k <= Len(dirs) PROVE FALSE
    BY <1>1
  <2>1. b < FirstBlock[k + 1]
    BY DEF Before
  <2>2. k + 1 \in 1 .. Len(dirs) + 1 /\ (k + 1 = Len(dirs) + 1 \/ k + 1 < Len(dirs) + 1)
    BY <1>1
  <2>3. FirstBlock[k + 1] <= FirstBlock[Len(dirs) + 1] /\ FirstBlock[k + 1] \in Nat
    BY <1>1, <1>2, <2>2, FirstBlockGrows
  <2> QED
    BY <1>1, <1>2, <1>3, <2>1, <2>3
<1>4. ASSUME k = Len(dirs) + 1
      PROVE  b = LastBlock + 1 /\ p = 0 /\ Seen(k, p) = nodes
  <2>1. ~(k <= Len(dirs))
    BY <1>1, <1>4
  <2>2. b = FirstBlock[k] /\ p = (b - FirstBlock[k]) * DirentsPerBlock
    BY <2>1 DEF Before
  <2>3. b - FirstBlock[k] = 0
    BY <1>2, <1>4, <2>2
  <2>4. 0 * DirentsPerBlock = 0
    BY TwoFit
  <2>5. p = 0
    BY <2>2, <2>3, <2>4
  <2>6. p \in Nat
    BY <2>5
  <2>7. Seen(Len(dirs) + 1, p) = nodes
    BY <2>5, <2>6, SeenEnds
  <2> QED
    BY <1>1, <1>2, <1>4, <2>2, <2>5, <2>7
<1>5. p \in Nat
  <2>1. b - FirstBlock[k] \in Nat /\ DirentsPerBlock \in Nat
    <3>1. FirstBlock[k] \in Nat /\ FirstBlock[k] <= b
      BY <1>1 DEF Before
    <3> QED
      BY <3>1, TwoFit
  <2>2. p = (b - FirstBlock[k]) * DirentsPerBlock
    BY DEF Before
  <2> DEFINE q == b - FirstBlock[k]
  <2>3. q \in Nat /\ p = q * DirentsPerBlock
    BY <2>1, <2>2
  <2> HIDE DEF q
  <2> QED
    BY <2>1, <2>3
<1> QED
  BY <1>3, <1>4, <1>5

\* Where the image has none of the entries that are skipped, those of a block are read.
LEMMA EntriesInTime ==
  ASSUME TreeRight, NoneSkipped, NEW b \in Nat, NEW k \in 1 .. Len(dirs), NEW p, Before(b, k, p)
  PROVE  \A m \in 1 .. Len(blocks[b].entries) : InTime(m)
<1>1. /\ Len(dirs) \in Nat /\ dirs[k] \in Directories /\ k <= Len(dirs)
      /\ k \in 1 .. Len(dirs) + 1 /\ k + 1 \in 1 .. Len(dirs) + 1
  BY DirsAre
<1>2. FirstBlock[k] <= b /\ b < FirstBlock[k + 1]
  BY <1>1 DEF Before
<1>3. FirstBlock[k] \in Nat /\ FirstBlock[k + 1] = FirstBlock[k] + Parts(dirs[k])
  BY <1>1, FirstBlockIs
<1>4. PICK q : q = b - FirstBlock[k]
  OBVIOUS
<1>9. Parts(dirs[k]) \in Nat
  BY <1>1, PartsAre
<1>10. q \in 0 .. Parts(dirs[k]) - 1
  BY <1>2, <1>3, <1>4, <1>9
<1>11. blocks[b].entries = Part(dirs[k], q)
  BY <1>1, <1>2, <1>4, BlocksAre
<1>5. PICK n : n = Len(blocks[b].entries)
  OBVIOUS
<1>6. n \in Nat
  BY <1>5, AtPlace DEF BlockIs
<1>7. InTime(n)
  BY <1>1, <1>5, <1>10, <1>11 DEF NoneSkipped
<1>8. ASSUME NEW m \in 1 .. n PROVE InTime(m)
  <2>1. m - 1 \in Nat /\ n - 1 \in Nat /\ m - 1 <= n - 1
    BY <1>6
  <2>2. /\ entSize \in Nat \ {0} /\ DirentSize \in Nat /\ BlockSize \in Nat
    BY TwoFit
  <2>3. /\ (m - 1) * entSize \in Nat /\ (n - 1) * entSize \in Nat
        /\ (m - 1) * entSize <= (n - 1) * entSize
    <3> DEFINE a == m - 1
               c == n - 1
    <3>1. a \in Nat /\ c \in Nat /\ a <= c /\ entSize \in Nat
      BY <2>1, <2>2
    <3> HIDE DEF a, c
    <3>2. a * entSize \in Nat /\ c * entSize \in Nat /\ a * entSize <= c * entSize
      BY <3>1, ProductGrows
    <3> QED
      BY <3>2 DEF a, c
  <2>4. (n - 1) * entSize + DirentSize <= BlockSize
    BY <1>7 DEF InTime
  <2>5. (m - 1) * entSize + DirentSize <= BlockSize
    BY <2>2, <2>3, <2>4
  <2> QED
    BY <2>5 DEF InTime
<1> QED
  BY <1>5, <1>8

\* What depends on the table, the paths and the directories made alone.
LEMMA LeftKept ==
  ASSUME UNCHANGED image, NEW S
  PROVE  /\ paths' = paths => (PathsRight(S)' <=> PathsRight(S))
         /\ made' = made => (MadeRight(S)' <=> MadeRight(S))
         /\ fsTable' = fsTable => (TableRight(S)' <=> TableRight(S))
<1>1. TruePath' = TruePath /\ UNCHANGED <<uroot, nodes, kind>>
  BY ImageKept
<1>2. paths' = paths => (PathsRight(S)' <=> PathsRight(S))
  BY <1>1 DEF PathsRight
<1>3. made' = made => (MadeRight(S)' <=> MadeRight(S))
  BY <1>1 DEF MadeRight
<1>4. ASSUME fsTable' = fsTable PROVE TableRight(S)' <=> TableRight(S)
  <2>1. \A n : Listed(n)' = Listed(n)
    BY <1>4 DEF Listed
  <2> QED
    BY <1>1, <1>4, <2>1 DEF TableRight
<1> QED
  BY <1>2, <1>3, <1>4

\* An exception ends the walk.
LEMMA ThrowKeeps ==
  ASSUME WalkInv, BlockThrows
  PROVE  WalkInv'
<1>1. UNCHANGED image /\ stage' = "thrown"
  BY DEF BlockThrows
<1>2. TreeRight'
  BY <1>1, ImageKept DEF WalkInv
<1> QED
  BY <1>1, <1>2 DEF WalkInv

LEMMA CountKeeps ==
  ASSUME WalkInv, Count
  PROVE  WalkInv'
<1>1. UNCHANGED image /\ stage = "count" /\ stage' = "listed" /\ made' = made
  BY DEF Count
<1>2. TreeRight' /\ (ImageRead' <=> ImageRead) /\ (HasFiles' <=> HasFiles)
      /\ UNCHANGED <<nodes, kind>> /\ TruePath' = TruePath
  BY <1>1, ImageKept DEF WalkInv
<1> SUFFICES ASSUME ImageRead PROVE Ended'
  BY <1>2 DEF WalkInv
<1>3. Ended
  BY <1>1 DEF WalkInv, Outside, Inside
<1>4. MadeRight(nodes)'
  BY <1>1, <1>2, <1>3, LeftKept DEF Ended
<1>5. ASSUME NEW n \in nodes
      PROVE  n \in DOMAIN paths' /\ paths'[n] = TruePath[n]
  <2>1. n \in DOMAIN paths /\ paths[n] = TruePath[n]
    BY <1>3 DEF Ended
  <2>2. CASE paths' = paths
    BY <2>1, <2>2
  <2>3. CASE paths' = [m \in DOMAIN paths \cup Range(Synthetic) |->
                         IF m \in DOMAIN paths THEN paths[m] ELSE <<"inode">>]
    BY <2>1, <2>3
  <2> QED
    BY <2>2, <2>3 DEF Count
<1>6. ASSUME HasFiles PROVE TableRight(nodes)'
  <2>1. TableRight(nodes)
    BY <1>3, <1>6 DEF Ended
  <2>2. PICK n \in nodes : kind[n] = FILE
    BY <1>6 DEF HasFiles
  <2>3. PICK k \in DOMAIN fsTable : fsTable[k].type = kind[n]
    BY <2>1 DEF TableRight
  <2>4. fsTable' = fsTable
    BY <2>2, <2>3 DEF Count
  <2> QED
    BY <1>1, <1>2, <2>1, <2>4, LeftKept
<1> QED
  BY <1>1, <1>2, <1>4, <1>5, <1>6 DEF Ended

\* The blocks end with the last directory when there are no files: all is seen.
LEMMA EndBlocksKeeps ==
  ASSUME WalkInv, EndBlocks
  PROVE  WalkInv'
<1>1. /\ UNCHANGED <<image, paths, made, fsTable, i>>
      /\ stage = "block" /\ stage' = "count" /\ i = Len(blocks)
  BY DEF EndBlocks
<1>2. TreeRight /\ TreeRight' /\ (ImageRead' <=> ImageRead)
  BY <1>1, ImageKept DEF WalkInv
<1> SUFFICES ASSUME ImageRead PROVE Ended'
  BY <1>2 DEF WalkInv
<1>3. /\ FirstBlock[1] <= LastBlock /\ LastBlock \in Nat /\ Superroot \in Nat
      /\ FirstBlock[1] = Superroot + 2 /\ LastBlock = FirstBlock[Len(dirs) + 1] - 1
      /\ Len(blocks) = LastBlock + (IF HasFiles THEN 1 ELSE 0)
  BY <1>2, BlocksAre, LayoutNumbers
<1>4. i \in Nat /\ i >= LastBlock
  BY <1>1, <1>3
<1>5. ~Outside
  <2>1. i \notin 0 .. FirstBlock[1] - 1
    BY <1>3, <1>4
  <2> QED
    BY <2>1 DEF Outside
<1>6. Inside
  BY <1>1, <1>5 DEF WalkInv, Ended
<1>7. PICK k \in 1 .. Len(dirs) + 1, p \in Nat :
        /\ Place(k, p) /\ counter = uroot + Cardinality(Seen(k, p))
        /\ endReached <=> (nodes # {} /\ Seen(k, p) = nodes)
        /\ PathsRight(Seen(k, p)) /\ MadeRight(Seen(k, p)) /\ TableRight(Seen(k, p))
  BY <1>6 DEF Inside
<1>8. Before(i + 1, k, p)
  BY <1>1, <1>7 DEF Place
<1>9. Len(dirs) \in Nat /\ \A m \in 1 .. Len(dirs) + 1 : FirstBlock[m] \in Nat
  BY <1>2, DirsAre, FirstBlockIs
<1>10. k = Len(dirs) + 1 /\ Seen(k, p) = nodes
  <2> DEFINE b == i + 1
  <2>1. b \in Nat /\ b > LastBlock /\ Before(b, k, p)
    BY <1>3, <1>4, <1>8
  <2> HIDE DEF b
  <2> QED
    BY <1>2, <2>1, BehindLast
<1>13. MadeRight(nodes)' /\ TableRight(nodes)' /\ PathsRight(nodes)
  <2>1. UNCHANGED nodes
    BY <1>1, ImageKept
  <2> QED
    BY <1>1, <1>7, <1>10, <2>1, LeftKept
<1>14. \A n \in nodes : n \in DOMAIN paths /\ paths[n] = TruePath[n]
  BY <1>13 DEF PathsRight
<1>15. UNCHANGED nodes /\ TruePath' = TruePath
  BY <1>1, ImageKept
<1> QED
  BY <1>1, <1>13, <1>14, <1>15 DEF Ended
\* The walk is among the directories, at one place.
Here(k, p) ==
  /\ Place(k, p) /\ counter = uroot + Cardinality(Seen(k, p))
  /\ endReached <=> (nodes # {} /\ Seen(k, p) = nodes)
  /\ PathsRight(Seen(k, p)) /\ MadeRight(Seen(k, p)) /\ TableRight(Seen(k, p))
  /\ p > 0 => currentDir = PathOf(dirs[k])

\* Inside the tree the walk is at some place.
LEMMA InsideIs ==
  Inside <=> /\ stage \in {"block", "entries"} /\ ndinode = InodeCount /\ i \in Nat
             /\ odd # {} => inodes = InodeCount
             /\ \E k \in 1 .. Len(dirs) + 1, p \in Nat : Here(k, p)
             /\ stage = "block" => ~endReached
BY DEF Inside, Here

\* Among the entries of a block.
LEMMA AmongEntries ==
  ASSUME TreeRight, stage = "entries", i \in Nat,
         NEW k \in 1 .. Len(dirs) + 1, NEW p \in Nat, Place(k, p)
  PROVE  \E p0 \in Nat :
           /\ k \in 1 .. Len(dirs) /\ Before(i + 1, k, p0) /\ p0 = p - (j - 1)
           /\ j \in 1 .. Len(Current.entries) + 1
<1>1. k <= Len(dirs) /\ j \in 1 .. Len(Current.entries) + 1 /\ Before(i + 1, k, p - (j - 1))
  BY DEF Place
<1>2. Len(dirs) \in Nat
  BY DirsAre
<1>3. k \in 1 .. Len(dirs)
  BY <1>1, <1>2
<1> DEFINE b == i + 1
           p0 == p - (j - 1)
<1>4. b \in Nat /\ Before(b, k, p0)
  BY <1>1
<1>5. p0 = p - (j - 1) /\ b = i + 1
  OBVIOUS
<1> HIDE DEF b, p0
<1>6. p0 \in Nat
  BY <1>3, <1>4, BehindLast
<1> QED
  BY <1>1, <1>3, <1>4, <1>5, <1>6

LEMMA EndBlockKeeps ==
  ASSUME WalkInv, EndBlock
  PROVE  WalkInv'
<1>1. /\ UNCHANGED <<image, inTree, paths, made, fsTable, j, ndinode, inodes, counter, endReached,
                     currentDir>>
      /\ stage = "entries" /\ (j > Len(Current.entries) \/ ~InTime(j))
      /\ endReached => stage' = "count"
      /\ ~endReached => stage' = "block" /\ i' = i + 1
  BY DEF EndBlock
<1>2. /\ TreeRight /\ TreeRight' /\ (ImageRead' <=> ImageRead)
      /\ UNCHANGED <<nodes, odd, dirs, uroot>> /\ InodeCount' = InodeCount /\ TruePath' = TruePath
  BY <1>1, ImageKept DEF WalkInv
<1> SUFFICES ASSUME ImageRead PROVE Ended' \/ (inTree' /\ Inside')
  BY <1>2 DEF WalkInv
<1>3. inTree /\ Inside
  BY <1>1 DEF WalkInv, Outside, Ended
<1>4. /\ i \in Nat /\ ndinode = InodeCount /\ (odd # {} => inodes = InodeCount)
      /\ \E k \in 1 .. Len(dirs) + 1, p \in Nat : Here(k, p)
  BY <1>3, InsideIs
<1>5. PICK k \in 1 .. Len(dirs) + 1, p \in Nat : Here(k, p)
  BY <1>4
<1>6. CASE endReached
  <2>1. Seen(k, p) = nodes
    BY <1>5, <1>6 DEF Here
  <2>2. PathsRight(nodes) /\ MadeRight(nodes) /\ TableRight(nodes)
    BY <1>5, <2>1 DEF Here
  <2>3. MadeRight(nodes)' /\ TableRight(nodes)'
    BY <1>1, <1>2, <2>2, LeftKept
  <2>4. \A n \in nodes : n \in DOMAIN paths /\ paths[n] = TruePath[n]
    BY <2>2 DEF PathsRight
  <2> QED
    BY <1>1, <1>2, <1>6, <2>3, <2>4 DEF Ended
<1>7. CASE ~endReached
  <2>1. PICK p0 \in Nat : /\ k \in 1 .. Len(dirs) /\ Before(i + 1, k, p0) /\ p0 = p - (j - 1)
                          /\ j \in 1 .. Len(Current.entries) + 1
    BY <1>1, <1>2, <1>4, <1>5, AmongEntries DEF Here
  <2>2. PICK b \in Nat : b = i + 1
    BY <1>4
  <2>3. PICK here : here = blocks[b].entries
    OBVIOUS
  <2>a. Before(b, k, p0) /\ Current.entries = here
    BY <2>1, <2>2, <2>3 DEF Current
  <2>b. BlockIs(b, k, p0, here)
    BY <1>2, <2>1, <2>3, <2>a, AtPlace
  <2>4. /\ Len(here) \in Nat
        /\ \/ Before(b + 1, k, p0 + Len(here))
           \/ /\ p0 + Len(here) = ChildCount(dirs[k]) + 2
              /\ \E z \in Nat : z = 0 /\ Before(b + 1, k + 1, z)
    BY <2>b DEF BlockIs
  <2>c. j > Len(Current.entries)
    <3>1. \A m \in 1 .. Len(here) : InTime(m)
      BY <1>2, <2>1, <2>2, <2>3, <2>a, EntriesInTime DEF ImageRead
    <3>2. j <= Len(here) => j \in 1 .. Len(here)
      BY <2>1, <2>4, <2>a
    <3> QED
      BY <1>1, <2>1, <2>4, <2>a, <3>1, <3>2
  <2>5. p = p0 + Len(here)
    BY <2>1, <2>a, <2>4, <2>c
  <2>6. \E l \in 1 .. Len(dirs) + 1, q \in Nat :
          /\ Before(b + 1, l, q) /\ Seen(l, q) = Seen(k, p)
          /\ q > 0 => l = k /\ q = p
    <3>1. CASE Before(b + 1, k, p0 + Len(here))
      BY <2>5, <3>1
    <3>2. CASE /\ p0 + Len(here) = ChildCount(dirs[k]) + 2
               /\ \E z \in Nat : z = 0 /\ Before(b + 1, k + 1, z)
      <4>1. PICK z \in Nat : z = 0 /\ Before(b + 1, k + 1, z)
        BY <3>2
      <4>2. Seen(k + 1, z) = Seen(k, p)
        BY <1>2, <2>1, <2>5, <3>2, <4>1, SeenTurn
      <4>3. k + 1 \in 1 .. Len(dirs) + 1
        BY <1>2, <2>1, DirsAre
      <4>4. ~(z > 0)
        BY <4>1
      <4> QED
        BY <4>1, <4>2, <4>3, <4>4
    <3> QED
      BY <2>4, <3>1, <3>2
  <2>7. PICK l \in 1 .. Len(dirs) + 1, q \in Nat :
          /\ Before(b + 1, l, q) /\ Seen(l, q) = Seen(k, p)
          /\ q > 0 => l = k /\ q = p
    BY <2>6
  <2>8. Seen(l, q)' = Seen(k, p) /\ \A d : PathOf(d)' = PathOf(d)
    BY <1>1, <2>7, ImageKept
  <2>9. Place(l, q)'
    <3>1. PICK c \in Nat : c = b + 1
      OBVIOUS
    <3>2. Before(c, l, q)'
      BY <1>1, <2>7, <3>1, ImageKept
    <3>3. i' + 1 = c /\ stage' = "block"
      BY <1>1, <1>7, <2>2, <3>1
    <3> QED
      BY <3>2, <3>3 DEF Place
  <2>10. Here(l, q)'
    <3>1. counter' = uroot' + Cardinality(Seen(l, q)')
      BY <1>1, <1>2, <1>5, <2>8 DEF Here
    <3>2. endReached' <=> (nodes' # {} /\ Seen(l, q)' = nodes')
      BY <1>1, <1>2, <1>5, <2>8 DEF Here
    <3>3. PathsRight(Seen(l, q))' /\ MadeRight(Seen(l, q))' /\ TableRight(Seen(l, q))'
      BY <1>1, <1>5, <2>8, LeftKept DEF Here
    <3>4. q > 0 => currentDir' = PathOf(dirs[l])'
      <4>1. PathOf(dirs[l])' = PathOf(dirs[l])
        BY <1>2, <2>8
      <4> QED
        BY <1>1, <1>5, <2>7, <4>1 DEF Here
    <3> QED
      BY <2>9, <3>1, <3>2, <3>3, <3>4 DEF Here
  <2>11. i' \in Nat /\ stage' = "block"
    BY <1>1, <1>4, <1>7
  <2>12. \E k1 \in 1 .. Len(dirs') + 1, p1 \in Nat : Here(k1, p1)'
    BY <1>2, <2>10
  <2> QED
    BY <1>1, <1>2, <1>3, <1>4, <1>7, <2>11, <2>12 DEF Inside, Here
<1> QED
  BY <1>6, <1>7
\* The blocks taken for blocks of inodes hold all inodes when they are passed.
LEMMA InodesStep ==
  ASSUME TreeRight, ReadBlock, i \in Nat, i > 0 => ndinode = InodeCount, InodesRight
  PROVE  /\ ndinode' = InodeCount /\ inodes' \in 0 .. InodeCount
         /\ inodes = InodeCount => inodes' = InodeCount
         /\ \A c \in 0 .. OccupiedBlocks(InodeCount) :
              c < i + 1 => inodes' = InodeCount \/ inodes' >= PerBlock * c
<1> DEFINE all == InodeCount
           occupied == OccupiedBlocks(InodeCount)
           read == inodes + PerBlock
<1>1. all \in Nat /\ occupied \in Nat /\ PerBlock \in Nat
  BY TreeNumbers, LayoutNumbers
<1>2. ndinode' = all
  BY DEF ReadBlock, HeaderCount
<1>3. /\ inodes \in 0 .. all
      /\ \A c \in 0 .. occupied : c < i => inodes = all \/ inodes >= PerBlock * c
  BY DEF InodesRight
<1>4. inodes' = IF i >= 1 /\ i <= occupied
                  THEN IF read < all THEN read ELSE all
                  ELSE inodes
  BY <1>2 DEF ReadBlock, InodesRead
<1> HIDE DEF all, occupied
<1>5. inodes' \in 0 .. all /\ (inodes = all => inodes' = all) /\ inodes' >= inodes
  BY <1>1, <1>3, <1>4
<1>6. ASSUME NEW c \in 0 .. occupied, c < i + 1
      PROVE  inodes' = all \/ inodes' >= PerBlock * c
  <2>1. PerBlock * c \in Nat
    BY <1>1
  <2>2. CASE c < i
    <3>1. inodes = all \/ inodes >= PerBlock * c
      BY <1>3, <2>2
    <3> QED
      BY <1>1, <1>3, <1>5, <2>1, <3>1
  <2>3. CASE c = i /\ i = 0
    <3>1. PerBlock * c = 0
      BY <1>1, <2>3
    <3> QED
      BY <1>5, <3>1
  <2>4. CASE c = i /\ i # 0
    <3>1. i >= 1 /\ i <= occupied /\ c - 1 \in 0 .. occupied /\ c - 1 < i
      BY <1>1, <2>4
    <3>2. inodes = all \/ inodes >= PerBlock * (c - 1)
      BY <1>3, <3>1
    <3>3. PerBlock * c = PerBlock * (c - 1) + PerBlock /\ PerBlock * (c - 1) \in Nat
      BY <1>1, <3>1
    <3>4. inodes' = IF read < all THEN read ELSE all
      BY <1>4, <3>1
    <3> QED
      BY <1>1, <1>3, <1>5, <2>1, <3>2, <3>3, <3>4
  <2> QED
    BY <1>1, <1>6, <2>2, <2>3, <2>4
<1> QED
  BY <1>2, <1>5, <1>6 DEF all, occupied

\* Before the directories the walk passes one block after the other.
LEMMA OutsideStep ==
  ASSUME TreeRight, Outside, ReadBlock, ~inTree, i + 1 < FirstBlock[1]
  PROVE  ~inTree' /\ Outside'
<1>1. /\ UNCHANGED <<image, endReached, currentDir, made, fsTable>>
      /\ ndinode' = HeaderCount /\ inodes' = InodesRead /\ ReadSuperroot
      /\ inTree' = (inTree \/ StartsDirectory) /\ stage = "block"
      /\ ~inTree' => i' = i + 1 /\ UNCHANGED <<stage, j>>
  BY DEF ReadBlock
<1>2. FirstBlock[1] = Superroot + 2 /\ Superroot \in Nat /\ Superroot >= 3
  BY FirstBlockIs, LayoutNumbers
<1>3. i \in Nat /\ i + 1 \in 1 .. FirstBlock[1] - 1
  BY <1>2 DEF Outside
<1> DEFINE b == i + 1
<1>4. (blocks[b].kind = "superroot" <=> b = Superroot) /\ ~(Len(blocks[b].entries) >= 2)
  <2>1. b \in 1 .. FirstBlock[1] - 1
    BY <1>3
  <2> HIDE DEF b
  <2> QED
    BY <2>1, BlocksAre
<1>5. Current = blocks[b]
  BY DEF Current
<1>6. ~StartsDirectory
  BY <1>4, <1>5 DEF StartsDirectory
<1>7. inTree' = FALSE /\ i' = i + 1 /\ UNCHANGED <<stage, j>>
  <2>1. inTree' <=> (inTree \/ StartsDirectory)
    BY <1>1
  <2>2. inTree' = (inTree \/ StartsDirectory)
    BY <1>1
  <2>3. inTree' = FALSE
    BY <1>6, <2>2
  <2> QED
    BY <1>1, <2>3
<1>8. /\ Superroot' = Superroot /\ FirstBlock' = FirstBlock /\ InodeCount' = InodeCount
      /\ UNCHANGED <<uroot, nodes, kind>> /\ TruePath' = TruePath
  BY <1>1, ImageKept
<1>9. /\ InodesRight /\ (i > 0 => ndinode = InodeCount)
      /\ IF i < Superroot THEN counter = 0 /\ DOMAIN paths = {}
                          ELSE counter = uroot /\ PathsRight({})
      /\ currentDir = Root /\ made = {Root} /\ fsTable = <<>> /\ ~endReached
  BY DEF Outside
<1>10. /\ ndinode' = InodeCount /\ inodes' \in 0 .. InodeCount
       /\ \A c \in 0 .. OccupiedBlocks(InodeCount) :
            c < i + 1 => inodes' = InodeCount \/ inodes' >= PerBlock * c
  BY <1>3, <1>9, InodesStep
<1>11. InodesRight'
  BY <1>7, <1>8, <1>10 DEF InodesRight, OccupiedBlocks, PerBlock
<1>12. IF i' < Superroot THEN counter' = 0 /\ DOMAIN paths' = {}
                         ELSE counter' = uroot /\ PathsRight({})'
  <2>1. CASE b = Superroot
    <3>1. i < Superroot /\ ~(i' < Superroot)
      BY <1>2, <1>3, <1>7, <2>1
    <3>2. counter = 0 /\ DOMAIN paths = {} /\ uroot \in Nat
      BY <1>9, <3>1, TreeNumbers
    <3>3. counter' = counter + uroot /\ paths' = PathsWith(counter + uroot, Root)
      BY <1>1, <1>4, <1>5, <2>1 DEF ReadSuperroot
    <3>4. counter + uroot = uroot
      BY <3>2
    <3>5. DOMAIN paths' = {uroot} /\ paths'[uroot] = Root
      BY <3>2, <3>3, <3>4 DEF PathsWith
    <3>6. PathsRight({})'
      BY <1>8, <3>5 DEF PathsRight
    <3> QED
      BY <3>1, <3>3, <3>4, <3>6
  <2>2. CASE b # Superroot
    <3>1. i < Superroot <=> i' < Superroot
      BY <1>2, <1>3, <1>7, <2>2
    <3>2. UNCHANGED <<counter, paths>>
      BY <1>1, <1>4, <1>5, <2>2 DEF ReadSuperroot
    <3>3. PathsRight({})' <=> PathsRight({})
      BY <1>1, <3>2, LeftKept
    <3> QED
      BY <1>9, <3>1, <3>2, <3>3
  <2> QED
    BY <2>1, <2>2
<1>13. i' \in 0 .. FirstBlock[1] - 1
  BY <1>2, <1>3, <1>7
<1>14. stage' = "block" /\ ~endReached' /\ currentDir' = Root /\ made' = {Root} /\ fsTable' = <<>>
  BY <1>1, <1>7, <1>9
<1>15. i' > 0 => ndinode' = InodeCount'
  BY <1>8, <1>10
<1>16. IF i' < Superroot' THEN counter' = 0 /\ DOMAIN paths' = {}
                          ELSE counter' = uroot' /\ PathsRight({})'
  BY <1>8, <1>12
<1>17. i' \in 0 .. FirstBlock'[1] - 1
  BY <1>8, <1>13
<1> QED
  BY <1>7, <1>11, <1>14, <1>15, <1>16, <1>17 DEF Outside
\* With the first block of a directory the walk enters the tree.
LEMMA EnterTree ==
  ASSUME TreeRight, ImageRead, Outside, ReadBlock, ~inTree, i + 1 = FirstBlock[1]
  PROVE  inTree' /\ Inside'
<1>1. /\ UNCHANGED <<image, endReached, currentDir, made, fsTable>>
      /\ ndinode' = HeaderCount /\ inodes' = InodesRead /\ ReadSuperroot
      /\ inTree' = (inTree \/ StartsDirectory) /\ stage = "block"
      /\ inTree' => stage' = "entries" /\ j' = 1 /\ UNCHANGED i
  BY DEF ReadBlock
<1>2. /\ FirstBlock[1] = Superroot + 2 /\ Superroot \in Nat /\ Superroot >= 3
      /\ Superroot = BlocksOf(InodeCount) + 2 /\ BlocksOf(InodeCount) \in Nat
      /\ PerBlock * BlocksOf(InodeCount) >= InodeCount /\ InodeCount \in Nat
      /\ OccupiedBlocks(InodeCount) \in Nat
  BY FirstBlockIs, LayoutNumbers, TreeNumbers
<1>3. i \in Nat /\ i = BlocksOf(InodeCount) + 3 /\ ~(i < Superroot)
  BY <1>2 DEF Outside
<1>4. /\ InodesRight /\ (i > 0 => ndinode = InodeCount) /\ counter = uroot /\ PathsRight({})
      /\ currentDir = Root /\ made = {Root} /\ fsTable = <<>> /\ ~endReached
  BY <1>3 DEF Outside
<1>5. 1 \in 1 .. Len(dirs) /\ 1 \in 1 .. Len(dirs) + 1 /\ dirs[1] = uroot /\ Len(dirs) \in Nat
      /\ uroot \in Directories
  BY DirsAre, TreeParts
<1>6. PICK one \in Nat : one = 1
  OBVIOUS
<1>7. PICK z \in Nat : z = 0
  OBVIOUS
<1>8. PICK b \in Nat : b = i + 1
  BY <1>3
<1>9. PICK here : here = blocks[b].entries
  OBVIOUS
<1>10. Before(b, one, z)
  <2>1. FirstBlock[one] = b
    BY <1>6, <1>8
  <2>2. one \in 1 .. Len(dirs) + 1 /\ one + 1 \in 1 .. Len(dirs) + 1 /\ one < one + 1 /\ one <= Len(dirs)
    BY <1>5, <1>6
  <2>3. b < FirstBlock[one + 1]
    BY <2>1, <2>2, FirstBlockGrows
  <2>4. z = (b - FirstBlock[one]) * DirentsPerBlock
    <3>1. b - FirstBlock[one] = 0
      BY <1>8, <2>1
    <3>2. 0 * DirentsPerBlock = 0
      BY TwoFit
    <3> QED
      BY <1>7, <3>1, <3>2
  <2> QED
    <3>1. /\ FirstBlock[one] <= b
          /\ IF one <= Len(dirs) THEN b < FirstBlock[one + 1] ELSE b = FirstBlock[one]
      BY <2>1, <2>2, <2>3
    <3> QED
      BY <2>2, <2>4, <3>1, BeforeIs
<1>11. BlockIs(b, one, z, here)
  BY <1>5, <1>6, <1>9, <1>10, AtPlace
<1>12. Len(here) \in Nat /\ Len(here) >= 2 /\ \A m \in 1 .. Len(here) : here[m] = EntriesOf(uroot)[z + m]
  BY <1>5, <1>6, <1>7, <1>11 DEF BlockIs
<1>13. here[1] = EntriesOf(uroot)[1] /\ here[2] = EntriesOf(uroot)[2]
  <2>1. 1 \in 1 .. Len(here) /\ 2 \in 1 .. Len(here) /\ z + 1 = 1 /\ z + 2 = 2
    BY <1>7, <1>12
  <2> QED
    BY <1>12, <2>1
<1>14. here[1].type = SELF /\ here[2].type = UP
  <2>1. EntriesOf(uroot)[1] = Entry(uroot, SELF, ".") /\ EntriesOf(uroot)[2] = UpEntry(uroot)
    BY <1>5, EntriesAre
  <2> QED
    BY <1>13, <2>1 DEF Entry, UpEntry
<1>15. Current = blocks[b] /\ Current.entries = here
  BY <1>8, <1>9 DEF Current
<1>16. StartsDirectory
  BY <1>12, <1>14, <1>15 DEF StartsDirectory
<1>17. inTree' /\ stage' = "entries" /\ j' = 1 /\ UNCHANGED i
  <2>1. inTree' = (inTree \/ StartsDirectory)
    BY <1>1
  <2>2. inTree'
    BY <1>16, <2>1
  <2> QED
    BY <1>1, <2>2
<1>18. Current.kind # "superroot"
  <2>1. FirstBlock[one] <= b /\ b < FirstBlock[one + 1]
    <3>1. one <= Len(dirs)
      BY <1>5, <1>6
    <3> QED
      BY <1>10, <3>1 DEF Before
  <2>2. one \in 1 .. Len(dirs)
    BY <1>5, <1>6
  <2> QED
    BY <1>15, <2>1, <2>2, BlocksAre
<1>19. UNCHANGED <<counter, paths>>
  BY <1>1, <1>18 DEF ReadSuperroot
<1>20. /\ InodeCount' = InodeCount /\ UNCHANGED <<uroot, nodes, kind, dirs, odd, blocks>>
       /\ TruePath' = TruePath
  BY <1>1, ImageKept
<1>21. odd # {} => inodes' = InodeCount
  <2> SUFFICES ASSUME odd # {} PROVE inodes' = InodeCount
    OBVIOUS
  <2> DEFINE c == BlocksOf(InodeCount)
  <2>1. c \in 0 .. OccupiedBlocks(InodeCount) /\ c < i
    BY <1>2, <1>3 DEF ImageRead, InodesAllRead
  <2>5. PerBlock * c >= InodeCount /\ PerBlock * c \in Nat
    <3>1. PerBlock \in Nat
      BY LayoutNumbers
    <3> QED
      BY <1>2, <3>1
  <2> HIDE DEF c
  <2>2. inodes = InodeCount \/ inodes >= PerBlock * c
    BY <1>4, <2>1 DEF InodesRight
  <2>3. inodes \in 0 .. InodeCount
    BY <1>4 DEF InodesRight
  <2>4. inodes = InodeCount
    BY <1>2, <2>2, <2>3, <2>5
  <2> QED
    BY <1>3, <1>4, <2>4, InodesStep
<1>22. ndinode' = InodeCount
  BY <1>3, <1>4, InodesStep
<1>23. Seen(one, z) = {}
  BY <1>6, <1>7, SeenEnds
<1>24. Place(one, z)'
  <2>1. one <= Len(dirs) /\ 1 \in 1 .. Len(here) + 1 /\ z - (1 - 1) = z
    BY <1>5, <1>6, <1>7, <1>12
  <2>2. Before(b, one, z)'
    BY <1>1, <1>10, ImageKept
  <2>3. i' + 1 = b /\ Current' = Current
    BY <1>8, <1>17, <1>20 DEF Current
  <2>4. z - (j' - 1) = z
    BY <1>17, <2>1
  <2> QED
    BY <1>15, <1>17, <1>20, <2>1, <2>2, <2>3, <2>4 DEF Place
<1>25. Here(one, z)'
  <2>1. Seen(one, z)' = {}
    BY <1>1, <1>23, ImageKept
  <2>2. counter' = uroot' + Cardinality(Seen(one, z)')
    <3>1. uroot + 0 = uroot
      BY TreeNumbers
    <3> QED
      BY <1>4, <1>19, <1>20, <2>1, <3>1, FS_EmptySet
  <2>3. endReached' <=> (nodes' # {} /\ Seen(one, z)' = nodes')
    BY <1>1, <1>4, <2>1
  <2>4. PathsRight(Seen(one, z))'
    BY <1>1, <1>4, <1>19, <2>1, LeftKept
  <2>5. MadeRight(Seen(one, z))'
    BY <1>1, <1>4, <2>1 DEF MadeRight
  <2>6. TableRight(Seen(one, z))'
    <3>1. \A n : Listed(n)' = {}
      BY <1>1, <1>4 DEF Listed
    <3>2. fsTable' \in Seq([inode : Nat, type : Nat])
      BY <1>1, <1>4
    <3> QED
      BY <2>1, <3>1, <3>2 DEF TableRight
  <2>7. ~(z > 0)
    BY <1>7
  <2> QED
    BY <1>24, <2>2, <2>3, <2>4, <2>5, <2>6, <2>7 DEF Here
<1>26. \E k \in 1 .. Len(dirs') + 1, p \in Nat : Here(k, p)'
  BY <1>5, <1>6, <1>20, <1>25
<1> QED
  BY <1>3, <1>17, <1>20, <1>21, <1>22, <1>26 DEF Inside, Here

\* Among the directories every block is read for its entries.
LEMMA InsideReads ==
  ASSUME TreeRight, Inside, ReadBlock, inTree
  PROVE  inTree' /\ Inside'
<1>1. /\ UNCHANGED <<image, endReached, currentDir, made, fsTable>>
      /\ ndinode' = HeaderCount /\ inodes' = InodesRead /\ ReadSuperroot
      /\ inTree' = (inTree \/ StartsDirectory) /\ stage = "block" /\ i < Len(blocks)
      /\ inTree' => stage' = "entries" /\ j' = 1 /\ UNCHANGED i
  BY DEF ReadBlock
<1>2. inTree' /\ stage' = "entries" /\ j' = 1 /\ UNCHANGED i
  <2>1. inTree' = (inTree \/ StartsDirectory)
    BY <1>1
  <2>2. inTree'
    BY <2>1
  <2> QED
    BY <1>1, <2>2
<1>3. /\ i \in Nat /\ ndinode = InodeCount /\ (odd # {} => inodes = InodeCount)
      /\ \E k \in 1 .. Len(dirs) + 1, p \in Nat : Here(k, p)
      /\ ~endReached
  BY <1>1, InsideIs
<1>4. PICK k \in 1 .. Len(dirs) + 1, p \in Nat : Here(k, p)
  BY <1>3
<1>5. PICK b \in Nat : b = i + 1
  BY <1>3
<1>6. Before(b, k, p)
  BY <1>1, <1>4, <1>5 DEF Here, Place
<1>7. Len(dirs) \in Nat
  BY DirsAre
<1>8. k \in 1 .. Len(dirs)
  <2> SUFFICES ASSUME k = Len(dirs) + 1 PROVE FALSE
    BY <1>7
  <2>1. b = LastBlock + 1 /\ Seen(k, p) = nodes
    BY <1>6, BehindLast
  <2>2. LastBlock \in Nat /\ Len(blocks) = LastBlock + (IF HasFiles THEN 1 ELSE 0)
    BY BlocksAre
  <2>3. HasFiles
    BY <1>1, <1>3, <1>5, <2>1, <2>2
  <2>4. nodes # {}
    BY <2>3 DEF HasFiles
  <2> QED
    BY <1>3, <1>4, <2>1, <2>4 DEF Here
<1>9. PICK here : here = blocks[b].entries
  OBVIOUS
<1>10. BlockIs(b, k, p, here)
  BY <1>6, <1>8, <1>9, AtPlace
<1>11. Len(here) \in Nat /\ Current = blocks[b] /\ Current.entries = here
  BY <1>5, <1>9, <1>10 DEF BlockIs, Current
<1>12. Current.kind # "superroot"
  <2>1. FirstBlock[k] <= b /\ b < FirstBlock[k + 1]
    <3>1. k <= Len(dirs)
      BY <1>7, <1>8
    <3> QED
      BY <1>6, <3>1 DEF Before
  <2> QED
    BY <1>8, <1>11, <2>1, BlocksAre
<1>13. UNCHANGED <<counter, paths>>
  BY <1>1, <1>12 DEF ReadSuperroot
<1>14. /\ InodeCount' = InodeCount /\ UNCHANGED <<uroot, nodes, kind, dirs, odd, blocks>>
       /\ TruePath' = TruePath
  BY <1>1, ImageKept
<1>15. ndinode' = InodeCount
  BY <1>1, <1>3 DEF HeaderCount
<1>16. odd # {} => inodes' = InodeCount
  <2> SUFFICES ASSUME odd # {} PROVE inodes' = InodeCount
    OBVIOUS
  <2>1. inodes = InodeCount /\ InodeCount \in Nat /\ PerBlock \in Nat
    BY <1>3, TreeNumbers, LayoutNumbers
  <2>2. inodes' = InodeCount \/ inodes' = inodes
        \/ (inodes' = inodes + PerBlock /\ inodes + PerBlock < InodeCount)
    BY <1>1 DEF InodesRead
  <2> QED
    BY <2>1, <2>2
<1>17. Place(k, p)'
  <2>1. k <= Len(dirs) /\ 1 \in 1 .. Len(here) + 1 /\ p - (1 - 1) = p
    BY <1>7, <1>8, <1>11
  <2>2. Before(b, k, p)'
    BY <1>1, <1>6, ImageKept
  <2>3. i' + 1 = b /\ Current' = Current
    BY <1>2, <1>5, <1>14 DEF Current
  <2>4. p - (j' - 1) = p
    BY <1>2, <2>1
  <2> QED
    BY <1>2, <1>11, <1>14, <2>1, <2>2, <2>3, <2>4 DEF Place
<1>18. Here(k, p)'
  <2>1. Seen(k, p)' = Seen(k, p)
    BY <1>1, ImageKept
  <2>2. counter' = uroot' + Cardinality(Seen(k, p)')
    BY <1>4, <1>13, <1>14, <2>1 DEF Here
  <2>3. endReached' <=> (nodes' # {} /\ Seen(k, p)' = nodes')
    BY <1>1, <1>4, <1>14, <2>1 DEF Here
  <2>4. PathsRight(Seen(k, p))' /\ MadeRight(Seen(k, p))' /\ TableRight(Seen(k, p))'
    BY <1>1, <1>4, <1>13, <2>1, LeftKept DEF Here
  <2>5. p > 0 => currentDir' = PathOf(dirs[k])'
    <3>1. PathOf(dirs[k])' = PathOf(dirs[k])
      BY <1>1, <1>14, ImageKept
    <3> QED
      BY <1>1, <1>4, <3>1 DEF Here
  <2> QED
    BY <1>17, <2>2, <2>3, <2>4, <2>5 DEF Here
<1>19. \E k1 \in 1 .. Len(dirs') + 1, p1 \in Nat : Here(k1, p1)'
  BY <1>14, <1>18
<1> QED
  BY <1>2, <1>3, <1>14, <1>15, <1>16, <1>19 DEF Inside, Here

LEMMA ReadBlockKeeps ==
  ASSUME WalkInv, ReadBlock
  PROVE  WalkInv'
<1>1. UNCHANGED image /\ stage = "block"
  BY DEF ReadBlock
<1>2. TreeRight /\ TreeRight' /\ (ImageRead' <=> ImageRead)
  BY <1>1, ImageKept DEF WalkInv
<1> SUFFICES ASSUME ImageRead PROVE (~inTree' /\ Outside') \/ (inTree' /\ Inside')
  BY <1>2 DEF WalkInv
<1>3. (~inTree /\ Outside) \/ (inTree /\ Inside)
  BY <1>1 DEF WalkInv, Ended
<1>4. CASE ~inTree /\ Outside
  <2>1. i + 1 < FirstBlock[1] \/ i + 1 = FirstBlock[1]
    <3>1. FirstBlock[1] \in Nat
      BY <1>2, FirstBlockIs, LayoutNumbers
    <3> QED
      BY <1>4, <3>1 DEF Outside
  <2> QED
    BY <1>2, <1>4, <2>1, OutsideStep, EnterTree
<1>5. CASE inTree /\ Inside
  BY <1>2, <1>5, InsideReads
<1> QED
  BY <1>3, <1>4, <1>5
\* What an entry does, by its type.
LEMMA EntryCases ==
  ASSUME ReadEntry, NEW e, e = Current.entries[j], NEW type, type = Normalized(e)
  PROVE  /\ UNCHANGED <<image, i, ndinode, inodes, inTree>> /\ j' = j + 1
         /\ stage = "entries" /\ j <= Len(Current.entries)
         /\ type # ODD => fsTable' = Append(fsTable, [inode |-> e.ino, type |-> type])
         /\ type \in {SELF, UP} =>
              UNCHANGED <<made, stage, counter>> /\ (endReached' <=> endReached)
         /\ type = SELF => SelfPath(e)
         /\ type = UP => UNCHANGED <<paths, currentDir>>
         /\ type \in {FILE, DIR} =>
              ChildPath(e) /\ counter' = counter + 1 /\ (endReached' <=> endReached \/ LastNode(counter + 1))
         /\ type = FILE => UNCHANGED <<made, stage>>
         /\ type = DIR /\ currentDir \in made => made' = made \cup {paths'[e.ino]} /\ UNCHANGED stage
<1> DEFINE below == type \in {FILE, DIR}
<1>1. /\ UNCHANGED <<image, i, ndinode, inodes, inTree>> /\ j' = j + 1
      /\ stage = "entries" /\ j <= Len(Current.entries)
  BY DEF ReadEntry
<1>2. /\ fsTable' = IF type = ODD THEN fsTable
                    ELSE Append(fsTable, [inode |-> e.ino, type |-> type])
      /\ \/ type = SELF /\ SelfPath(e)
         \/ below /\ ChildPath(e)
         \/ type \in {UP, ODD} /\ UNCHANGED <<paths, currentDir>>
      /\ IF below /\ IsDirectory(e)
           THEN IF currentDir \in made THEN made' = made \cup {paths'[e.ino]} /\ UNCHANGED stage
                                       ELSE stage' = "noParent" /\ UNCHANGED made
           ELSE UNCHANGED <<made, stage>>
      /\ counter' = IF below THEN counter + 1 ELSE counter
      /\ endReached' = (endReached \/ (below /\ LastNode(counter + 1)))
  BY DEF ReadEntry
<1>3. IsDirectory(e) <=> type = DIR
  BY DEF IsDirectory
<1>4. type \in {SELF, UP} => ~below
  BY DEF SELF, UP, FILE, DIR
<1>5. /\ type = SELF => type \notin {UP, ODD}
      /\ type = UP => type # SELF
      /\ type \in {FILE, DIR} => type # SELF /\ type \notin {UP, ODD}
      /\ type = FILE => type # DIR
  BY DEF SELF, UP, FILE, DIR, ODD
<1>6. below <=> type \in {FILE, DIR}
  OBVIOUS
<1> HIDE DEF below
<1>7. endReached' <=> (endReached \/ (below /\ LastNode(counter + 1)))
  BY <1>2
<1>8. type # ODD => fsTable' = Append(fsTable, [inode |-> e.ino, type |-> type])
  BY <1>2
<1>9. type \in {SELF, UP} => UNCHANGED <<made, stage, counter>> /\ (endReached' <=> endReached)
  BY <1>2, <1>4, <1>7
<1>10. (type = SELF => SelfPath(e)) /\ (type = UP => UNCHANGED <<paths, currentDir>>)
  BY <1>2, <1>4, <1>5
<1>11. type \in {FILE, DIR} =>
         ChildPath(e) /\ counter' = counter + 1 /\ (endReached' <=> endReached \/ LastNode(counter + 1))
  BY <1>2, <1>5, <1>6, <1>7
<1>12. type = FILE => UNCHANGED <<made, stage>>
  BY <1>2, <1>3, <1>5
<1>13. type = DIR /\ currentDir \in made => made' = made \cup {paths'[e.ino]} /\ UNCHANGED stage
  BY <1>2, <1>3, <1>6
<1> QED
  BY <1>1, <1>8, <1>9, <1>10, <1>11, <1>12, <1>13

\* The table with one row more.
LEMMA TableGrows ==
  ASSUME UNCHANGED image, NEW S, TableRight(S), NEW n \in Nat, NEW type \in Nat,
         fsTable' = Append(fsTable, [inode |-> n, type |-> type])
  PROVE  /\ type \notin {FILE, DIR} => TableRight(S)'
         /\ n \in nodes /\ n \notin S /\ n > uroot /\ uroot \in Nat /\ type \in {FILE, DIR}
               /\ type = kind[n] => TableRight(S \cup {n})'
<1> DEFINE row == [inode |-> n, type |-> type]
           T == [inode : Nat, type : Nat]
           l == Len(fsTable)
<1>1. fsTable \in Seq(T) /\ row \in T
  BY DEF TableRight
<1> HIDE DEF T, row
<1>2. /\ fsTable' \in Seq(T) /\ l \in Nat /\ DOMAIN fsTable = 1 .. l /\ DOMAIN fsTable' = 1 .. l + 1
      /\ fsTable'[l + 1] = row /\ \A k \in 1 .. l : fsTable'[k] = fsTable[k]
  <2>1. fsTable' = Append(fsTable, row)
    BY DEF row
  <2> QED
    BY <1>1, <2>1
<1> HIDE DEF l
<1>3. row.inode = n /\ row.type = type
  BY DEF row
<1>4. ASSUME NEW m
      PROVE  Listed(m)' = Listed(m) \cup (IF m = n /\ type \in {FILE, DIR} THEN {l + 1} ELSE {})
  <2>1. Listed(m)' = {k \in 1 .. l + 1 : fsTable'[k].inode = m /\ fsTable'[k].type \in {FILE, DIR}}
    BY <1>2 DEF Listed
  <2>2. Listed(m) = {k \in 1 .. l : fsTable[k].inode = m /\ fsTable[k].type \in {FILE, DIR}}
    BY <1>2 DEF Listed
  <2>3. \A k : k \in 1 .. l + 1 <=> k \in 1 .. l \/ k = l + 1
    BY <1>2
  <2>4. l + 1 \notin 1 .. l
    BY <1>2
  <2> QED
    BY <1>2, <1>3, <2>1, <2>2, <2>3, <2>4
<1>5. UNCHANGED <<uroot, nodes, kind>>
  BY ImageKept
<1>6. /\ \A m \in nodes \ S : Listed(m) = {}
      /\ \A m \in 0 .. uroot : Listed(m) = {}
      /\ \A m \in S : \E k \in DOMAIN fsTable : Listed(m) = {k} /\ fsTable[k].type = kind[m]
  BY DEF TableRight
<1>7. ASSUME type \notin {FILE, DIR} PROVE TableRight(S)'
  <2>1. \A m : Listed(m)' = Listed(m)
    BY <1>4, <1>7
  <2>2. \A m \in S : \E k \in DOMAIN fsTable' : Listed(m) = {k} /\ fsTable'[k].type = kind[m]
    <3> SUFFICES ASSUME NEW m \in S
                 PROVE  \E k \in DOMAIN fsTable' : Listed(m) = {k} /\ fsTable'[k].type = kind[m]
      OBVIOUS
    <3>1. PICK k \in 1 .. l : Listed(m) = {k} /\ fsTable[k].type = kind[m]
      BY <1>2, <1>6
    <3>2. k \in 1 .. l + 1 /\ fsTable'[k] = fsTable[k]
      BY <1>2
    <3> QED
      BY <1>2, <3>1, <3>2
  <2>3. fsTable' \in Seq([inode : Nat, type : Nat])
    BY <1>2 DEF T
  <2> QED
    BY <1>5, <1>6, <2>1, <2>2, <2>3 DEF TableRight
<1>8. ASSUME n \in nodes, n \notin S, n > uroot, uroot \in Nat, type \in {FILE, DIR}, type = kind[n]
      PROVE  TableRight(S \cup {n})'
  <2>1. \A m : m # n => Listed(m)' = Listed(m)
    BY <1>4
  <2>2. Listed(n)' = {l + 1}
    BY <1>4, <1>6, <1>8
  <2>3. \A m \in S \cup {n} : \E k \in DOMAIN fsTable' : Listed(m)' = {k} /\ fsTable'[k].type = kind[m]
    <3> SUFFICES ASSUME NEW m \in S \cup {n}
                 PROVE  \E k \in DOMAIN fsTable' : Listed(m)' = {k} /\ fsTable'[k].type = kind[m]
      OBVIOUS
    <3>1. CASE m = n
      <4>1. l + 1 \in 1 .. l + 1 /\ fsTable'[l + 1].type = kind[m]
        BY <1>2, <1>3, <1>8, <3>1
      <4> QED
        BY <1>2, <2>2, <3>1, <4>1
    <3>2. CASE m # n
      <4>1. PICK k \in 1 .. l : Listed(m) = {k} /\ fsTable[k].type = kind[m]
        BY <1>2, <1>6, <3>2
      <4>2. k \in 1 .. l + 1 /\ fsTable'[k] = fsTable[k]
        BY <1>2
      <4> QED
        BY <1>2, <2>1, <3>2, <4>1, <4>2
    <3> QED
      BY <3>1, <3>2
  <2>4. \A m \in nodes \ (S \cup {n}) : Listed(m)' = {}
    BY <1>6, <2>1
  <2>5. \A m \in 0 .. uroot : Listed(m)' = {}
    BY <1>6, <1>8, <2>1
  <2>6. fsTable' \in Seq([inode : Nat, type : Nat])
    BY <1>2 DEF T
  <2> QED
    BY <1>5, <2>3, <2>4, <2>5, <2>6 DEF TableRight
<1> QED
  BY <1>7, <1>8
\* The entry the walk is at, and the place behind it.
LEMMA EntryAt ==
  ASSUME TreeRight, ReadEntry, i \in Nat,
         NEW k \in 1 .. Len(dirs) + 1, NEW p \in Nat, Place(k, p),
         NEW e, e = Current.entries[j]
  PROVE  /\ k \in 1 .. Len(dirs) /\ dirs[k] \in Directories
         /\ e = EntriesOf(dirs[k])[p + 1] /\ p + 1 <= ChildCount(dirs[k]) + 2
         /\ stage' = "entries" => \E q \in Nat : q = p + 1 /\ Place(k, q)'
<1>1. /\ UNCHANGED <<image, i>> /\ j' = j + 1 /\ stage = "entries" /\ j <= Len(Current.entries)
  BY DEF ReadEntry
<1>2. PICK p0 \in Nat : /\ k \in 1 .. Len(dirs) /\ Before(i + 1, k, p0) /\ p0 = p - (j - 1)
                        /\ j \in 1 .. Len(Current.entries) + 1
  BY <1>1, AmongEntries
<1>3. PICK b \in Nat : b = i + 1
  OBVIOUS
<1>4. PICK here : here = blocks[b].entries
  OBVIOUS
<1>5. Before(b, k, p0) /\ Current.entries = here
  BY <1>2, <1>3, <1>4 DEF Current
<1>6. BlockIs(b, k, p0, here)
  BY <1>2, <1>4, <1>5, AtPlace
<1>7. /\ dirs[k] \in Directories /\ Len(here) \in Nat
      /\ \A m \in 1 .. Len(here) : /\ here[m] = EntriesOf(dirs[k])[p0 + m]
                                   /\ p0 + m <= ChildCount(dirs[k]) + 2
  BY <1>6 DEF BlockIs
<1>8. j \in 1 .. Len(here) /\ p0 + j = p + 1
  BY <1>1, <1>2, <1>5, <1>7
<1>9. e = EntriesOf(dirs[k])[p + 1] /\ p + 1 <= ChildCount(dirs[k]) + 2
  BY <1>5, <1>7, <1>8
<1>10. ASSUME stage' = "entries" PROVE \E q \in Nat : q = p + 1 /\ Place(k, q)'
  <2>1. PICK q \in Nat : q = p + 1
    OBVIOUS
  <2>2. Before(b, k, p0)'
    BY <1>1, <1>5, ImageKept
  <2>3. UNCHANGED <<dirs, blocks>>
    BY <1>1, ImageKept
  <2>4. i' + 1 = b /\ Current' = Current
    BY <1>1, <1>3, <2>3 DEF Current
  <2>5. q - (j' - 1) = p0 /\ j' \in 1 .. Len(here) + 1
    BY <1>1, <1>2, <1>7, <1>8, <2>1
  <2>6. Len(dirs) \in Nat
    BY DirsAre
  <2>7. k <= Len(dirs)
    BY <1>2, <2>6
  <2>8. Place(k, q)'
    BY <1>5, <1>10, <2>2, <2>3, <2>4, <2>5, <2>7 DEF Place
  <2> QED
    BY <2>1, <2>8
<1> QED
  BY <1>2, <1>7, <1>9, <1>10

\* What holds behind the entry when it holds of the next place.
LEMMA EntryDone ==
  ASSUME TreeRight, Inside, inTree, ReadEntry, stage' = "entries",
         NEW k \in 1 .. Len(dirs), NEW q \in Nat, Here(k, q)'
  PROVE  inTree' /\ Inside'
<1>1. UNCHANGED <<image, i, ndinode, inodes, inTree>>
  BY DEF ReadEntry
<1>2. UNCHANGED <<odd, dirs>> /\ InodeCount' = InodeCount
  BY <1>1, ImageKept
<1>3. i \in Nat /\ ndinode = InodeCount /\ (odd # {} => inodes = InodeCount)
  BY DEF Inside
<1>4. k \in 1 .. Len(dirs') + 1
  BY <1>2, DirsAre
<1>5. \E k1 \in 1 .. Len(dirs') + 1, p1 \in Nat : Here(k1, p1)'
  BY <1>4
<1> QED
  BY <1>1, <1>2, <1>3, <1>5 DEF Inside, Here

\* The path of the directory that is read is known, and the directory made.
LEMMA DirectoryKnown ==
  ASSUME TreeRight, NEW k \in 1 .. Len(dirs), NEW p, PathsRight(Seen(k, p)), MadeRight(Seen(k, p))
  PROVE  /\ dirs[k] \in DOMAIN paths /\ paths[dirs[k]] = PathOf(dirs[k])
         /\ PathOf(dirs[k]) \in made
<1>1. CASE dirs[k] = uroot
  BY <1>1 DEF PathsRight, MadeRight, PathOf
<1>2. CASE dirs[k] # uroot /\ dirs[k] \in Seen(k, p) /\ kind[dirs[k]] = DIR
  BY <1>2 DEF PathsRight, MadeRight, PathOf
<1> QED
  BY <1>1, <1>2, SeenParent

\* ".": the directory becomes the current one.
LEMMA SelfKeeps ==
  ASSUME TreeRight, Inside, inTree, ReadEntry,
         NEW k \in 1 .. Len(dirs) + 1, NEW p \in Nat, Here(k, p), p = 0
  PROVE  inTree' /\ Inside'
<1>1. PICK e : e = Current.entries[j]
  OBVIOUS
<1>2. i \in Nat /\ Place(k, p) /\ stage = "entries"
  BY DEF Inside, Here, ReadEntry
<1>3. /\ k \in 1 .. Len(dirs) /\ dirs[k] \in Directories
      /\ e = EntriesOf(dirs[k])[p + 1]
      /\ stage' = "entries" => \E q \in Nat : q = p + 1 /\ Place(k, q)'
  BY <1>1, <1>2, EntryAt
<1>4. e = Entry(dirs[k], SELF, ".")
  <2>1. p + 1 = 1
    OBVIOUS
  <2> QED
    BY <1>3, <2>1, EntriesAre
<1>5. Normalized(e) = SELF /\ e.ino = dirs[k]
  BY <1>4 DEF Entry, Normalized, SELF, ODD
<1>6. PICK type : type = Normalized(e)
  OBVIOUS
<1>7. type = SELF /\ type # ODD /\ type \notin {FILE, DIR} /\ type \in Nat
  BY <1>5, <1>6 DEF SELF, ODD, FILE, DIR
<1>8. /\ UNCHANGED <<image, i, ndinode, inodes, inTree>>
      /\ fsTable' = Append(fsTable, [inode |-> e.ino, type |-> type])
      /\ UNCHANGED <<made, stage, counter>> /\ (endReached' <=> endReached) /\ SelfPath(e)
  BY <1>1, <1>6, <1>7, EntryCases
<1>9. PICK q \in Nat : q = p + 1 /\ Place(k, q)'
  BY <1>2, <1>3, <1>8
<1>10. Seen(k, q) = Seen(k, p)
  <2>1. p < 2
    OBVIOUS
  <2> QED
    BY <1>3, <1>9, <2>1, SeenSame
<1>11. /\ dirs[k] \in DOMAIN paths /\ paths[dirs[k]] = PathOf(dirs[k])
  BY <1>3, DirectoryKnown DEF Here
<1>12. currentDir' = PathOf(dirs[k]) /\ UNCHANGED paths
  BY <1>5, <1>8, <1>11 DEF SelfPath
<1>13. e.ino \in Nat
  BY <1>3, <1>5, TreeNumbers, TreeParts
<1>14. TableRight(Seen(k, p))'
  <2>1. TableRight(Seen(k, p))
    BY DEF Here
  <2>2. PICK S : S = Seen(k, p)
    OBVIOUS
  <2>3. TableRight(S)
    BY <2>1, <2>2
  <2>4. TableRight(S)'
    BY <1>7, <1>8, <1>13, <2>3, TableGrows
  <2>5. Seen(k, p)' = S
    BY <1>8, <2>2, ImageKept
  <2> QED
    BY <2>4, <2>5
<1>15. Here(k, q)'
  <2>1. Seen(k, q)' = Seen(k, p) /\ Seen(k, p)' = Seen(k, p)
        /\ UNCHANGED <<uroot, nodes, dirs>> /\ PathOf(dirs[k])' = PathOf(dirs[k])
    <3>1. Seen(k, q)' = Seen(k, q) /\ Seen(k, p)' = Seen(k, p) /\ UNCHANGED <<uroot, nodes, dirs>>
      BY <1>8, ImageKept
    <3>2. PathOf(dirs[k])' = PathOf(dirs[k])
      BY <1>8, <3>1, ImageKept
    <3> QED
      BY <1>10, <3>1, <3>2
  <2>2. counter' = uroot' + Cardinality(Seen(k, q)')
    BY <1>8, <2>1 DEF Here
  <2>3. endReached' <=> (nodes' # {} /\ Seen(k, q)' = nodes')
    BY <1>8, <2>1 DEF Here
  <2>4. PathsRight(Seen(k, q))' /\ MadeRight(Seen(k, q))'
    BY <1>8, <1>12, <2>1, LeftKept DEF Here
  <2>5. TableRight(Seen(k, q))'
    BY <1>14, <2>1
  <2>6. currentDir' = PathOf(dirs[k])'
    BY <1>12, <2>1
  <2> QED
    BY <1>9, <2>2, <2>3, <2>4, <2>5, <2>6 DEF Here
<1> QED
  BY <1>2, <1>3, <1>8, <1>15, EntryDone

\* "..": nothing but a row of the table.
LEMMA UpKeeps ==
  ASSUME TreeRight, Inside, inTree, ReadEntry,
         NEW k \in 1 .. Len(dirs) + 1, NEW p \in Nat, Here(k, p), p = 1
  PROVE  inTree' /\ Inside'
<1>1. PICK e : e = Current.entries[j]
  OBVIOUS
<1>2. i \in Nat /\ Place(k, p) /\ stage = "entries"
  BY DEF Inside, Here, ReadEntry
<1>3. /\ k \in 1 .. Len(dirs) /\ dirs[k] \in Directories
      /\ e = EntriesOf(dirs[k])[p + 1]
      /\ stage' = "entries" => \E q \in Nat : q = p + 1 /\ Place(k, q)'
  BY <1>1, <1>2, EntryAt
<1>4. e = UpEntry(dirs[k])
  <2>1. p + 1 = 2
    OBVIOUS
  <2> QED
    BY <1>3, <2>1, EntriesAre
<1>5. Normalized(e) = UP /\ e.ino = IF dirs[k] = uroot THEN dirs[k] ELSE parent[dirs[k]]
  BY <1>4 DEF UpEntry, Entry, Normalized, UP, ODD
<1>6. PICK type : type = Normalized(e)
  OBVIOUS
<1>7. type = UP /\ type # ODD /\ type \notin {FILE, DIR} /\ type \in Nat
  BY <1>5, <1>6 DEF UP, ODD, FILE, DIR
<1>8. /\ UNCHANGED <<image, i, ndinode, inodes, inTree>>
      /\ fsTable' = Append(fsTable, [inode |-> e.ino, type |-> type])
      /\ UNCHANGED <<made, stage, counter, paths, currentDir>> /\ (endReached' <=> endReached)
  BY <1>1, <1>6, <1>7, EntryCases
<1>9. PICK q \in Nat : q = p + 1 /\ Place(k, q)'
  BY <1>2, <1>3, <1>8
<1>10. Seen(k, q) = Seen(k, p)
  <2>1. p < 2
    OBVIOUS
  <2> QED
    BY <1>3, <1>9, <2>1, SeenSame
<1>11. e.ino \in Nat
  BY <1>3, <1>5, TreeNumbers, TreeParts
<1>12. TableRight(Seen(k, p))'
  <2>1. TableRight(Seen(k, p))
    BY DEF Here
  <2>2. PICK S : S = Seen(k, p)
    OBVIOUS
  <2>3. TableRight(S)
    BY <2>1, <2>2
  <2>4. TableRight(S)'
    BY <1>7, <1>8, <1>11, <2>3, TableGrows
  <2>5. Seen(k, p)' = S
    BY <1>8, <2>2, ImageKept
  <2> QED
    BY <2>4, <2>5
<1>13. Here(k, q)'
  <2>1. Seen(k, q)' = Seen(k, p) /\ Seen(k, p)' = Seen(k, p)
        /\ UNCHANGED <<uroot, nodes, dirs>> /\ PathOf(dirs[k])' = PathOf(dirs[k])
    <3>1. Seen(k, q)' = Seen(k, q) /\ Seen(k, p)' = Seen(k, p) /\ UNCHANGED <<uroot, nodes, dirs>>
      BY <1>8, ImageKept
    <3>2. PathOf(dirs[k])' = PathOf(dirs[k])
      BY <1>8, <3>1, ImageKept
    <3> QED
      BY <1>10, <3>1, <3>2
  <2>2. counter' = uroot' + Cardinality(Seen(k, q)')
    BY <1>8, <2>1 DEF Here
  <2>3. endReached' <=> (nodes' # {} /\ Seen(k, q)' = nodes')
    BY <1>8, <2>1 DEF Here
  <2>4. PathsRight(Seen(k, q))' /\ MadeRight(Seen(k, q))'
    BY <1>8, <2>1, LeftKept DEF Here
  <2>5. TableRight(Seen(k, q))'
    BY <1>12, <2>1
  <2>6. currentDir' = PathOf(dirs[k])'
    BY <1>8, <2>1 DEF Here
  <2> QED
    BY <1>9, <2>2, <2>3, <2>4, <2>5, <2>6 DEF Here
<1> QED
  BY <1>2, <1>3, <1>8, <1>13, EntryDone
\* A file or directory: one row, one path, and perhaps one directory more.
LEMMA ChildKeeps ==
  ASSUME TreeRight, Inside, inTree, ReadEntry,
         NEW k \in 1 .. Len(dirs) + 1, NEW p \in Nat, Here(k, p), p >= 2
  PROVE  inTree' /\ Inside'
<1>1. PICK e : e = Current.entries[j]
  OBVIOUS
<1>2. i \in Nat /\ Place(k, p) /\ stage = "entries"
  BY DEF Inside, Here, ReadEntry
<1>3. /\ k \in 1 .. Len(dirs) /\ dirs[k] \in Directories
      /\ e = EntriesOf(dirs[k])[p + 1] /\ p + 1 <= ChildCount(dirs[k]) + 2
      /\ stage' = "entries" => \E q \in Nat : q = p + 1 /\ Place(k, q)'
  BY <1>1, <1>2, EntryAt
<1>4. PICK c \in Nat : c = p - 1
  BY <1>3
<1>5. c \in 1 .. ChildCount(dirs[k]) /\ p + 1 = c + 2 /\ p = c + 1
  BY <1>3, <1>4, ChildrenListed
<1>6. PICK n : n = children[dirs[k]][c]
  OBVIOUS
<1>7. e = EntryOf(n)
  BY <1>3, <1>5, <1>6, EntriesAre
<1>8. /\ n \in nodes /\ parent[n] = dirs[k] /\ n \notin Seen(k, p)
      /\ Seen(k, c + 1 + 1) = Seen(k, p) \cup {n}
  BY <1>3, <1>5, <1>6, SeenNext
<1>9. n \in Nat /\ n > uroot /\ n < InodeCount /\ uroot \in Nat /\ kind[n] \in {FILE, DIR}
  BY <1>8, TreeNumbers, TreeParts
<1>10. Normalized(e) = kind[n] /\ e.ino = n /\ e.name = name[n]
  <2>1. e = Entry(n, IF n \in odd THEN ODD ELSE kind[n], name[n])
    BY <1>7 DEF EntryOf
  <2>2. e.ino = n /\ e.name = name[n] /\ e.type = IF n \in odd THEN ODD ELSE kind[n]
    BY <2>1 DEF Entry
  <2>3. kind[n] # ODD
    BY <1>9 DEF FILE, DIR, ODD
  <2>4. ModeOf(n) = kind[n]
    BY <1>8 DEF ModeOf
  <2>5. n \in odd => n < inodes
    BY <1>9 DEF Inside
  <2> QED
    BY <2>2, <2>3, <2>4, <2>5 DEF Normalized
<1>11. PICK type : type = Normalized(e)
  OBVIOUS
<1>12. type = kind[n] /\ type \in {FILE, DIR} /\ type # ODD /\ type \in Nat
  BY <1>9, <1>10, <1>11 DEF FILE, DIR, ODD
<1>13. /\ UNCHANGED <<image, i, ndinode, inodes, inTree>>
       /\ fsTable' = Append(fsTable, [inode |-> e.ino, type |-> type])
       /\ ChildPath(e) /\ counter' = counter + 1 /\ (endReached' <=> endReached \/ LastNode(counter + 1))
       /\ type = FILE => UNCHANGED <<made, stage>>
       /\ type = DIR /\ currentDir \in made => made' = made \cup {paths'[e.ino]} /\ UNCHANGED stage
  BY <1>1, <1>11, <1>12, EntryCases
<1>14. /\ counter = uroot + Cardinality(Seen(k, p))
       /\ endReached <=> (nodes # {} /\ Seen(k, p) = nodes)
       /\ PathsRight(Seen(k, p)) /\ MadeRight(Seen(k, p)) /\ TableRight(Seen(k, p))
       /\ currentDir = PathOf(dirs[k])
  BY DEF Here
<1>15. currentDir \in made
  BY <1>3, <1>14, DirectoryKnown
<1>16. stage' = "entries" /\ (type = DIR => made' = made \cup {paths'[n]}) /\ made \subseteq made'
  BY <1>2, <1>10, <1>12, <1>13, <1>15
<1>17. PICK q \in Nat : q = p + 1 /\ Place(k, q)'
  BY <1>3, <1>16
<1>18. Seen(k, q) = Seen(k, p) \cup {n}
  <2>1. q = c + 1 + 1
    BY <1>5, <1>17
  <2> QED
    BY <1>8, <2>1
<1>19. PICK S : S = Seen(k, p)
  OBVIOUS
<1>20. S \subseteq nodes /\ n \notin S /\ S \cup {n} = Seen(k, q) /\ S \cup {n} \subseteq nodes
  BY <1>8, <1>18, <1>19, SeenInTree
<1>21. TruePath[n] = Append(currentDir, Sanitized[name[n]])
  BY <1>8, <1>14, TruePathIs
<1>22. /\ DOMAIN paths' = {uroot} \cup (S \cup {n}) /\ paths'[uroot] = Root
       /\ \A m \in S \cup {n} : paths'[m] = TruePath[m]
  <2>1. paths' = [m \in DOMAIN paths \cup {n} |-> IF m = n THEN TruePath[n] ELSE paths[m]]
    BY <1>10, <1>13, <1>21 DEF ChildPath, PathsWith
  <2>2. /\ DOMAIN paths = {uroot} \cup S /\ paths[uroot] = Root
        /\ \A m \in S : paths[m] = TruePath[m]
    BY <1>14, <1>19 DEF PathsRight
  <2>3. uroot # n
    BY <1>9
  <2>4. DOMAIN paths' = {uroot} \cup (S \cup {n})
    BY <2>1, <2>2
  <2>5. \A m \in {uroot} \cup (S \cup {n}) : paths'[m] = IF m = n THEN TruePath[n] ELSE paths[m]
    BY <2>1, <2>2
  <2>6. paths'[uroot] = Root
    BY <2>2, <2>3, <2>5
  <2>7. \A m \in S \cup {n} : paths'[m] = TruePath[m]
    BY <2>2, <2>5
  <2> QED
    BY <2>4, <2>6, <2>7
<1>23. /\ TruePath' = TruePath /\ InodeCount' = InodeCount /\ UNCHANGED <<uroot, nodes, kind, dirs>>
       /\ Seen(k, q)' = S \cup {n} /\ Seen(k, p)' = S
  <2>1. TruePath' = TruePath /\ InodeCount' = InodeCount /\ UNCHANGED <<uroot, nodes, kind, dirs>>
    BY <1>13, ImageKept
  <2>2. Seen(k, q)' = Seen(k, q) /\ Seen(k, p)' = Seen(k, p)
    BY <1>13, ImageKept
  <2> QED
    BY <1>19, <1>20, <2>1, <2>2
<1>24. PathsRight(Seen(k, q))'
  BY <1>22, <1>23 DEF PathsRight
<1>25. MadeRight(Seen(k, q))'
  <2>1. Root \in made /\ \A m \in S : kind[m] = DIR => TruePath[m] \in made
    BY <1>14, <1>19 DEF MadeRight
  <2>2. kind[n] = DIR => TruePath[n] \in made'
    BY <1>12, <1>16, <1>22
  <2> QED
    BY <1>16, <1>23, <2>1, <2>2 DEF MadeRight
<1>26. TableRight(Seen(k, q))'
  <2>1. TableRight(S)
    BY <1>14, <1>19
  <2>2. fsTable' = Append(fsTable, [inode |-> n, type |-> type]) /\ UNCHANGED image
    BY <1>10, <1>13
  <2>3. TableRight(S \cup {n})'
    BY <1>8, <1>9, <1>12, <1>20, <2>1, <2>2, TableGrows
  <2> QED
    BY <1>23, <2>3
<1>27. /\ IsFiniteSet(S) /\ Cardinality(S) \in Nat /\ Cardinality(nodes) \in Nat
       /\ Cardinality(S \cup {n}) = Cardinality(S) + 1
       /\ Cardinality(S \cup {n}) = Cardinality(nodes) => S \cup {n} = nodes
  <2>1. /\ IsFiniteSet(S) /\ Cardinality(S) \in Nat /\ Cardinality(nodes) \in Nat
        /\ Cardinality(S \cup {n}) = Cardinality(nodes) => S \cup {n} = nodes
    BY <1>20, TreeNumbers
  <2> QED
    BY <1>20, <2>1, FS_AddElement
<1>28. counter' = uroot' + Cardinality(Seen(k, q)')
  <2>1. counter = uroot + Cardinality(S) /\ counter' = counter + 1
    BY <1>13, <1>14, <1>19
  <2> QED
    BY <1>9, <1>23, <1>27, <2>1
<1>29. endReached' <=> (nodes' # {} /\ Seen(k, q)' = nodes')
  <2>1. ~endReached
    BY <1>8, <1>14
  <2>2. LastNode(counter + 1) <=> counter + 1 + 1 = InodeCount
    BY DEF LastNode, Inside
  <2>3. InodeCount = Cardinality(nodes) + uroot + 1
    BY TreeNumbers
  <2>4. counter + 1 = uroot + Cardinality(S \cup {n})
    BY <1>9, <1>14, <1>19, <1>27
  <2>5. counter + 1 + 1 = InodeCount <=> Cardinality(S \cup {n}) = Cardinality(nodes)
    BY <1>9, <1>27, <2>3, <2>4
  <2>6. LastNode(counter + 1) <=> S \cup {n} = nodes
    BY <1>27, <2>2, <2>5
  <2>7. nodes # {}
    BY <1>8
  <2> QED
    BY <1>13, <1>23, <2>1, <2>6, <2>7
<1>30. currentDir' = PathOf(dirs[k])'
  <2>1. PathOf(dirs[k])' = PathOf(dirs[k])
    BY <1>13, <1>23, ImageKept
  <2>2. currentDir' = currentDir
    BY <1>13 DEF ChildPath
  <2> QED
    BY <1>14, <2>1, <2>2
<1>31. Here(k, q)'
  BY <1>17, <1>24, <1>25, <1>26, <1>28, <1>29, <1>30 DEF Here
<1> QED
  BY <1>3, <1>16, <1>31, EntryDone

LEMMA ReadEntryKeeps ==
  ASSUME WalkInv, ReadEntry
  PROVE  WalkInv'
<1>1. UNCHANGED image /\ stage = "entries"
  BY DEF ReadEntry
<1>2. TreeRight /\ TreeRight' /\ (ImageRead' <=> ImageRead)
  BY <1>1, ImageKept DEF WalkInv
<1> SUFFICES ASSUME ImageRead PROVE inTree' /\ Inside'
  BY <1>2 DEF WalkInv
<1>3. inTree /\ Inside
  BY <1>1 DEF WalkInv, Outside, Ended
<1>4. PICK k \in 1 .. Len(dirs) + 1, p \in Nat : Here(k, p)
  BY <1>3, InsideIs
<1>5. p = 0 \/ p = 1 \/ p >= 2
  OBVIOUS
<1> QED
  BY <1>2, <1>3, <1>4, <1>5, SelfKeeps, UpKeeps, ChildKeeps

\* Every step keeps the invariant.
THEOREM WalkInvariant == Spec => []WalkInv
<1>1. Init => WalkInv
  BY InitWalk
<1>2. WalkInv /\ [Next]_vars => WalkInv'
  <2> SUFFICES ASSUME WalkInv, [Next]_vars PROVE WalkInv'
    OBVIOUS
  <2>1. CASE BlockThrows
    BY <2>1, ThrowKeeps
  <2>2. CASE ReadBlock
    BY <2>2, ReadBlockKeeps
  <2>3. CASE ReadEntry
    BY <2>3, ReadEntryKeeps
  <2>4. CASE EndBlock
    BY <2>4, EndBlockKeeps
  <2>5. CASE EndBlocks
    BY <2>5, EndBlocksKeeps
  <2>6. CASE Count
    BY <2>6, CountKeeps
  <2>7. CASE UNCHANGED vars
    <3>1. UNCHANGED image /\ UNCHANGED <<stage, i, j, ndinode, inodes, counter, inTree, endReached,
                                         currentDir, fsTable, paths, made>>
      BY <2>7 DEF vars, walk
    <3>2. /\ UNCHANGED <<nodes, kind, uroot, odd, dirs, blocks>> /\ TruePath' = TruePath
          /\ InodeCount' = InodeCount /\ FirstBlock' = FirstBlock /\ Superroot' = Superroot
          /\ (HasFiles' <=> HasFiles) /\ (TreeRight' <=> TreeRight)
          /\ (ImageRead' <=> ImageRead)
          /\ \A k, p : Seen(k, p)' = Seen(k, p)
          /\ \A b, k, p : Before(b, k, p)' <=> Before(b, k, p)
          /\ \A d : PathOf(d)' = PathOf(d)
      BY <3>1, ImageKept
    <3>3. \A S : /\ PathsRight(S)' <=> PathsRight(S)
                 /\ MadeRight(S)' <=> MadeRight(S)
                 /\ TableRight(S)' <=> TableRight(S)
      BY <3>1, LeftKept
    <3> QED
      BY <3>1, <3>2, <3>3
         DEF WalkInv, Ended, Outside, Inside, Place, Current, InodesRight, OccupiedBlocks, PerBlock
  <2> QED
    BY <2>1, <2>2, <2>3, <2>4, <2>5, <2>6, <2>7 DEF Next
<1> QED
  BY <1>1, <1>2, PTL DEF Spec
(***************************************************************************)
(* What it shows.                                                           *)
(***************************************************************************)
\* When the directories have been read, all of the tree has been seen.
LEMMA ThroughIs ==
  ASSUME WalkInv, ImageRead, Through, stage # "count"
  PROVE  PathsRight(nodes) /\ MadeRight(nodes) /\ TableRight(nodes)
<1>1. stage = "block" /\ i = LastBlock
  BY DEF Through
<1>2. TreeRight /\ LastBlock \in Nat /\ FirstBlock[1] <= LastBlock /\ FirstBlock[1] \in Nat
  <2>1. TreeRight
    BY DEF WalkInv
  <2>2. LastBlock \in Nat /\ FirstBlock[1] <= LastBlock /\ FirstBlock[1] = Superroot + 2
    BY <2>1, BlocksAre
  <2>3. Superroot \in Nat
    BY <2>1, LayoutNumbers
  <2> QED
    BY <2>1, <2>2, <2>3
<1>3. ~Outside
  <2>1. i \notin 0 .. FirstBlock[1] - 1
    BY <1>1, <1>2
  <2> QED
    BY <2>1 DEF Outside
<1>4. Inside
  BY <1>1, <1>3 DEF WalkInv, Ended
<1>5. PICK k \in 1 .. Len(dirs) + 1, p \in Nat : Here(k, p)
  BY <1>4, InsideIs
<1>6. PICK b \in Nat : b = i + 1
  BY <1>1, <1>2
<1>7. Before(b, k, p)
  BY <1>1, <1>5, <1>6 DEF Here, Place
<1>8. Seen(k, p) = nodes
  BY <1>1, <1>2, <1>6, <1>7, BehindLast
<1> QED
  BY <1>5, <1>8 DEF Here

\* Whatever the tree, the order of its directories and entries and the size of
\* the blocks: when the walk returns, every file and directory has the path its
\* place in the tree gives it, and every directory is made, its parent first.
\* Where some entries have no type of their own, the inodes that tell it must
\* have been read.
THEOREM PathsAreRight == Spec => [](ImageRead => PathsMatchTree)
<1>1. WalkInv => (ImageRead => PathsMatchTree)
  <2> SUFFICES ASSUME WalkInv, ImageRead PROVE PathsMatchTree
    OBVIOUS
  <2>1. stage = "thrown" \/ Ended \/ Outside \/ Inside
    BY DEF WalkInv
  <2>2. CASE Ended
    <3>1. \A n \in nodes : RightPlace(n)
      BY <2>2 DEF Ended, MadeRight, RightPlace
    <3> QED
      BY <2>2, <3>1 DEF Ended, PathsMatchTree
  <2>3. CASE stage = "thrown" \/ Outside \/ Inside
    <3>1. stage \in {"thrown", "block", "entries"}
      BY <2>3 DEF Outside, Inside
    <3>2. Through => \A n \in nodes : RightPlace(n)
      <4> SUFFICES ASSUME Through PROVE \A n \in nodes : RightPlace(n)
        OBVIOUS
      <4>1. PathsRight(nodes) /\ MadeRight(nodes)
        BY <3>1, ThroughIs
      <4> QED
        BY <4>1 DEF PathsRight, MadeRight, RightPlace
    <3> QED
      BY <3>1, <3>2 DEF PathsMatchTree
  <2> QED
    BY <2>1, <2>2, <2>3
<1> QED
  BY <1>1, WalkInvariant, PTL

\* And then every file and directory is listed once under its type, and nothing
\* else is, however much the contents of a file look like entries.
THEOREM TableListsTheTree == Spec => [](ImageRead => ListsTheTree)
<1>1. WalkInv => (ImageRead => ListsTheTree)
  <2> SUFFICES ASSUME WalkInv, ImageRead PROVE ListsTheTree
    OBVIOUS
  <2>1. TableRight(nodes) => /\ \A n \in nodes : ListedOnce(n)
                             /\ \A n \in 0 .. uroot : Listed(n) = {}
    BY DEF TableRight, ListedOnce
  <2>2. (stage = "listed" /\ HasFiles) \/ stage = "count" => TableRight(nodes)
    <3> SUFFICES ASSUME (stage = "listed" /\ HasFiles) \/ stage = "count" PROVE TableRight(nodes)
      OBVIOUS
    <3>1. Ended
      BY DEF WalkInv, Outside, Inside
    <3> QED
      BY <3>1 DEF Ended
  <2>3. Through /\ stage # "count" => TableRight(nodes)
    BY ThroughIs
  <2> QED
    BY <2>1, <2>2, <2>3 DEF ListsTheTree
<1> QED
  BY <1>1, WalkInvariant, PTL

\* How many inodes there are, and how many of them a directory has below it.
LEMMA NodesBounded ==
  ASSUME TreeRight
  PROVE  /\ InodeCount \in Nat /\ InodeCount <= MaxNodes + 4
         /\ \A d \in Directories : ChildCount(d) \in Nat /\ ChildCount(d) <= MaxNodes
<1>1. PICK count \in 0 .. MaxNodes : nodes = uroot + 1 .. uroot + count
  BY DEF TreeRight
<1>2. uroot \in Nat /\ uroot <= 3 /\ MaxNodes \in Nat
  BY TreeNumbers, MetadataAssumption
<1>3. Cardinality(nodes) = count
  BY <1>1, <1>2, FS_Interval
<1>4. InodeCount \in Nat /\ InodeCount <= MaxNodes + 4
  BY <1>1, <1>2, <1>3, TreeNumbers
<1>5. ASSUME NEW d \in Directories PROVE ChildCount(d) \in Nat /\ ChildCount(d) <= MaxNodes
  <2>1. ChildrenOf(d) \subseteq nodes /\ IsFiniteSet(nodes)
    BY TreeNumbers DEF ChildrenOf
  <2>2. ChildCount(d) \in Nat /\ ChildCount(d) <= Cardinality(nodes)
    BY <2>1, FS_Subset, FS_CardinalityType DEF ChildCount
  <2> QED
    BY <1>1, <1>2, <1>3, <2>2
<1> QED
  BY <1>4, <1>5

\* With the sizes of the format, 390 inodes in a block of 0x10000 bytes, up to
\* 4290 inodes are always all read; with one more the last may be missed.
THEOREM FewInodesAllRead ==
  ASSUME BlockSize = 65536, InodeSize = 168, TreeRight, InodeCount <= 4290
  PROVE  InodesAllRead
<1> DEFINE n == InodeCount
           b == BlocksOf(n)
           m == n * InodeSize
<1>1. n \in Nat /\ n >= 1 /\ n <= 4290
  BY TreeNumbers
<1>2. PerBlock = 390
  BY DEF PerBlock
<1> HIDE DEF n
<1>3. b = (n + 389) \div 390
  BY <1>1, <1>2 DEF BlocksOf
<1>4. b \in Nat /\ (b - 1) * 390 < n /\ b <= 11
  BY <1>1, <1>3
<1>5. m = 168 * n /\ m \in Nat
  BY <1>1
<1>6. m > (b - 1) * 65536
  BY <1>1, <1>4, <1>5
<1> HIDE DEF b, m
<1>7. OccupiedBlocks(n) = m \div 65536 + (IF m % 65536 # 0 THEN 1 ELSE 0)
  BY DEF OccupiedBlocks, m
<1>8. OccupiedBlocks(n) >= b
  <2>1. PICK d \in Nat \ {0} : d = 65536
    OBVIOUS
  <2>2. m > (b - 1) * d
    BY <1>6, <2>1
  <2>3. m \div d + (IF m % d # 0 THEN 1 ELSE 0) >= b
    BY <1>4, <1>5, <2>2, RoundedUpBound
  <2> QED
    BY <1>7, <2>1, <2>3
<1> QED
  BY <1>4, <1>8 DEF InodesAllRead, n, b

\* For the sizes of the format the inodes need no hypothesis: trees of up to 4286
\* files and directories, in any order and with any types left to the inodes, are
\* walked rightly where no directory has an entry in the last 528 bytes of a block.
THEOREM PackagesAreRight ==
  ASSUME BlockSize = 65536, InodeSize = 168, MaxNodes <= 4286
  PROVE  Spec => [](NoneSkipped => PathsMatchTree /\ ListsTheTree)
<1>1. WalkInv => InodesAllRead
  <2> SUFFICES ASSUME WalkInv PROVE InodesAllRead
    OBVIOUS
  <2>1. TreeRight
    BY DEF WalkInv
  <2>2. InodeCount <= 4290
    BY <2>1, NodesBounded, MetadataAssumption
  <2> QED
    BY <2>1, <2>2, FewInodesAllRead
<1>2. InodesAllRead /\ NoneSkipped => ImageRead
  BY DEF ImageRead
<1> QED
  BY <1>1, <1>2, WalkInvariant, PathsAreRight, TableListsTheTree, PTL

\* A tree of up to 122 files and directories has no such entry, whatever the sizes
\* of its entries: it is walked rightly.
THEOREM SmallPackagesAreRight ==
  ASSUME BlockSize = 65536, InodeSize = 168, DirentSize = 528, MaxNodes <= 122
  PROVE  Spec => [](PathsMatchTree /\ ListsTheTree)
<1>1. WalkInv => NoneSkipped
  <2> SUFFICES ASSUME WalkInv, NEW d \in Directories, NEW q \in 0 .. Parts(d) - 1
               PROVE  InTime(Len(Part(d, q)))
    BY DEF NoneSkipped
  <2>1. TreeRight
    BY DEF WalkInv
  <2> DEFINE n == Len(Part(d, q))
  <2> HIDE DEF n
  <2>3. n \in Nat /\ n <= 124
    <3>1. /\ ChildCount(d) \in Nat /\ ChildCount(d) <= 122
      BY <2>1, NodesBounded, MetadataAssumption
    <3>2. Len(EntriesOf(d)) = ChildCount(d) + 2
      BY <2>1, EntriesAre
    <3>3. /\ q * DirentsPerBlock \in Nat
          /\ q * DirentsPerBlock < Len(EntriesOf(d))
          /\ n = IF (q + 1) * DirentsPerBlock < Len(EntriesOf(d))
                   THEN DirentsPerBlock ELSE Len(EntriesOf(d)) - q * DirentsPerBlock
      BY <2>1, PartsAre DEF n
    <3>4. PICK z \in Nat : z = q * DirentsPerBlock
      BY <3>3
    <3>5. DirentsPerBlock \in Nat
      BY <2>1, TwoFit
    <3>6. (q + 1) * DirentsPerBlock = z + DirentsPerBlock
      <4>1. PICK m \in Nat : m = DirentsPerBlock
        BY <3>5
      <4>2. (q + 1) * m = q * m + m
        <5>1. q \in Nat
          OBVIOUS
        <5> QED
          BY <5>1
      <4> QED
        BY <3>4, <4>1, <4>2
    <3> QED
      BY <3>1, <3>2, <3>3, <3>4, <3>5, <3>6
  <2>4. PICK s \in Nat : s = entSize /\ s <= 528
    BY <2>1, TwoFit, MetadataAssumption DEF TreeRight
  <2>5. (n - 1) * s + 528 <= 65536
    <3>1. CASE n = 0
      BY <2>4, <3>1
    <3>2. CASE n > 0
      <4>1. PICK m \in Nat : m = n - 1 /\ m <= 123
        BY <2>3, <3>2
      <4>2. /\ m * s \in Nat /\ 123 * s \in Nat /\ m * s <= 123 * s
        <5>1. PICK c \in Nat : c = 123
          OBVIOUS
        <5>2. m * s \in Nat /\ c * s \in Nat /\ m * s <= c * s
          BY <4>1, <5>1, ProductGrows
        <5> QED
          BY <5>1, <5>2
      <4>3. 123 * s <= 64944
        BY <2>4
      <4> QED
        BY <4>1, <4>2, <4>3
    <3> QED
      BY <2>3, <3>1, <3>2
  <2> QED
    BY <2>4, <2>5 DEF InTime, n
<1>2. MaxNodes <= 4286
  BY MetadataAssumption
<1> QED
  BY <1>1, <1>2, WalkInvariant, PackagesAreRight, PTL
=============================================================================
