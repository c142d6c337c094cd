-------------------------- MODULE FileExtractProofs ---------------------------
(***************************************************************************)
(* Writing one entry of the file table is correct for any package, any      *)
(* inode and any sizes of blocks, pages and words that fit each other.      *)
(***************************************************************************)
EXTENDS FileExtract, SequenceTheorems, TLAPS

\* Block k passed the checks, and was read from inside the file.
BlockRead(k) == BlockChecked(k) /\ ReadStart(k) + ReadSize(k) <= pkgSize

TypeOK ==
  /\ entry \in {"file", "other", "bad"}
  /\ pkgSize \in 0 .. Wrap - 1 /\ imageOffset \in 0 .. Wrap - 1 /\ pfscOffset \in 0 .. Wrap - 1
  /\ sectorMap \in Seq(0 .. Wrap - 1)
  /\ loc \in Nat /\ nblocks \in Nat /\ fileSize \in Int
  /\ stage \in {"begin", "read", "write", "done", "thrown"}
  /\ j \in Nat /\ written \in Int /\ faulted \in BOOLEAN /\ dropped \in BOOLEAN

\* What is on disk at the end.
SizeAsTold ==
  /\ written <= nblocks * Block
  /\ ~dropped => /\ written >= fileSize
                 /\ nblocks * Block - fileSize < Block => written = fileSize

\* Between two blocks all of the earlier ones were read, and written whole unless
\* the stream dropped bytes.
InProgress ==
  stage \in {"read", "write"} =>
    /\ entry = "file" /\ InodeFits
    /\ j < nblocks /\ written <= j * Block /\ (~dropped => written = j * Block)
    /\ \A k \in loc .. Here - 1 : BlockRead(k)

\* What is written next is what was read last.
LastReadIs ==
  stage = "write" =>
    /\ BlockRead(Here)
    /\ lastRead = [start |-> ReadStart(Here), length |-> ReadSize(Here),
                   page |-> CipherPage(Here), from |-> PreviousData(Here)]

\* A file is complete only when its inode fits and all its blocks were read.
Completed ==
  stage = "done" =>
    \/ entry = "other"
    \/ /\ entry = "file" /\ InodeFits
       /\ \A k \in loc .. loc + nblocks - 1 : BlockRead(k)
       /\ SizeAsTold

\* What the preflight check accepts is thrown out by a fault only.
RefusedRightly == stage = "thrown" /\ CanExtractFile => faulted

BeforeFirst == stage = "begin" => j = 0

\* The inductive invariant.  The properties speak of the ends, of one block or of
\* all of them; what carries them there is that each block before the one in hand
\* was read from inside the file.
IInv == TypeOK /\ BeforeFirst /\ InProgress /\ LastReadIs /\ Completed /\ RefusedRightly

-----------------------------------------------------------------------------
\* What is assumed of the constants, in the form the provers use.
LEMMA Consts ==
  /\ Page \in Nat \ {0} /\ Block \in Nat \ {0} /\ Wrap \in Nat \ {0}
  /\ MaxRead \in Nat /\ Block + Page <= MaxRead /\ Block + 2 * Page <= Wrap
BY ExtractAssumption

\* A block is whole pages.
LEMMA BlockPages == \E q \in Nat : Block = Page * q
<1>1. Block \in Nat /\ Page \in Nat \ {0} /\ Block % Page = 0
  BY ExtractAssumption
<1>2. Block = Page * (Block \div Page) + (Block % Page) /\ Block \div Page \in Nat
  BY <1>1
<1>3. Block = Page * (Block \div Page)
  BY <1>1, <1>2
<1> QED
  BY <1>2, <1>3

\* Quotient and remainder.
LEMMA Division ==
  ASSUME NEW n \in Int, NEW S \in Nat \ {0}
  PROVE  /\ n \div S \in Int /\ n % S \in 0 .. S - 1
         /\ n = S * (n \div S) + (n % S)
         /\ n \in Nat => n \div S \in Nat
OBVIOUS

\* The remainder is the only one of its size that a multiple away.
LEMMA Remainder ==
  ASSUME NEW S \in Nat \ {0}, NEW q \in Int, NEW r \in 0 .. S - 1
  PROVE  (S * q + r) % S = r
<1> DEFINE n == S * q + r
           p == n \div S
           t == n % S
<1>1. n \in Int /\ p \in Int /\ t \in 0 .. S - 1 /\ n = S * p + t
  OBVIOUS
<1>2. S * (q - p) = t - r
  BY <1>1
<1>3. CASE q - p >= 1
  <2>1. S * (q - p) >= S * 1
    BY <1>1, <1>3
  <2> QED
    BY <1>1, <1>2, <2>1
<1>4. CASE q - p <= -1
  <2>1. S * (q - p) <= S * (-1)
    BY <1>1, <1>4
  <2> QED
    BY <1>1, <1>2, <2>1
<1>5. CASE q - p = 0
  <2>1. S * (q - p) = 0
    BY <1>1, <1>5
  <2> QED
    BY <1>1, <1>2, <2>1
<1>6. q - p >= 1 \/ q - p <= -1 \/ q - p = 0
  BY <1>1
<1> QED
  BY <1>3, <1>4, <1>5, <1>6

\* A number below the modulus is left as it is.
LEMMA Short ==
  ASSUME NEW S \in Nat \ {0}, NEW r \in 0 .. S - 1
  PROVE  r % S = r
<1>1. (S * 0 + r) % S = r
  BY Remainder
<1>2. S * 0 + r = r
  OBVIOUS
<1> QED
  BY <1>1, <1>2

\* A reduced summand may be left as it is.
LEMMA Reduced ==
  ASSUME NEW S \in Nat \ {0}, NEW a \in Int, NEW b \in Int
  PROVE  ((a % S) + b) % S = (a + b) % S
<1> DEFINE x == a \div S
           y == a % S
           c == y + b
           z == c \div S
           t == c % S
<1>1. a = S * x + y /\ x \in Int /\ y \in Int
  BY Division
<1>2. c = S * z + t /\ z \in Int /\ t \in 0 .. S - 1
  <2>1. c \in Int
    BY <1>1
  <2> HIDE DEF c
  <2> QED
    BY <2>1, Division
<1>3. (a + b) % S = t
  <2> HIDE DEF x, y, z, t
  <2>1. S * (x + z) = S * x + S * z
    BY <1>1, <1>2
  <2>2. S * x \in Int /\ S * z \in Int
    BY <1>1, <1>2
  <2>3. a + b = S * (x + z) + t
    BY <1>1, <1>2, <2>1, <2>2
  <2>4. x + z \in Int
    BY <1>1, <1>2
  <2>5. (S * (x + z) + t) % S = t
    BY <1>2, <2>4, Remainder
  <2> QED
    BY <2>3, <2>5
<1> QED
  BY <1>3

\* Rounding up to whole pages adds less than a page.
LEMMA Ceiling ==
  ASSUME NEW n \in Nat, n + Page - 1 < Wrap
  PROVE  /\ Ceil(n) \in Nat /\ n <= Ceil(n) /\ Ceil(n) < n + Page
         /\ \E q \in Nat : Ceil(n) = Page * q
<1> DEFINE m == n + Page - 1
<1>1. Page \in Nat \ {0} /\ Wrap \in Nat \ {0}
  BY Consts
<1>2. m \in 0 .. Wrap - 1 /\ n + (Page - 1) = m
  BY <1>1
<1>3. Ceil(n) = Page * (m \div Page)
  BY <1>1, <1>2, Short DEF Ceil, Add
<1>4. m \div Page \in Nat /\ m % Page \in 0 .. Page - 1
      /\ m = Page * (m \div Page) + (m % Page)
  <2>1. m \in Nat
    BY <1>1
  <2> HIDE DEF m
  <2> QED
    BY <1>1, <2>1
<1> DEFINE q == m \div Page
           r == m % Page
<1>5. Page * q \in Nat
  BY <1>1, <1>4
<1>6. n <= Page * q /\ Page * q < n + Page
  <2> HIDE DEF q, r
  <2> QED
    BY <1>1, <1>4, <1>5 DEF q, r
<1> QED
  BY <1>1, <1>3, <1>4, <1>5, <1>6

-----------------------------------------------------------------------------
\* Sums and differences modulo Wrap are numbers of 64 bits.
LEMMA Sums ==
  ASSUME NEW a \in Int, NEW b \in Int
  PROVE  Add(a, b) \in 0 .. Wrap - 1 /\ Sub(a, b) \in 0 .. Wrap - 1
BY Consts DEF Add, Sub

\* A sum that does not run over, a difference that does not run under.
LEMMA ShortSum ==
  ASSUME NEW a \in Int, NEW b \in Int, a + b \in 0 .. Wrap - 1
  PROVE  Add(a, b) = a + b
<1> DEFINE c == a + b
<1>1. c % Wrap = c
  <2> HIDE DEF c
  <2> QED
    BY Consts, Short DEF c
<1> QED
  BY <1>1 DEF Add

LEMMA ShortDifference ==
  ASSUME NEW a \in Int, NEW b \in Int, a - b \in 0 .. Wrap - 1
  PROVE  Sub(a, b) = a - b
<1> DEFINE c == a - b
<1>1. c % Wrap = c
  <2> HIDE DEF c
  <2> QED
    BY Consts, Short DEF c
<1> QED
  BY <1>1 DEF Sub

\* What the package says of a block in the sector map is a number of 64 bits.
LEMMA BlockNumbers ==
  ASSUME TypeOK, NEW k \in Nat, k + 1 < Len(sectorMap)
  PROVE  /\ Sector(k) \in 0 .. Wrap - 1 /\ Sector(k + 1) \in 0 .. Wrap - 1
         /\ SectorSize(k) \in 0 .. Wrap - 1 /\ FileOffset(k) \in 0 .. Wrap - 1
         /\ PreviousData(k) \in 0 .. Page - 1 /\ CipherPage(k) \in Nat
         /\ ReadStart(k) \in 0 .. Wrap - 1
<1>1. Sector(k) \in 0 .. Wrap - 1 /\ Sector(k + 1) \in 0 .. Wrap - 1
  <2>1. sectorMap \in [1 .. Len(sectorMap) -> 0 .. Wrap - 1] /\ Len(sectorMap) \in Nat
    <3>1. sectorMap \in Seq(0 .. Wrap - 1)
      BY DEF TypeOK
    <3> QED
      BY <3>1, LenProperties
  <2>2. k + 1 \in 1 .. Len(sectorMap) /\ (k + 1) + 1 \in 1 .. Len(sectorMap)
    BY <2>1
  <2> QED
    BY <2>1, <2>2 DEF Sector
<1>2. SectorSize(k) \in 0 .. Wrap - 1
  BY <1>1, Consts, Sums DEF SectorSize
<1>3. Add(imageOffset, pfscOffset) \in 0 .. Wrap - 1 /\ Add(Sector(k), pfscOffset) \in 0 .. Wrap - 1
      /\ Add(pfscOffset, Sector(k)) \in 0 .. Wrap - 1
  <2>1. imageOffset \in Int /\ pfscOffset \in Int /\ Sector(k) \in Int
    BY <1>1, Consts DEF TypeOK
  <2> QED
    BY <2>1, Sums
<1>4. FileOffset(k) \in 0 .. Wrap - 1
  BY <1>1, <1>3, Consts, Sums DEF FileOffset
<1>5. PreviousData(k) \in 0 .. Page - 1
  <2> DEFINE n == Add(Sector(k), pfscOffset)
  <2>1. n \in Int
    BY <1>3, Consts
  <2> HIDE DEF n
  <2>2. n % Page \in 0 .. Page - 1
    BY <2>1, Consts
  <2> QED
    BY <2>2 DEF PreviousData, n
<1>6. CipherPage(k) \in Nat
  <2> DEFINE n == Add(pfscOffset, Sector(k))
  <2>1. n \in Nat
    BY <1>3, Consts
  <2> HIDE DEF n
  <2>2. n \div Page \in Nat
    BY <2>1, Consts
  <2> QED
    BY <2>2 DEF CipherPage, n
<1>7. ReadStart(k) \in 0 .. Wrap - 1
  BY <1>4, <1>5, Consts, Sums DEF ReadStart
<1> QED
  BY <1>1, <1>2, <1>4, <1>5, <1>6, <1>7

\* A block that is not larger than it may be fits the buffer, whole.
LEMMA BlockFits ==
  ASSUME TypeOK, NEW k \in Nat, k + 1 < Len(sectorMap), SectorSize(k) <= Block
  PROVE  /\ ReadSize(k) \in Nat /\ ReadSize(k) <= MaxRead
         /\ PreviousData(k) + SectorSize(k) <= ReadSize(k)
<1> DEFINE n == PreviousData(k) + SectorSize(k)
<1>1. n \in Nat /\ n <= Block + Page - 1 /\ n + Page - 1 < Wrap
  BY BlockNumbers, Consts
<1>2. Add(PreviousData(k), SectorSize(k)) = n
  <2>1. PreviousData(k) \in Int /\ SectorSize(k) \in Int /\ n \in 0 .. Wrap - 1
    BY <1>1, BlockNumbers, Consts
  <2> QED
    BY <2>1, ShortSum
<1>3. ReadSize(k) = Ceil(n)
  BY <1>2 DEF ReadSize
<1> HIDE DEF n
<1>4. Ceil(n) \in Nat /\ n <= Ceil(n) /\ Ceil(n) < n + Page
  BY <1>1, Ceiling
<1>5. PICK q \in Nat : Ceil(n) = Page * q
  BY <1>1, Ceiling
<1>6. PICK b \in Nat : Block = Page * b
  BY BlockPages
<1>7. q <= b + 1
  <2>1. Page * q <= Page * b + Page + Page - 2
    BY <1>1, <1>4, <1>5, <1>6, Consts
  <2>2. CASE q >= b + 2
    <3>1. Page * q >= Page * (b + 2)
      BY <2>2, Consts
    <3>2. Page * (b + 2) = Page * b + Page + Page
      BY Consts
    <3>3. Page * q \in Int /\ Page * b \in Int
      BY Consts
    <3> QED
      BY <2>1, <3>1, <3>2, <3>3, Consts
  <2> QED
    BY <2>2
<1>8. Ceil(n) <= Block + Page
  <2>1. Page * q <= Page * (b + 1)
    BY <1>7, Consts
  <2>2. Page * (b + 1) = Page * b + Page
    BY Consts
  <2> QED
    BY <2>1, <2>2, <1>5, <1>6
<1> QED
  BY <1>3, <1>4, <1>8, Consts DEF n

\* What CanExtractFile accepts of a block, ExtractFiles does not refuse.
LEMMA AcceptedIsRead ==
  ASSUME TypeOK, NEW k \in Nat, k + 1 < Len(sectorMap), BlockAccepted(k)
  PROVE  BlockRead(k)
<1>1. /\ Sector(k) \in 0 .. Wrap - 1 /\ Sector(k + 1) \in 0 .. Wrap - 1
      /\ ReadStart(k) \in 0 .. Wrap - 1 /\ pkgSize \in 0 .. Wrap - 1
  BY BlockNumbers DEF TypeOK
<1>2. SectorSize(k) # 0
  <2>1. Sector(k + 1) - Sector(k) \in 1 .. Wrap - 1
    BY <1>1, Consts DEF BlockAccepted
  <2>2. SectorSize(k) = Sector(k + 1) - Sector(k)
    BY <1>1, <2>1, Consts, ShortDifference DEF SectorSize
  <2> QED
    BY <1>1, <2>1, <2>2, Consts
<1>3. ReadSize(k) \in Nat /\ ReadSize(k) <= MaxRead
  BY BlockFits DEF BlockAccepted
<1>4. ReadStart(k) + ReadSize(k) <= pkgSize
  BY <1>1, <1>3, Consts DEF BlockAccepted
<1>5. Add(ReadStart(k), ReadSize(k)) = ReadStart(k) + ReadSize(k)
  BY <1>1, <1>3, <1>4, Consts, ShortSum
<1> QED
  BY <1>2, <1>3, <1>4, <1>5 DEF BlockRead, BlockChecked, BlockAccepted

\* A sector at s of z bytes, read from r on with t bytes before it, ends in the file.
LEMMA SectorEnds ==
  ASSUME NEW w \in Int, NEW a \in Nat, NEW s \in Nat, NEW z \in Nat, NEW t \in Nat,
         NEW r \in Int, NEW n \in Int, NEW g \in Int,
         r = (a + s) - t, t + z <= n, r + n <= g, g < w
  PROVE  s + z < w
OBVIOUS

\* Without a sum that runs over, what was read is what CanExtractFile accepts:
\* a sector that ended below its start would end beyond the file.
LEMMA ReadIsAccepted ==
  ASSUME TypeOK, NoWrap, NEW k \in Nat, k + 1 < Len(sectorMap), BlockRead(k)
  PROVE  BlockAccepted(k)
<1>1. /\ Sector(k) \in 0 .. Wrap - 1 /\ Sector(k + 1) \in 0 .. Wrap - 1
      /\ SectorSize(k) \in 0 .. Wrap - 1 /\ PreviousData(k) \in 0 .. Page - 1
      /\ ReadStart(k) \in 0 .. Wrap - 1 /\ pkgSize \in 0 .. Wrap - 1
      /\ imageOffset \in 0 .. Wrap - 1 /\ pfscOffset \in 0 .. Wrap - 1
  BY BlockNumbers DEF TypeOK
<1>2. SectorSize(k) # 0 /\ SectorSize(k) <= Block /\ FileOffset(k) >= PreviousData(k)
      /\ ReadSize(k) # 0 /\ ReadStart(k) + ReadSize(k) <= pkgSize
  BY DEF BlockRead, BlockChecked
<1>3. ReadSize(k) \in Nat /\ PreviousData(k) + SectorSize(k) <= ReadSize(k)
  BY <1>2, BlockFits
<1>4. imageOffset + pfscOffset + Sector(k) < Wrap
  <2>1. k + 1 \in DOMAIN sectorMap
    BY DEF TypeOK
  <2> QED
    BY <2>1 DEF NoWrap, Sector
<1>5. FileOffset(k) = imageOffset + pfscOffset + Sector(k)
  <2>1. Add(imageOffset, pfscOffset) = imageOffset + pfscOffset
    BY <1>1, <1>4, Consts, ShortSum
  <2> DEFINE a == imageOffset + pfscOffset
  <2>2. a \in Int /\ a + Sector(k) \in 0 .. Wrap - 1
    BY <1>1, <1>4, Consts
  <2>3. Add(a, Sector(k)) = a + Sector(k)
    <3> HIDE DEF a
    <3> QED
      BY <1>1, <2>2, Consts, ShortSum
  <2> QED
    BY <2>1, <2>3 DEF FileOffset
<1>6. ReadStart(k) = FileOffset(k) - PreviousData(k)
  <2>1. FileOffset(k) - PreviousData(k) \in 0 .. Wrap - 1
    BY <1>1, <1>2, <1>4, <1>5, Consts
  <2> QED
    <3>1. FileOffset(k) \in Int /\ PreviousData(k) \in Int
      BY <1>1, <1>2, <1>5, Consts
    <3> QED
      BY <2>1, <3>1, ShortDifference DEF ReadStart
<1>7. Sector(k) + SectorSize(k) < Wrap
  <2>1. imageOffset + pfscOffset \in Nat /\ Wrap \in Int /\ pkgSize < Wrap
    BY <1>1, Consts
  <2>2. ReadStart(k) = ((imageOffset + pfscOffset) + Sector(k)) - PreviousData(k)
    BY <1>5, <1>6
  <2>3. /\ Sector(k) \in Nat /\ SectorSize(k) \in Nat /\ PreviousData(k) \in Nat
        /\ ReadStart(k) \in Int /\ ReadSize(k) \in Int /\ pkgSize \in Int
    BY <1>1, <1>3, Consts
  <2> QED
    BY <1>2, <1>3, <2>1, <2>2, <2>3, SectorEnds
<1>8. Sector(k + 1) = Sector(k) + SectorSize(k)
  <2> DEFINE d == Sector(k + 1) - Sector(k)
  <2>1. d \in Int /\ d % Wrap = SectorSize(k)
    BY <1>1, Consts DEF SectorSize, Sub
  <2>2. d >= 0 \/ d + Wrap = SectorSize(k)
    <3>1. CASE d < 0
      <4> DEFINE e == d + Wrap
      <4>1. e \in 0 .. Wrap - 1
        BY <1>1, <3>1, Consts
      <4>2. (Wrap * (-1) + e) % Wrap = e
        <5> HIDE DEF e
        <5> QED
          BY <4>1, Consts, Remainder
      <4>3. Wrap * (-1) + e = d
        BY <2>1, Consts
      <4> QED
        BY <2>1, <4>2, <4>3
    <3> QED
      BY <2>1, <3>1
  <2>3. d >= 0
    BY <1>1, <1>7, <2>2, Consts
  <2>4. SectorSize(k) = d
    BY <1>1, <2>3, Consts, ShortDifference DEF SectorSize
  <2> QED
    BY <1>1, <2>4, Consts
<1> QED
  BY <1>1, <1>2, <1>3, <1>8, Consts DEF BlockAccepted

\* The bytes of a block are read from its page of the image, all of them.
LEMMA ReadIsTold ==
  ASSUME TypeOK, NEW k \in Nat, k + 1 < Len(sectorMap), BlockRead(k)
  PROVE  /\ ReadStart(k) = Add(imageOffset, (CipherPage(k) * Page) % Wrap)
         /\ Add(ReadStart(k), PreviousData(k)) = FileOffset(k)
         /\ PreviousData(k) + SectorSize(k) <= ReadSize(k)
<1> DEFINE x == pfscOffset + Sector(k)
           y == x % Wrap
           p == y \div Page
           m == y % Page
<1>1. /\ Sector(k) \in 0 .. Wrap - 1 /\ FileOffset(k) \in 0 .. Wrap - 1
      /\ PreviousData(k) \in 0 .. Page - 1
      /\ imageOffset \in 0 .. Wrap - 1 /\ pfscOffset \in 0 .. Wrap - 1
  BY BlockNumbers DEF TypeOK
<1>2. x \in Nat /\ Sector(k) + pfscOffset = x
  BY <1>1, Consts
<1>3. y \in 0 .. Wrap - 1
  <2> HIDE DEF x
  <2> QED
    BY <1>2, Consts
<1>4. p \in Nat /\ m \in 0 .. Page - 1 /\ y = Page * p + m
  <2> HIDE DEF y
  <2> QED
    BY <1>3, Consts
<1>5. PreviousData(k) = m /\ CipherPage(k) = p
  BY <1>2 DEF PreviousData, CipherPage, Add
<1>6. (CipherPage(k) * Page) % Wrap = Page * p
  <2>1. Page * p \in 0 .. Wrap - 1 /\ p * Page = Page * p
    <3> HIDE DEF p, m, y
    <3>1. Page * p \in Nat
      BY <1>4, Consts
    <3> QED
      BY <1>3, <1>4, <3>1, Consts
  <2>2. (Page * p) % Wrap = Page * p
    <3> DEFINE v == Page * p
    <3>1. v \in 0 .. Wrap - 1
      BY <2>1
    <3> HIDE DEF v
    <3>2. v % Wrap = v
      BY <3>1, Consts, Short
    <3> QED
      BY <3>2 DEF v
  <2> QED
    BY <1>5, <2>1, <2>2
\* The offset in the file is that of the image and that in the image.
<1>7. FileOffset(k) = (imageOffset + x) % Wrap
  <2> DEFINE a == imageOffset + pfscOffset
             b == Sector(k)
  <2>1. a \in Int /\ b \in Int /\ a + b = imageOffset + x
    BY <1>1, Consts
  <2>2. ((a % Wrap) + b) % Wrap = (a + b) % Wrap
    <3> HIDE DEF a, b
    <3> QED
      BY <2>1, Consts, Reduced
  <2> QED
    BY <2>1, <2>2 DEF FileOffset, Add
<1>8. (imageOffset + x) % Wrap = (imageOffset + y) % Wrap
  <2>1. ((x % Wrap) + imageOffset) % Wrap = (x + imageOffset) % Wrap
    <3>1. imageOffset \in Int /\ x \in Int /\ Wrap \in Nat \ {0}
      BY <1>1, <1>2, Consts
    <3> HIDE DEF x
    <3> QED
      BY <3>1, Reduced
  <2>2. x + imageOffset = imageOffset + x /\ y + imageOffset = imageOffset + y
    <3> HIDE DEF x, y
    <3> QED
      BY <1>1, <1>2, <1>3, Consts
  <2> QED
    BY <2>1, <2>2
<1>9. ReadStart(k) = (imageOffset + Page * p) % Wrap
  <2> DEFINE b == -m
             a == imageOffset + y
  <2>1. a \in Int /\ b \in Int /\ m \in Int /\ a + b = imageOffset + Page * p
    <3> HIDE DEF p, m, y
    <3>1. Page * p \in Nat
      BY <1>4, Consts
    <3> QED
      BY <1>1, <1>3, <1>4, <3>1, Consts
  <2>2. ((a % Wrap) + b) % Wrap = (a + b) % Wrap
    <3> HIDE DEF a, b
    <3> QED
      BY <2>1, Consts, Reduced
  <2>3. ReadStart(k) = (FileOffset(k) - m) % Wrap
    BY <1>5 DEF ReadStart, Sub
  <2>4. FileOffset(k) = a % Wrap
    BY <1>7, <1>8
  <2>5. FileOffset(k) - m = FileOffset(k) + b
    <3> HIDE DEF m
    <3> QED
      BY <1>1, <2>1, Consts
  <2> QED
    BY <2>1, <2>2, <2>3, <2>4, <2>5
<1>10. Add(ReadStart(k), m) = FileOffset(k)
  <2> DEFINE a == FileOffset(k) - m
  <2>1. a \in Int /\ m \in Int /\ a + m = FileOffset(k)
    <3>1. m \in Int /\ FileOffset(k) \in Int
      BY <1>1, <1>4, Consts
    <3> HIDE DEF m
    <3> QED
      BY <3>1
  <2>2. ((a % Wrap) + m) % Wrap = (a + m) % Wrap
    <3> HIDE DEF a, m
    <3> QED
      BY <2>1, Consts, Reduced
  <2>3. FileOffset(k) % Wrap = FileOffset(k)
    BY <1>1, Consts, Short
  <2> QED
    BY <1>5, <2>1, <2>2, <2>3 DEF ReadStart, Sub, Add
<1>11. PreviousData(k) + SectorSize(k) <= ReadSize(k)
  BY BlockFits DEF BlockRead, BlockChecked
<1> QED
  BY <1>5, <1>6, <1>9, <1>10, <1>11 DEF Add

-----------------------------------------------------------------------------
(***************************************************************************)
(* The steps.                                                               *)
(***************************************************************************)
\* A block of the inode lies in the sector map.
LEMMA InMap ==
  ASSUME TypeOK, InodeFits, NEW k \in loc .. loc + nblocks - 1
  PROVE  k \in Nat /\ k + 1 < Len(sectorMap)
<1>1. Len(sectorMap) \in Nat /\ loc \in Nat /\ nblocks \in Nat
  BY DEF TypeOK
<1> QED
  BY <1>1 DEF InodeFits

\* No step changes what the package and the inode say.
LEMMA InputStays ==
  ASSUME UNCHANGED input
  PROVE  /\ InodeFits' = InodeFits /\ CanExtractFile' = CanExtractFile /\ NoWrap' = NoWrap
         /\ \A k : BlockRead(k)' = BlockRead(k)
BY DEF input, inode, InodeFits, CanExtractFile, BlockAccepted, BlockRead, BlockChecked, NoWrap,
  SectorSize, FileOffset, PreviousData, ReadSize, ReadStart, Sector

\* The last block is cut to the size of the file.
LEMMA LastBlock ==
  ASSUME TypeOK, InodeFits, j + 1 = nblocks
  PROVE  /\ LastPart \in 0 .. Block /\ j * Block + LastPart >= fileSize
         /\ nblocks * Block - fileSize < Block => j * Block + LastPart = fileSize
<1>1. j \in Nat /\ fileSize \in Int /\ Block \in Nat \ {0}
  BY Consts DEF TypeOK
<1>2. nblocks * Block = j * Block + Block /\ j * Block \in Nat
  BY <1>1
<1>3. fileSize <= j * Block + Block
  BY <1>2 DEF InodeFits
<1> QED
  BY <1>1, <1>2, <1>3 DEF LastPart

\* The steps, one by one.
LEMMA InitInv == Init => IInv
<1> SUFFICES ASSUME Init PROVE IInv
  OBVIOUS
<1>1. TypeOK
  <2>1. /\ pkgSize \in 0 .. Wrap - 1 /\ imageOffset \in 0 .. Wrap - 1
        /\ pfscOffset \in 0 .. Wrap - 1 /\ sectorMap \in Seq(0 .. Wrap - 1)
    BY ExtractAssumption DEF Init
  <2>2. loc \in Nat /\ nblocks \in Nat /\ fileSize \in Int
    BY ExtractAssumption DEF Init
  <2>3. /\ entry \in {"file", "other", "bad"} /\ stage = "begin" /\ j = 0
        /\ written = None /\ faulted = FALSE /\ dropped = FALSE
    BY DEF Init
  <2> QED
    <3>1. written \in Int
      BY <2>3 DEF None
    <3>2. stage \in {"begin", "read", "write", "done", "thrown"} /\ j \in Nat
      BY <2>3
    <3>3. faulted \in BOOLEAN /\ dropped \in BOOLEAN
      BY <2>3
    <3> QED
      BY <2>1, <2>2, <2>3, <3>1, <3>2, <3>3 DEF TypeOK
<1> QED
  BY <1>1 DEF Init, IInv, BeforeFirst, InProgress, LastReadIs, Completed, RefusedRightly

\* An end by an exception, with the reason for it.
LEMMA ThrownStep ==
  ASSUME IInv, UNCHANGED <<input, j, written, lastRead, dropped>>, stage' = "thrown",
         faulted' \in BOOLEAN, CanExtractFile => faulted'
  PROVE  IInv'
<1>1. TypeOK'
  BY DEF IInv, TypeOK, input, inode
<1>2. RefusedRightly'
  BY InputStays DEF RefusedRightly
<1> QED
  BY <1>1, <1>2 DEF IInv, BeforeFirst, InProgress, LastReadIs, Completed

LEMMA BeginStep ==
  ASSUME IInv, Begin
  PROVE  IInv'
<1>1. CASE entry = "other" /\ stage' = "done" /\ UNCHANGED <<input, j, written, lastRead, faulted, dropped>>
  <2>1. TypeOK' /\ entry' = "other"
    BY <1>1 DEF IInv, TypeOK, input, inode
  <2> QED
    BY <1>1, <2>1 DEF IInv, BeforeFirst, InProgress, LastReadIs, Completed, RefusedRightly
<1>2. CASE entry = "bad" /\ Throw
  BY <1>2, ThrownStep DEF Throw, CanExtractFile, IInv, TypeOK
<1>3. CASE entry = "file" /\ ~InodeFits /\ Throw
  BY <1>3, ThrownStep DEF Throw, CanExtractFile, IInv, TypeOK
<1>4. CASE Fault
  BY <1>4, ThrownStep DEF Fault
<1>5. CASE /\ entry = "file" /\ InodeFits
           /\ written' = 0
           /\ stage' = IF nblocks = 0 THEN "done" ELSE "read"
           /\ UNCHANGED <<input, j, lastRead, faulted, dropped>>
  <2>1. TypeOK'
    BY <1>5 DEF IInv, TypeOK, input, inode
  <2>2. InodeFits' /\ nblocks \in Nat /\ loc \in Nat /\ fileSize \in Int /\ j' = j /\ Block \in Nat
        /\ nblocks' = nblocks /\ loc' = loc /\ fileSize' = fileSize /\ entry' = "file"
    BY <1>5, InputStays, Consts DEF IInv, TypeOK, input, inode
  <2>3. CASE nblocks = 0
    <3>1. fileSize = 0 /\ nblocks * Block = 0
      BY <1>5, <2>2, <2>3 DEF InodeFits
    <3>2. loc .. loc + nblocks - 1 = {}
      BY <2>2, <2>3
    <3> QED
      BY <1>5, <2>1, <2>2, <2>3, <3>1, <3>2
      DEF IInv, BeforeFirst, InProgress, LastReadIs, Completed, RefusedRightly, SizeAsTold
  <2>4. CASE nblocks # 0
    <3>1. j = 0 /\ j * Block = 0
      BY <2>2 DEF Begin, IInv, BeforeFirst
    <3>2. Here' = loc /\ loc .. loc - 1 = {}
      BY <2>2, <3>1 DEF Here
    <3> QED
      BY <1>5, <2>1, <2>2, <2>4, <3>1, <3>2
      DEF IInv, InProgress, LastReadIs, Completed, RefusedRightly, BeforeFirst
  <2> QED
    BY <2>3, <2>4
<1> QED
  BY <1>1, <1>2, <1>3, <1>4, <1>5 DEF Begin

\* The block in hand is one of the inode's.
LEMMA HereIsMapped ==
  ASSUME IInv, stage \in {"read", "write"}
  PROVE  /\ entry = "file" /\ InodeFits /\ Here \in loc .. loc + nblocks - 1
         /\ Here \in Nat /\ Here + 1 < Len(sectorMap)
<1>1. TypeOK /\ entry = "file" /\ InodeFits /\ j < nblocks
  BY DEF IInv, InProgress
<1>2. Here \in loc .. loc + nblocks - 1
  BY <1>1 DEF TypeOK, Here
<1> QED
  BY <1>1, <1>2, InMap

LEMMA ReadStep ==
  ASSUME IInv, ReadBlock
  PROVE  IInv'
<1>1. TypeOK /\ stage = "read"
  BY DEF IInv, ReadBlock
<1>2. entry = "file" /\ InodeFits /\ Here \in loc .. loc + nblocks - 1
      /\ Here \in Nat /\ Here + 1 < Len(sectorMap)
  BY <1>1, HereIsMapped
<1>3. CASE ~BlockChecked(Here) /\ Throw
  <2>1. ~CanExtractFile
    <3> SUFFICES ASSUME CanExtractFile PROVE FALSE
      OBVIOUS
    <3>1. BlockAccepted(Here)
      BY <1>2 DEF CanExtractFile
    <3>2. BlockChecked(Here)
      BY <1>1, <1>2, <3>1, AcceptedIsRead DEF BlockRead
    <3> QED
      BY <1>3, <3>2
  <2> QED
    BY <1>1, <1>3, <2>1, ThrownStep DEF Throw, TypeOK
<1>4. CASE Fault
  BY <1>4, ThrownStep DEF Fault
<1>5. CASE /\ BlockChecked(Here) /\ ReadStart(Here) + ReadSize(Here) <= pkgSize
           /\ Reading /\ stage' = "write" /\ UNCHANGED <<input, j, written, faulted, dropped>>
  <2>1. TypeOK'
    BY <1>5, <1>1 DEF TypeOK, input, inode
  <2>2. Here' = Here /\ InodeFits' /\ entry' = "file" /\ nblocks' = nblocks /\ loc' = loc
        /\ \A k : BlockRead(k)' = BlockRead(k)
    BY <1>2, <1>5, InputStays DEF Here, input, inode
  <2>3. InProgress'
    BY <1>1, <1>5, <2>2 DEF IInv, InProgress
  <2>4. LastReadIs'
    <3>1. BlockRead(Here)'
      BY <1>5, <2>2 DEF BlockRead
    <3>2. lastRead' = [start |-> ReadStart(Here), length |-> ReadSize(Here),
                       page |-> CipherPage(Here), from |-> PreviousData(Here)]'
      BY <1>5 DEF Reading, Here, ReadStart, ReadSize, CipherPage, PreviousData, FileOffset,
        SectorSize, Sector, input, inode
    <3> QED
      BY <3>1, <3>2 DEF LastReadIs
  <2> QED
    BY <1>5, <2>1, <2>3, <2>4 DEF IInv, BeforeFirst, Completed, RefusedRightly
<1> QED
  BY <1>3, <1>4, <1>5 DEF ReadBlock

LEMMA WriteStep ==
  ASSUME IInv, WriteBlock
  PROVE  IInv'
<1>1. TypeOK /\ stage = "write"
  BY DEF IInv, WriteBlock
<1>2. entry = "file" /\ InodeFits /\ BlockRead(Here) /\ j < nblocks
      /\ written <= j * Block /\ (~dropped => written = j * Block)
      /\ \A k \in loc .. Here - 1 : BlockRead(k)
  BY <1>1 DEF IInv, InProgress, LastReadIs
<1>3. j \in Nat /\ nblocks \in Nat /\ loc \in Nat /\ Here \in Nat /\ Block \in Nat
  BY <1>1, Consts DEF TypeOK, Here
<1>4. CASE Fault
  BY <1>4, ThrownStep DEF Fault
<1>5. CASE /\ \/ written' = written + Piece /\ UNCHANGED dropped
              \/ written' \in 0 .. written + Piece - 1 /\ dropped' = TRUE
           /\ j' = j + 1
           /\ stage' = IF j + 1 = nblocks THEN "done" ELSE "read"
           /\ UNCHANGED <<input, lastRead, faulted>>
  <2>1. InodeFits' /\ entry' = "file" /\ nblocks' = nblocks /\ loc' = loc
        /\ fileSize' = fileSize /\ \A k : BlockRead(k)' = BlockRead(k)
    BY <1>2, <1>5, InputStays DEF input, inode
  <2>2. \A k \in loc .. Here : BlockRead(k)
    BY <1>2, <1>3
  <2>3. Piece \in Int /\ written \in Int
    BY <1>1, <1>3 DEF LastPart, TypeOK, Piece
  <2>4. /\ written' \in Int /\ written' <= written + Piece /\ dropped' \in BOOLEAN
        /\ ~dropped' => ~dropped /\ written' = written + Piece
    <3>1. CASE written' = written + Piece /\ dropped' = dropped
      <4>1. dropped \in BOOLEAN
        BY <1>1 DEF TypeOK
      <4> QED
        BY <2>3, <3>1, <4>1
    <3>2. CASE written' \in 0 .. written + Piece - 1 /\ dropped' = TRUE
      BY <2>3, <3>2
    <3> QED
      BY <1>5, <3>1, <3>2
  <2>5. TypeOK'
    BY <1>1, <1>3, <1>5, <2>4 DEF TypeOK, input, inode
  <2>6. CASE j + 1 = nblocks
    <3>1. Piece = LastPart /\ LastPart \in 0 .. Block /\ j * Block \in Int
          /\ nblocks * Block = j * Block + Block
      BY <1>1, <1>2, <1>3, <2>6, LastBlock DEF Piece
    <3>2. written' <= nblocks * Block
      BY <1>2, <1>3, <2>3, <2>4, <3>1
    <3>3. ~dropped' => written' = j * Block + LastPart
      BY <1>2, <2>4, <3>1
    <3>4. SizeAsTold'
      BY <1>1, <1>2, <2>1, <2>6, <3>2, <3>3, LastBlock DEF SizeAsTold
    <3>5. \A k \in loc .. loc + nblocks - 1 : BlockRead(k)
      BY <1>3, <2>2, <2>6 DEF Here
    <3>6. Completed'
      BY <2>1, <3>4, <3>5 DEF Completed
    <3> QED
      BY <1>5, <2>5, <2>6, <3>6 DEF IInv, BeforeFirst, InProgress, LastReadIs, RefusedRightly
  <2>7. CASE j + 1 # nblocks
    <3>1. j + 1 < nblocks /\ j < nblocks - 1 /\ Piece = Block
      BY <1>2, <1>3, <2>7 DEF Piece
    <3>2. written' <= (j + 1) * Block /\ (~dropped' => written' = (j + 1) * Block)
      <4>1. (j + 1) * Block = j * Block + Block /\ j * Block \in Int
        BY <1>3
      <4> QED
        BY <1>2, <1>3, <2>3, <2>4, <3>1, <4>1
    <3>3. Here' - 1 = Here
      BY <1>3, <1>5, <2>1 DEF Here
    <3>4. InProgress'
      BY <1>5, <2>1, <2>2, <3>1, <3>2, <3>3 DEF InProgress
    <3> QED
      BY <1>5, <2>5, <2>7, <3>4 DEF IInv, BeforeFirst, LastReadIs, Completed, RefusedRightly
  <2> QED
    BY <2>6, <2>7
<1> QED
  BY <1>4, <1>5 DEF WriteBlock

LEMMA IInvHolds == Spec => []IInv
<1>1. ASSUME IInv, UNCHANGED vars
      PROVE  IInv'
  BY <1>1 DEF vars, input, inode, IInv, TypeOK, BeforeFirst, InProgress, LastReadIs, Completed, RefusedRightly,
    SizeAsTold, Here, InodeFits, CanExtractFile, BlockAccepted, BlockRead, BlockChecked,
    SectorSize, FileOffset, PreviousData, ReadSize, ReadStart, CipherPage, Sector
<1>2. IInv /\ [Next]_vars => IInv'
  BY <1>1, BeginStep, ReadStep, WriteStep DEF Next
<1> QED
  BY InitInv, <1>2, PTL DEF Spec

\* What CanExtractFile accepts, ExtractFiles refuses only when the disk or zlib
\* fails, and what it refuses, ExtractFiles never completes, unless the package's
\* offsets run over 64 bits.
THEOREM PreflightTheorem == Spec => []PreflightAgrees
<1>1. IInv => PreflightAgrees
  <2> SUFFICES ASSUME IInv, stage = "done", NoWrap PROVE CanExtractFile
    BY DEF IInv, RefusedRightly, PreflightAgrees
  <2>1. TypeOK
    BY DEF IInv
  <2>2. CASE entry = "other"
    BY <2>2 DEF CanExtractFile
  <2>3. CASE entry = "file" /\ InodeFits /\ \A k \in loc .. loc + nblocks - 1 : BlockRead(k)
    <3>1. ASSUME NEW k \in loc .. loc + nblocks - 1
          PROVE  BlockAccepted(k)
      <4>1. k \in Nat /\ k + 1 < Len(sectorMap)
        BY <2>1, <2>3, InMap
      <4> QED
        BY <2>1, <2>3, <4>1, ReadIsAccepted
    <3> QED
      BY <2>3, <3>1 DEF CanExtractFile
  <2> QED
    BY <2>2, <2>3 DEF IInv, Completed
<1> QED
  BY <1>1, IInvHolds, PTL

\* A block is read from inside the file, decrypted as the page of the image it is
\* read from, and used from its first byte to its last; a completed file that lost
\* no byte between the stream and the disk is never cut short, and has its size
\* when it has no more blocks than it needs.
THEOREM WrittenTheorem == Spec => []WrittenAsTold
<1>1. IInv => WrittenAsTold
  <2> SUFFICES ASSUME IInv PROVE WrittenAsTold
    OBVIOUS
  <2>1. TypeOK
    BY DEF IInv
  <2>2. ASSUME stage = "write"
        PROVE  /\ lastRead.start + lastRead.length <= pkgSize
               /\ lastRead.start = Add(imageOffset, (lastRead.page * Page) % Wrap)
               /\ Add(lastRead.start, lastRead.from) = FileOffset(Here)
               /\ lastRead.from + SectorSize(Here) <= lastRead.length
    <3>1. Here \in Nat /\ Here + 1 < Len(sectorMap)
      BY <2>2, HereIsMapped
    <3>2. /\ BlockRead(Here)
          /\ lastRead.start = ReadStart(Here) /\ lastRead.length = ReadSize(Here)
          /\ lastRead.page = CipherPage(Here) /\ lastRead.from = PreviousData(Here)
      BY <2>2 DEF IInv, LastReadIs
    <3> QED
      BY <2>1, <3>1, <3>2, ReadIsTold DEF BlockRead
  <2>3. stage = "done" /\ entry = "file" => SizeAsTold
    BY DEF IInv, Completed
  <2> QED
    BY <2>2, <2>3 DEF WrittenAsTold, SizeAsTold
<1> QED
  BY <1>1, IInvHolds, PTL
=============================================================================
