------------------------------ MODULE PfscProofs ------------------------------
(***************************************************************************)
(* The search for the PFSC header finds what it is meant to find, and the   *)
(* loading of the PFSC container is correct, for packages of any size, with *)
(* any number of headers, and any lengths of the pieces.                    *)
(***************************************************************************)
EXTENDS PfscLoad, PfscScan, WellFoundedInduction, TLAPS

(***************************************************************************)
(* The inductive invariant.                                                 *)
(***************************************************************************)
\* A piece is whole sectors of the region.
Pieces == {WholeSectors(n) : n \in 0 .. region}

\* What is in memory is the piece from its header on.
Held == /\ offset = HeaderIn(length) /\ offset # NotFound
        /\ held = length - offset

TypeOK ==
  /\ region \in Nat /\ imageSize \in Nat /\ cacheLength \in Nat
  /\ plain \subseteq Nat /\ cipher \subseteq Nat
  /\ length \in Pieces /\ mapEnd \in Nat
  /\ ioFailed \in BOOLEAN

\* While the ladder is climbed no piece had a header; the header that was copied
\* is that of the piece it was copied from, and a later piece is larger.
LoadInv ==
  /\ TypeOK
  /\ stage \in Ladder \ {"first"} \/ stage = "notFound" =>
       ioFailed \/ HeaderIn(length) = NotFound
  /\ stage = "notFound" => length = Reach
  /\ stage \in {"header", "capacity", "map"} => Held
  /\ stage = "capacity" => header = offset /\ headerLength = length
  /\ stage = "map" => /\ header = HeaderIn(headerLength)
                      /\ headerLength \in Pieces /\ headerLength <= length
                      /\ mapEnd <= held
  /\ ErrorsAreTrue

(***************************************************************************)
(* Whole sectors.                                                           *)
(***************************************************************************)
\* Rounding down loses less than a sector.
LEMMA Whole ==
  ASSUME NEW n \in Nat
  PROVE  WholeSectors(n) \in Nat /\ WholeSectors(n) <= n /\ n < WholeSectors(n) + SectorSize
<1> DEFINE q == n \div SectorSize
           r == n % SectorSize
<1>1. SectorSize \in Nat \ {0}
  BY HeaderAssumption
<1>2. q \in Nat /\ r \in 0 .. SectorSize - 1 /\ n = SectorSize * q + r
  BY <1>1
<1>3. SectorSize * q \in Nat
  BY <1>1, <1>2
<1> QED
  BY <1>1, <1>2, <1>3 DEF WholeSectors

\* A length of whole sectors stays below a larger one that is rounded.
LEMMA WholeBelow ==
  ASSUME NEW a \in Nat, NEW b \in Nat, WholeSectors(a) <= b
  PROVE  WholeSectors(a) <= WholeSectors(b)
<1> DEFINE q == a \div SectorSize
           r == b \div SectorSize
<1>1. SectorSize \in Nat \ {0}
  BY HeaderAssumption
<1>2. q \in Nat /\ r \in Nat
  BY <1>1
<1>3. WholeSectors(a) = SectorSize * q /\ WholeSectors(b) = SectorSize * r
  BY <1>1 DEF WholeSectors
<1>4. b < SectorSize * r + SectorSize
  BY <1>3, Whole
<1> HIDE DEF q, r
<1>5. r + 1 <= q => SectorSize * (r + 1) <= SectorSize * q
  BY <1>1, <1>2
<1>6. SectorSize * (r + 1) = SectorSize * r + SectorSize
  BY <1>1, <1>2
<1>7. q <= r
  BY <1>1, <1>2, <1>3, <1>4, <1>5, <1>6
<1>8. SectorSize * q <= SectorSize * r
  BY <1>1, <1>2, <1>7
<1> QED
  BY <1>3, <1>8

\* A piece lies in the region, and is all that can be read when it is no shorter.
LEMMA PieceInRegion ==
  ASSUME region \in Nat, NEW n \in Pieces
  PROVE  n \in Nat /\ n <= region /\ (region <= n => n = Reach)
<1>1. PICK m \in 0 .. region : n = WholeSectors(m)
  BY DEF Pieces
<1>2. n \in Nat /\ n <= m
  BY <1>1, Whole
<1>3. region <= n => m = region
  BY <1>2
<1> QED
  BY <1>1, <1>2, <1>3 DEF Reach

\* Normalized lengths are pieces, and that of the region is all there is.
LEMMA Normalized ==
  ASSUME region \in Nat, NEW n \in Nat
  PROVE  /\ Normalize(n) \in Pieces
         /\ n >= region => Normalize(n) = Reach
         /\ n <= region => /\ n < Normalize(n) + SectorSize
                           /\ \A m \in Pieces : m <= n => m <= Normalize(n)
<1>1. Min2(n, region) \in 0 .. region
  BY DEF Min2
<1>2. Normalize(n) \in Pieces
  BY <1>1 DEF Normalize, Pieces
<1>3. n >= region => Min2(n, region) = region
  BY DEF Min2
<1>4. n <= region => Min2(n, region) = n
  BY DEF Min2
<1>5. ASSUME n <= region, NEW m \in Pieces, m <= n
      PROVE  m <= Normalize(n)
  BY <1>4, <1>5, WholeBelow DEF Pieces, Normalize
<1> QED
  BY <1>2, <1>3, <1>4, <1>5, Whole DEF Normalize, Reach

(***************************************************************************)
(* Headers.                                                                 *)
(***************************************************************************)
\* Offsets have a least one.
LEMMA LeastIs ==
  ASSUME NEW ps \in SUBSET Nat, ps # {}
  PROVE  Least(ps) \in ps /\ \A q \in ps : Least(ps) <= q
<1>1. PICK p \in ps : \A q \in ps : ~(<<q, p>> \in OpToRel(<, Nat))
  BY NatLessThanWellFounded, WFMin
<1>2. \A q \in ps : ~(q < p)
  BY <1>1 DEF OpToRel
<1>3. \A q \in ps : p <= q
  BY <1>2
<1> QED
  BY <1>3 DEF Least

\* The preferred offsets of a buffer, from which the header is chosen.
Preferred(marks, n) ==
  LET found == Complete(marks, n)
  IN  IF AtStart(found) # {} THEN AtStart(found)
      ELSE IF OnFast(found) # {} THEN OnFast(found)
      ELSE IF OnSector(found) # {} THEN OnSector(found)
      ELSE OnSample(found, n)

\* The header found is the least of them, and lies in the buffer.
LEMMA HeaderIs ==
  ASSUME NEW marks \in SUBSET Nat, NEW n \in Nat
  PROVE  /\ Preferred(marks, n) \subseteq Complete(marks, n)
         /\ Preferred(marks, n) = {} => HeaderOffset(marks, n) = NotFound
         /\ Preferred(marks, n) # {} =>
              /\ HeaderOffset(marks, n) = Least(Preferred(marks, n))
              /\ HeaderOffset(marks, n) \in Preferred(marks, n)
              /\ HeaderOffset(marks, n) \in Nat /\ HeaderOffset(marks, n) # NotFound
              /\ HeaderOffset(marks, n) + MinHeader <= n
<1>1. Preferred(marks, n) \subseteq Complete(marks, n)
  BY DEF Preferred, AtStart, OnFast, OnSector, OnSample
<1>2. HeaderOffset(marks, n) = IF Preferred(marks, n) = {} THEN NotFound
                                 ELSE Least(Preferred(marks, n))
  BY DEF HeaderOffset, Preferred
<1>3. Complete(marks, n) \subseteq marks
      /\ \A p \in Complete(marks, n) : p + MinHeader <= n
  BY DEF Complete
<1>4. Preferred(marks, n) \in SUBSET Nat
  BY <1>1, <1>3
<1>5. Preferred(marks, n) # {} => Least(Preferred(marks, n)) \in Preferred(marks, n)
  BY <1>4, LeastIs
<1> QED
  BY <1>1, <1>2, <1>3, <1>4, <1>5 DEF NotFound

\* A header found in a larger piece that lies in the smaller one as well was found
\* there, as long as no bytes are skipped.
LEMMA FoundBefore ==
  ASSUME NEW marks \in SUBSET Nat, NEW m \in Nat, NEW n \in Nat, m <= n, n <= SampleAbove,
         HeaderOffset(marks, n) # NotFound, HeaderOffset(marks, n) + MinHeader <= m
  PROVE  HeaderOffset(marks, m) = HeaderOffset(marks, n)
<1> DEFINE p == HeaderOffset(marks, n)
<1>1. /\ MinHeader \in Nat /\ SampleAbove \in Nat
      /\ Granularity(m) = 1 /\ Granularity(n) = 1
  BY HeaderAssumption DEF Granularity
<1>2. /\ p = Least(Preferred(marks, n)) /\ p \in Preferred(marks, n) /\ p \in Nat
      /\ Preferred(marks, n) \subseteq Complete(marks, n)
  BY HeaderIs
<1>3. Complete(marks, m) \subseteq Complete(marks, n)
  <2> SUFFICES ASSUME NEW q \in marks, q + MinHeader <= m PROVE q + MinHeader <= n
    BY DEF Complete
  <2>1. q \in Nat
    OBVIOUS
  <2> QED
    BY <1>1, <2>1
<1>4. p \in Complete(marks, m)
  BY <1>2 DEF Complete
<1>5. Preferred(marks, m) \subseteq Preferred(marks, n) /\ p \in Preferred(marks, m)
  BY <1>1, <1>2, <1>3, <1>4 DEF Preferred, AtStart, OnFast, OnSector, OnSample
<1>6. Preferred(marks, m) \in SUBSET Nat /\ Preferred(marks, n) \in SUBSET Nat
  BY HeaderIs DEF Complete
<1>7. \A q \in Preferred(marks, n) : p <= q
  BY <1>2, <1>6, LeastIs
<1>8. Least(Preferred(marks, m)) \in Preferred(marks, m)
      /\ \A q \in Preferred(marks, m) : Least(Preferred(marks, m)) <= q
  BY <1>5, <1>6, LeastIs
<1>9. Least(Preferred(marks, m)) = p
  BY <1>2, <1>5, <1>6, <1>7, <1>8
<1> QED
  BY <1>5, <1>9, HeaderIs

\* A smaller piece has no header when a larger one has none, as long as no bytes
\* are skipped.
LEMMA NoneBefore ==
  ASSUME NEW marks \in SUBSET Nat, NEW m \in Nat, NEW n \in Nat, m <= n, n <= SampleAbove,
         HeaderOffset(marks, n) = NotFound
  PROVE  HeaderOffset(marks, m) = NotFound
<1>1. MinHeader \in Nat /\ SampleAbove \in Nat /\ Granularity(n) = 1
  BY HeaderAssumption DEF Granularity
<1>2. Preferred(marks, n) = {}
  BY HeaderIs
<1>3. Complete(marks, n) = {}
  <2>1. OnSample(Complete(marks, n), n) = {}
    BY <1>2 DEF Preferred
  <2>2. \A q \in Nat : q % 1 = 0
    OBVIOUS
  <2> QED
    BY <1>1, <2>1, <2>2 DEF OnSample, Complete
<1>4. Complete(marks, m) \subseteq Complete(marks, n)
  <2> SUFFICES ASSUME NEW q \in marks, q + MinHeader <= m PROVE q + MinHeader <= n
    BY DEF Complete
  <2>1. q \in Nat
    OBVIOUS
  <2> QED
    BY <1>1, <2>1
<1> QED
  BY <1>3, <1>4, HeaderIs

\* No piece is longer than what can be read.
LEMMA InReach ==
  ASSUME region \in Nat, NEW n \in Pieces
  PROVE  n <= Reach
<1>1. PICK m \in 0 .. region : n = WholeSectors(m)
  BY DEF Pieces
<1>2. m \in Nat /\ m <= region /\ WholeSectors(m) <= region
  BY <1>1, Whole
<1> QED
  BY <1>1, <1>2, WholeBelow DEF Reach

\* The header of a piece lies in it.
LEMMA HeaderInPiece ==
  ASSUME plain \subseteq Nat, cipher \subseteq Nat, NEW n \in Nat
  PROVE  HeaderIn(n) = NotFound \/ HeaderIn(n) \in 0 .. n
<1>1. MinHeader \in Nat
  BY HeaderAssumption
<1>2. ASSUME NEW marks \in SUBSET Nat
      PROVE  HeaderOffset(marks, n) = NotFound \/ HeaderOffset(marks, n) \in 0 .. n
  <2>1. CASE Preferred(marks, n) = {}
    BY <2>1, HeaderIs
  <2>2. CASE Preferred(marks, n) # {}
    <3>1. HeaderOffset(marks, n) \in Nat /\ HeaderOffset(marks, n) + MinHeader <= n
      BY <2>2, HeaderIs
    <3> QED
      BY <1>1, <3>1
  <2> QED
    BY <2>1, <2>2
<1> QED
  BY <1>2 DEF HeaderIn

\* A larger piece has the header of the smaller one, unless it brought up another
\* that the smaller one did not hold, or is sampled.
LEMMA SameHeader ==
  ASSUME plain \subseteq Nat, cipher \subseteq Nat,
         NEW m \in Nat, NEW n \in Nat, m <= n, HeaderIn(n) # NotFound
  PROVE  \/ HeaderIn(n) = HeaderIn(m)
         \/ HeaderIn(n) + MinHeader > m
         \/ n > SampleAbove
<1> SUFFICES ASSUME HeaderIn(n) + MinHeader <= m, n <= SampleAbove
             PROVE  HeaderIn(n) = HeaderIn(m)
  BY HeaderInPiece, HeaderAssumption
<1>1. CASE HeaderOffset(plain, n) # NotFound
  BY <1>1, FoundBefore DEF HeaderIn
<1>2. CASE HeaderOffset(plain, n) = NotFound
  <2>1. HeaderOffset(plain, m) = NotFound
    BY <1>2, NoneBefore
  <2>2. HeaderOffset(cipher, m) = HeaderOffset(cipher, n)
    BY <1>2, FoundBefore DEF HeaderIn
  <2> QED
    BY <1>2, <2>1, <2>2 DEF HeaderIn
<1> QED
  BY <1>1, <1>2

\* A larger piece has a header when the smaller one has, unless it is sampled.
LEMMA StillFound ==
  ASSUME plain \subseteq Nat, cipher \subseteq Nat,
         NEW m \in Nat, NEW n \in Nat, m <= n, HeaderIn(m) # NotFound, HeaderIn(n) = NotFound
  PROVE  n > SampleAbove
<1> SUFFICES ASSUME n <= SampleAbove PROVE FALSE
  BY HeaderAssumption
<1>1. HeaderOffset(plain, n) = NotFound /\ HeaderOffset(cipher, n) = NotFound
  BY DEF HeaderIn
<1>2. HeaderOffset(plain, m) = NotFound /\ HeaderOffset(cipher, m) = NotFound
  BY <1>1, NoneBefore
<1> QED
  BY <1>2 DEF HeaderIn

(***************************************************************************)
(* The steps.                                                               *)
(***************************************************************************)
\* The lengths that are asked for are numbers.
LEMMA Lengths ==
  ASSUME TypeOK
  PROVE  /\ FirstLength \in Nat
         /\ \A s \in Ladder : Target(s) \in Nat
         /\ Target("whole") = region
<1>1. length \in Nat
  BY PieceInRegion DEF TypeOK
<1>2. RetryLoad \in Nat /\ UpdateLoad \in Nat /\ MinLoad \in Nat
  BY LoadAssumption
<1>3. FirstLength \in Nat
  BY <1>2 DEF FirstLength, Min2, Max2, TypeOK
<1>4. ASSUME NEW s \in Ladder PROVE Target(s) \in Nat
  <2>1. CASE s = "first"
    BY <1>1, <2>1 DEF Target
  <2>2. CASE s = "retry"
    BY <1>1, <1>2, <2>2 DEF Target, Min2, Max2, TypeOK
  <2>3. CASE s = "full"
    BY <2>3 DEF Target, Min2, TypeOK
  <2>4. CASE s = "update"
    BY <1>2, <2>4 DEF Target, Min2, TypeOK
  <2>5. CASE s = "whole"
    BY <2>5 DEF Target, TypeOK
  <2> QED
    BY <2>1, <2>2, <2>3, <2>4, <2>5 DEF Ladder
<1> QED
  BY <1>3, <1>4 DEF Target

LEMMA InitLoad == Init => LoadInv
<1> SUFFICES ASSUME Init PROVE LoadInv
  OBVIOUS
<1>1. region \in Nat /\ imageSize \in Nat /\ cacheLength \in Nat
      /\ plain \subseteq Nat /\ cipher \subseteq Nat
  BY LoadAssumption DEF Init
<1>2. 0 \in Pieces
  <2>1. WholeSectors(0) = 0
    BY Whole
  <2> QED
    BY <1>1, <2>1 DEF Pieces
<1> QED
  BY <1>1, <1>2 DEF Init, LoadInv, TypeOK, Ladder, ErrorsAreTrue

\* A step that reads no piece and goes nowhere keeps the types.
LEMMA BeginKeeps ==
  ASSUME LoadInv, Begin
  PROVE  LoadInv'
<1>1. UNCHANGED input /\ TypeOK
  BY DEF LoadInv, Begin
<1>2. length' \in Pieces'
  <2>1. Normalize(FirstLength) \in Pieces
    BY <1>1, Lengths, Normalized DEF TypeOK
  <2> QED
    BY <1>1, <2>1 DEF Begin, Pieces, input
<1> QED
  BY <1>1, <1>2 DEF Begin, LoadInv, TypeOK, input, Ladder, ErrorsAreTrue

LEMMA ClimbKeeps ==
  ASSUME LoadInv, Climb
  PROVE  LoadInv'
<1>1. /\ UNCHANGED <<input, header, headerLength, mapEnd>> /\ TypeOK /\ stage \in Ladder
      /\ UNCHANGED Pieces /\ UNCHANGED Reach
  BY DEF LoadInv, Climb, Pieces, Reach, input
<1>2. \A n : HeaderIn(n)' = HeaderIn(n)'
  OBVIOUS
<1>3. CASE Attempted(stage) /\ length' = Normalize(Target(stage))
  <2>1. length' \in Pieces /\ (stage = "whole" => length' = Reach)
    BY <1>1, <1>3, Lengths, Normalized DEF TypeOK
  <2>2. CASE Loaded(length') /\ stage' = "header"
    BY <1>1, <2>1, <2>2 DEF LoadInv, TypeOK, Loaded, Held, HeaderIn, input, Ladder, ErrorsAreTrue
  <2>3. CASE NotLoaded(length') /\ stage' = After(stage)
    <3>1. ioFailed' \in BOOLEAN /\ (ioFailed' \/ HeaderIn(length') = NotFound)
      BY <1>1, <2>3 DEF NotLoaded, TypeOK
    <3>2. HeaderIn(length)' = HeaderIn(length')
      BY <1>1 DEF HeaderIn, input
    <3>3. stage' \in {"retry", "full", "update", "whole", "notFound"}
          /\ (stage' = "notFound" => stage = "whole")
      BY <1>1, <2>3 DEF After, Ladder
    <3>4. TypeOK'
      BY <1>1, <2>1, <3>1 DEF TypeOK, input
    <3>5. stage' = "notFound" => length' = Reach'
      BY <1>1, <2>1, <3>3
    <3> QED
      BY <3>1, <3>2, <3>3, <3>4, <3>5 DEF LoadInv, ErrorsAreTrue
  <2> QED
    BY <1>3, <2>2, <2>3 DEF Climb
<1>4. CASE ~Attempted(stage) /\ stage' = After(stage) /\ UNCHANGED <<length, offset, held, ioFailed>>
  <2>1. stage # "first" /\ Target(stage) <= length
    BY <1>1, <1>4, Lengths, PieceInRegion DEF Attempted, TypeOK
  <2>2. stage' \in {"full", "update", "whole", "notFound"}
        /\ (stage' = "notFound" => stage = "whole")
    BY <1>1, <1>4, <2>1 DEF After, Ladder
  <2>3. stage = "whole" => length = Reach
    BY <1>1, <2>1, Lengths, PieceInRegion DEF TypeOK
  <2>4. HeaderIn(length)' = HeaderIn(length)
    BY <1>1, <1>4 DEF HeaderIn, input
  <2>5. ioFailed \/ HeaderIn(length) = NotFound
    BY <1>1, <2>1 DEF LoadInv
  <2>6. TypeOK'
    BY <1>1, <1>4 DEF TypeOK, input
  <2>7. stage' = "notFound" => length' = Reach'
    BY <1>1, <1>4, <2>2, <2>3
  <2> QED
    BY <1>4, <2>2, <2>4, <2>5, <2>6, <2>7 DEF LoadInv, ErrorsAreTrue
<1> QED
  BY <1>3, <1>4 DEF Climb

LEMMA ReadHeaderKeeps ==
  ASSUME LoadInv, ReadHeader
  PROVE  LoadInv'
<1>1. /\ UNCHANGED <<input, length, offset, held, ioFailed>> /\ TypeOK
      /\ UNCHANGED Pieces /\ UNCHANGED HeaderIn(length) /\ Held
      /\ header' = offset /\ headerLength' = length
      /\ mapEnd' \in Nat /\ stage' \in {"badHeader", "capacity"}
  BY LoadAssumption DEF LoadInv, TypeOK, ReadHeader, Pieces, HeaderIn, input
<1> QED
  BY <1>1 DEF LoadInv, TypeOK, Held, Ladder, ErrorsAreTrue, input

\* The larger piece is read, or the map is out of bounds and Extract says so.
LEMMA EnsureCapacityKeeps ==
  ASSUME LoadInv, EnsureCapacity
  PROVE  LoadInv'
<1>1. /\ UNCHANGED <<input, header, headerLength, mapEnd>> /\ TypeOK /\ Held
      /\ header = offset /\ headerLength = length
      /\ UNCHANGED Pieces /\ UNCHANGED Reach
  BY DEF LoadInv, EnsureCapacity, Pieces, Reach, input
<1>2. /\ SectorSize \in Nat \ {0} /\ region \in Nat /\ mapEnd \in Nat
      /\ length \in Nat /\ length <= region /\ (region <= length => length = Reach)
      /\ Reach \in Nat /\ Reach <= region
  BY <1>1, HeaderAssumption, PieceInRegion, Whole DEF TypeOK, Reach
<1>3. offset \in 0 .. length /\ held = length - offset
  BY <1>1, <1>2, HeaderInPiece DEF Held, TypeOK
<1>4. CASE mapEnd <= held /\ stage' = "map" /\ UNCHANGED <<length, offset, held, ioFailed>>
  <2>1. UNCHANGED HeaderIn(length)
    BY <1>1, <1>4 DEF HeaderIn, input
  <2> QED
    BY <1>1, <1>2, <1>4, <2>1 DEF LoadInv, TypeOK, Held, Ladder, ErrorsAreTrue, input
<1>5. CASE /\ mapEnd > held /\ (offset + mapEnd > region \/ Growth <= length)
           /\ stage' = "mapOutside" /\ UNCHANGED <<length, offset, held, ioFailed>>
  <2>1. header + mapEnd > Reach
    <3>1. CASE offset + mapEnd > region
      BY <1>1, <1>2, <1>3, <3>1
    <3>2. CASE Growth <= length
      <4>1. region <= length
        BY <1>2, <1>3, <1>5, <3>2 DEF Growth, Min2, Max2
      <4> QED
        BY <1>1, <1>2, <1>3, <1>5, <4>1
    <3> QED
      BY <1>5, <3>1, <3>2
  <2> QED
    BY <1>1, <1>5, <2>1 DEF LoadInv, TypeOK, Ladder, ErrorsAreTrue, input
<1>6. CASE mapEnd > held /\ offset + mapEnd <= region /\ Growth > length
  <2> DEFINE n == Normalize(Growth)
  <2>1. Growth \in Nat /\ Growth <= region
    BY <1>2, <1>3 DEF Growth, Min2, Max2
  <2>2. /\ n \in Pieces /\ n \in Nat /\ n <= region
        /\ Growth < n + SectorSize
        /\ Growth = region => n = Reach
        /\ length <= Growth => length <= n
    BY <1>1, <1>2, <2>1, Normalized, PieceInRegion DEF TypeOK
  <2>3. HeaderIn(n) = NotFound \/ HeaderIn(n) \in 0 .. n
    BY <1>1, <2>2, HeaderInPiece DEF TypeOK
  <2>4. header + mapEnd > n => header + mapEnd > Reach
    <3>1. CASE Growth = region
      BY <2>2, <3>1
    <3>2. CASE Growth # region
      <4>1. Growth >= offset + mapEnd + SectorSize
        BY <1>2, <1>3, <3>2 DEF Growth, Min2, Max2
      <4> QED
        BY <1>1, <1>2, <1>3, <2>1, <2>2, <4>1
    <3> QED
      BY <3>1, <3>2
  <2>7. length <= n /\ n <= Reach /\ SampleAbove \in Nat
    BY <1>1, <1>2, <1>6, <2>1, <2>2, InReach, HeaderAssumption
  <2>8. HeaderIn(n) # NotFound /\ HeaderIn(n) # header =>
          HeaderIn(n) + MinHeader > headerLength \/ Reach > SampleAbove
    <3> HIDE DEF n
    <3> SUFFICES ASSUME HeaderIn(n) # NotFound, HeaderIn(n) # header
                 PROVE  HeaderIn(n) + MinHeader > headerLength \/ Reach > SampleAbove
      OBVIOUS
    <3>1. HeaderIn(n) + MinHeader > length \/ n > SampleAbove
      BY <1>1, <1>2, <2>2, <2>7, SameHeader DEF Held, TypeOK
    <3> QED
      BY <1>1, <1>2, <2>2, <2>7, <3>1
  <2>9. HeaderIn(n) = NotFound => Reach > SampleAbove
    <3> HIDE DEF n
    <3> SUFFICES ASSUME HeaderIn(n) = NotFound PROVE Reach > SampleAbove
      OBVIOUS
    <3>1. n > SampleAbove
      BY <1>1, <1>2, <2>2, <2>7, StillFound DEF Held, TypeOK
    <3> QED
      BY <1>2, <2>2, <2>7, <3>1
  <2>5. CASE Loaded(n) /\ length' = n /\ stage' = Fits
    <3>1. HeaderIn(length)' = HeaderIn(n)
      BY <1>1, <2>5 DEF HeaderIn, input
    <3>2. offset' = HeaderIn(n) /\ HeaderIn(n) # NotFound /\ held' = n - HeaderIn(n)
          /\ UNCHANGED ioFailed
      BY <2>5 DEF Loaded
    <3>3. TypeOK'
      BY <1>1, <2>2, <2>5, <3>2 DEF TypeOK, input
    <3>4. CASE mapEnd <= held' /\ stage' = "map"
      <4>1. headerLength <= n
        BY <1>1, <1>2, <1>6, <2>1, <2>2
      <4>2. UNCHANGED HeaderIn(headerLength)
        BY <1>1 DEF HeaderIn, input
      <4> QED
        BY <1>1, <2>5, <3>1, <3>2, <3>3, <3>4, <4>1, <4>2
           DEF LoadInv, TypeOK, Held, Ladder, ErrorsAreTrue
    <3>5. CASE mapEnd > held' /\ stage' = "mapOutside"
      <4>1. offset' = header => header + mapEnd > n
        BY <1>2, <2>2, <2>3, <3>2, <3>5
      <4>2. offset' # header => offset' + MinHeader > headerLength \/ Reach > SampleAbove
        BY <1>1, <2>8, <3>2
      <4>3. offset' # NotFound
        BY <3>2
      <4> QED
        BY <1>1, <2>4, <3>3, <3>5, <4>1, <4>2, <4>3 DEF LoadInv, Ladder, ErrorsAreTrue
    <3>6. held' \in Nat
      BY <2>2, <2>3, <3>2
    <3> QED
      BY <1>2, <2>5, <3>4, <3>5, <3>6 DEF Fits
  <2>6. CASE NotLoaded(n) /\ stage' = "mapOutside" /\ UNCHANGED length
    <3>1. TypeOK'
      BY <1>1, <2>6 DEF TypeOK, input, NotLoaded
    <3>2. ioFailed' \/ (offset' # header /\ Reach > SampleAbove)
      BY <1>1, <1>3, <2>6, <2>9 DEF NotLoaded, NotFound
    <3> QED
      BY <1>1, <2>6, <3>1, <3>2 DEF LoadInv, Ladder, ErrorsAreTrue
  <2> QED
    BY <1>2, <1>3, <1>6, <2>1, <2>5, <2>6 DEF EnsureCapacity
<1> QED
  BY <1>4, <1>5, <1>6 DEF EnsureCapacity

LEMMA NextLoad ==
  ASSUME LoadInv, [Next]_vars
  PROVE  LoadInv'
<1>1. CASE UNCHANGED vars
  BY <1>1 DEF vars, input, LoadInv, TypeOK, Pieces, Held, HeaderIn, Reach, ErrorsAreTrue
<1> QED
  BY <1>1, BeginKeeps, ClimbKeeps, ReadHeaderKeeps, EnsureCapacityKeeps DEF Next

(***************************************************************************)
(* The theorems.                                                            *)
(***************************************************************************)
\* What the ladder knows of the pieces it read.
THEOREM LoadInvariant == Spec => []LoadInv
<1> QED
  BY InitLoad, NextLoad, PTL DEF Spec

\* Extract reports a missing header only of a package in which the search finds none,
\* and a map out of bounds only when it ends beyond what can be read, however the
\* sizes and the lengths of the pieces lie; the second may be false where a larger
\* piece brought up another header, or was sampled and held none that was found.
THEOREM LoadErrorsTrue == Spec => []ErrorsAreTrue
<1>1. LoadInv => ErrorsAreTrue
  BY DEF LoadInv
<1> QED
  BY <1>1, LoadInvariant, PTL

\* The sector map is read inside the buffer and the file, and is that of the header
\* the buffer begins with.
THEOREM MapInBounds == Spec => []MapOfTheHeader
<1>1. ASSUME LoadInv
      PROVE  MapOfTheHeader
  <2> SUFFICES ASSUME stage = "map"
               PROVE  /\ mapEnd <= held /\ offset + held <= region
                      /\ \/ offset = header
                         \/ offset + MinHeader > headerLength
                         \/ length > SampleAbove
    BY DEF MapOfTheHeader
  <2>1. /\ TypeOK /\ Held /\ mapEnd <= held
        /\ header = HeaderIn(headerLength) /\ headerLength \in Pieces /\ headerLength <= length
    BY <1>1 DEF LoadInv
  <2>2. length \in Nat /\ length <= region /\ headerLength \in Nat
    BY <2>1, PieceInRegion DEF TypeOK
  <2>3. offset \in 0 .. length
    BY <2>1, <2>2, HeaderInPiece DEF Held, TypeOK
  <2>4. offset + held <= region
    BY <2>1, <2>2, <2>3 DEF Held, TypeOK
  <2> QED
    BY <2>1, <2>2, <2>4, SameHeader DEF Held, TypeOK
<1> QED
  BY <1>1, LoadInvariant, PTL

-----------------------------------------------------------------------------
(***************************************************************************)
(* The search itself, loop by loop.                                         *)
(***************************************************************************)
\* The index of the loops does not run over: the buffer ends a stride below the
\* end of the 32 bits.
IndexFits ==
  /\ size + FastStride <= Wrap /\ size + SectorSize <= Wrap
  /\ size + Granularity(size) <= Wrap

\* What a loop has come past holds no header, nor anything an earlier loop looks at.
Passed(ps, stride, first) ==
  /\ i >= first /\ (i - first) % stride = 0
  /\ \A p \in ps : i <= p

Searched ==
  LET found == Complete(hits, size) IN
  /\ loop \in {"fast", "sector", "byte"} => AtStart(found) = {}
  /\ loop \in {"sector", "byte"} => OnFast(found) = {}
  /\ loop = "byte" => OnSector(found) = {}
  /\ loop = "fast" => Passed(OnFast(found), FastStride, FastStart)
  /\ loop = "sector" => Passed(OnSector(found), SectorSize, 0)
  /\ loop = "byte" => Passed(OnSample(found, size), Granularity(size), 0)

\* The state of the search; how large a buffer is does not matter.
ScanTyped == size \in Nat /\ hits \in SUBSET Nat /\ i \in Nat

\* The inductive invariant: what holds of a search whose index fits.
ScanInv == ScanTyped /\ (IndexFits => Searched /\ FindsHeader)

\* The next place a loop looks at is the next multiple of its stride.
LEMMA NextTurn ==
  ASSUME NEW s \in Nat \ {0}, NEW a \in Nat, NEW f \in Nat, a >= f, (a - f) % s = 0
  PROVE  /\ ((a + s) - f) % s = 0
         /\ \A p \in Nat : a < p /\ (p - f) % s = 0 => a + s <= p
<1> DEFINE q == (a - f) \div s
<1>1. a - f \in Nat /\ q \in Int
  OBVIOUS
<1>2. a - f = s * q + ((a - f) % s)
  BY <1>1
<1>3. a - f = s * q
  BY <1>1, <1>2
<1> HIDE DEF q
<1>4. (a + s) - f = s * (q + 1)
  BY <1>1, <1>3
<1>5. (s * (q + 1)) % s = 0
  BY <1>1
<1>6. ASSUME NEW p \in Nat, a < p, (p - f) % s = 0
      PROVE  a + s <= p
  <2> DEFINE r == (p - f) \div s
  <2>1. p - f \in Nat /\ r \in Int
    BY <1>6
  <2>2. p - f = s * r + ((p - f) % s)
    BY <2>1
  <2>3. p - f = s * r
    BY <1>6, <2>1, <2>2
  <2> HIDE DEF r
  <2>4. s * (r - q) = p - a
    BY <1>1, <1>3, <2>1, <2>3
  <2>5. CASE r - q >= 1
    <3>1. s * (r - q) >= s * 1
      BY <1>1, <2>1, <2>5
    <3> QED
      BY <2>4, <3>1
  <2>6. CASE r - q <= 0
    <3>1. s * (r - q) <= 0
      BY <1>1, <2>1, <2>6
    <3> QED
      BY <1>6, <2>4, <3>1
  <2> QED
    BY <1>1, <2>1, <2>5, <2>6
<1> QED
  BY <1>4, <1>5, <1>6

\* A loop looks at a place where no header lies and comes past it.
LEMMA Passes ==
  ASSUME NEW ps, NEW s \in Nat \ {0}, NEW f \in Nat, i \in Nat, ps \in SUBSET Nat,
         Passed(ps, s, f), i \notin ps, \A p \in ps : (p - f) % s = 0, i' = i + s
  PROVE  i' \in Nat /\ i' >= f /\ (i' - f) % s = 0 /\ \A p \in ps : i' <= p
<1>1. i >= f /\ (i - f) % s = 0 /\ \A p \in ps : i <= p
  BY DEF Passed
<1>2. \A p \in ps : i < p
  BY <1>1
<1>3. /\ ((i + s) - f) % s = 0
      /\ \A p \in Nat : i < p /\ (p - f) % s = 0 => i + s <= p
  BY <1>1, NextTurn
<1> QED
  BY <1>1, <1>2, <1>3

\* The first header of the most preferred kind is what the search looks for.
LEMMA FirstIs ==
  ASSUME ScanTyped, i \in Preferred(hits, size), \A p \in Preferred(hits, size) : i <= p
  PROVE  HeaderOffset(hits, size) = i
<1> DEFINE ps == Preferred(hits, size)
           h == HeaderOffset(hits, size)
<1>1. ps \in SUBSET Nat /\ h \in ps /\ h = Least(ps)
  BY HeaderIs DEF ScanTyped, Complete
<1>2. h <= i
  BY <1>1, LeastIs
<1>3. i <= h
  BY <1>1
<1> QED
  BY <1>1, <1>2, <1>3 DEF ScanTyped

\* The headers of the buffer, and where they are looked for.
LEMMA Places ==
  ASSUME ScanTyped, IndexFits
  PROVE  /\ FastStride \in Nat \ {0} /\ SectorSize \in Nat \ {0} /\ Granularity(size) \in Nat \ {0}
         /\ FastStart \in Nat /\ MagicSize \in Nat /\ MinHeader \in Nat /\ MagicSize <= MinHeader
         /\ Wrap \in Nat \ {0} /\ size % Wrap = size
         /\ Complete(hits, size) \in SUBSET Nat
         /\ \A p \in Complete(hits, size) : p + MinHeader <= size /\ p + MagicSize <= size /\ p < size
         /\ \A p : HeaderAt(p) <=> p \in Complete(hits, size)
<1>1. /\ FastStride \in Nat \ {0} /\ SectorSize \in Nat \ {0} /\ Granularity(size) \in Nat \ {0}
      /\ FastStart \in Nat /\ MagicSize \in Nat \ {0} /\ MinHeader \in Nat /\ MagicSize <= MinHeader
      /\ Wrap \in Nat \ {0} /\ size \in Nat
  BY HeaderAssumption, ScanAssumption DEF Granularity, ScanTyped
<1>2. size < Wrap
  BY <1>1 DEF IndexFits
<1>3. size % Wrap = size
  BY <1>1, <1>2
<1>4. Complete(hits, size) \in SUBSET Nat
  BY DEF ScanTyped, Complete
<1>5. \A p \in Complete(hits, size) : p + MinHeader <= size
  BY DEF Complete
<1>6. \A p \in Complete(hits, size) : p + MagicSize <= size /\ p < size
  BY <1>1, <1>4, <1>5
<1>7. \A p : HeaderAt(p) <=> p \in Complete(hits, size)
  BY DEF HeaderAt, Complete
<1> QED
  BY <1>1, <1>3, <1>4, <1>5, <1>6, <1>7

\* The kinds of offsets are sorted by preference.
LEMMA PreferredIs ==
  /\ AtStart(Complete(hits, size)) # {} => Preferred(hits, size) = AtStart(Complete(hits, size))
  /\ AtStart(Complete(hits, size)) = {} =>
       /\ OnFast(Complete(hits, size)) # {} => Preferred(hits, size) = OnFast(Complete(hits, size))
       /\ OnFast(Complete(hits, size)) = {} =>
            /\ OnSector(Complete(hits, size)) # {} =>
                 Preferred(hits, size) = OnSector(Complete(hits, size))
            /\ OnSector(Complete(hits, size)) = {} =>
                 Preferred(hits, size) = OnSample(Complete(hits, size), size)
BY DEF Preferred

\* A loop that looks at the headers ps, the most preferred there are: it returns
\* the first of them, or comes past a place where none is.
LEMMA LookStep ==
  ASSUME ScanTyped, IndexFits, NEW ps, NEW s \in Nat \ {0}, NEW f \in Nat,
         ps = {p \in Complete(hits, size) : p >= f /\ (p - f) % s = 0},
         ps # {} => Preferred(hits, size) = ps,
         Passed(ps, s, f), i < size, size + s <= Wrap, loop # "done", Look(s)
  PROVE  \/ loop' = "done" /\ result' = HeaderOffset(hits, size) /\ UNCHANGED <<i, buffer>>
         \/ /\ i' \in Nat /\ i' >= f /\ (i' - f) % s = 0 /\ \A p \in ps : i' <= p
            /\ UNCHANGED <<loop, result, buffer>>
<1>1. i \in Nat /\ size \in Nat /\ Wrap \in Nat \ {0}
  BY Places DEF ScanTyped
<1>2. i >= f /\ (i - f) % s = 0 /\ \A p \in ps : i <= p
  BY DEF Passed
<1>3. i \in ps <=> HeaderAt(i)
  BY <1>2, Places
<1>4. CASE HeaderAt(i) /\ Return(i)
  <2>1. HeaderOffset(hits, size) = i
    BY <1>2, <1>3, <1>4, FirstIs
  <2> QED
    BY <1>4, <2>1 DEF Return
<1>5. CASE ~HeaderAt(i) /\ i' = (i + s) % Wrap /\ UNCHANGED <<buffer, loop, result>>
  <2>1. i' = i + s
    BY <1>1, <1>5
  <2>2. ps \in SUBSET Nat /\ \A p \in ps : (p - f) % s = 0
    BY Places
  <2>3. i' \in Nat /\ i' >= f /\ (i' - f) % s = 0 /\ \A p \in ps : i' <= p
    BY <1>1, <1>3, <1>5, <2>1, <2>2, Passes
  <2> QED
    BY <1>5, <2>3
<1> QED
  BY <1>4, <1>5 DEF Look

\* The steps of the search, one by one.
LEMMA StartStep ==
  ASSUME ScanInv, IndexFits, Start
  PROVE  Searched' /\ FindsHeader'
<1> DEFINE found == Complete(hits, size)
<1>1. ScanTyped /\ loop = "start" /\ found' = found
  BY DEF ScanInv, Start, Return, BeginLoop, buffer, Complete
<1>2. found \in SUBSET Nat /\ \A p \in found : p + MinHeader <= size
  BY <1>1, Places
<1>3. CASE size < MinHeader /\ Return(NotFound)
  <2>1. found = {}
    BY <1>1, <1>2, <1>3, Places DEF ScanTyped
  <2>2. HeaderOffset(hits, size) = NotFound
    <3>1. Preferred(hits, size) = {}
      BY <1>1, <2>1, HeaderIs DEF ScanTyped
    <3> QED
      BY <1>1, <3>1, HeaderIs DEF ScanTyped
  <2> QED
    BY <1>3, <2>2 DEF Return, buffer, Searched, FindsHeader
<1>4. CASE size >= MinHeader /\ HeaderAt(0) /\ Return(0)
  <2>1. 0 \in found
    BY <1>1, <1>4, Places
  <2>2. AtStart(found) = {0} /\ Preferred(hits, size) = {0}
    BY <2>1, PreferredIs DEF AtStart
  <2>3. HeaderOffset(hits, size) = 0
    BY <1>1, <2>2, HeaderIs DEF ScanTyped
  <2> QED
    BY <1>4, <2>3 DEF Return, buffer, Searched, FindsHeader
<1>5. CASE size >= MinHeader /\ ~HeaderAt(0) /\ BeginLoop("fast", FastStart)
  <2>1. AtStart(found) = {}
    BY <1>1, <1>5, Places DEF AtStart
  <2>2. i' = FastStart /\ FastStart \in Nat /\ (FastStart - FastStart) % FastStride = 0
    BY <1>1, <1>5, Places DEF BeginLoop
  <2>3. Passed(OnFast(found), FastStride, FastStart)'
    BY <1>1, <2>2 DEF Passed, OnFast
  <2> QED
    BY <1>1, <1>5, <2>1, <2>3 DEF BeginLoop, Searched, FindsHeader
<1> QED
  BY <1>3, <1>4, <1>5 DEF Start

\* What the loops look at, in one form.
LEMMA Kinds ==
  ASSUME ScanTyped, IndexFits
  PROVE  LET found == Complete(hits, size) IN
         /\ OnFast(found) = {p \in found : p >= FastStart /\ (p - FastStart) % FastStride = 0}
         /\ OnSector(found) = {p \in found : p >= 0 /\ (p - 0) % SectorSize = 0}
         /\ OnSample(found, size) = {p \in found : p >= 0 /\ (p - 0) % Granularity(size) = 0}
<1> DEFINE found == Complete(hits, size)
<1>1. found \in SUBSET Nat
  BY Places
<1>2. \A p \in found : p >= 0 /\ p - 0 = p
  BY <1>1
<1> QED
  BY <1>2 DEF OnFast, OnSector, OnSample

LEMMA FastStep ==
  ASSUME ScanInv, IndexFits, Fast
  PROVE  Searched' /\ FindsHeader'
<1> DEFINE found == Complete(hits, size)
           ps == OnFast(found)
<1>1. ScanTyped /\ loop = "fast" /\ Searched
  BY DEF ScanInv, Fast
<1>2. /\ found \in SUBSET Nat /\ AtStart(found) = {} /\ Passed(ps, FastStride, FastStart)
      /\ FastStride \in Nat \ {0} /\ FastStart \in Nat /\ MagicSize \in Nat
      /\ i \in Nat /\ size \in Nat
  BY <1>1, Places DEF Searched, ScanTyped
<1>3. ps = {p \in found : p >= FastStart /\ (p - FastStart) % FastStride = 0}
  BY <1>1, Kinds
<1>4. ps # {} => Preferred(hits, size) = ps
  BY <1>2, PreferredIs
<1>5. CASE i < size /\ i + MagicSize <= size /\ Look(FastStride)
  <2>1. size + FastStride <= Wrap
    BY DEF IndexFits
  <2> HIDE DEF ps
  <2>2. \/ loop' = "done" /\ result' = HeaderOffset(hits, size) /\ UNCHANGED <<i, buffer>>
        \/ /\ i' \in Nat /\ i' >= FastStart /\ (i' - FastStart) % FastStride = 0
           /\ \A p \in ps : i' <= p
           /\ UNCHANGED <<loop, result, buffer>>
    BY <1>1, <1>2, <1>3, <1>4, <1>5, <2>1, LookStep
  <2>3. found' = found /\ OnFast(found)' = ps
    BY <2>2 DEF buffer, Complete, ps, OnFast
  <2> QED
    BY <1>1, <1>2, <2>2, <2>3 DEF buffer, Searched, FindsHeader, Passed
<1>6. CASE ~(i < size /\ i + MagicSize <= size) /\ BeginLoop("sector", 0)
  <2>1. ps = {}
    <3> SUFFICES ASSUME NEW p \in ps PROVE FALSE
      OBVIOUS
    <3>1. i <= p /\ p \in found
      BY <1>2, <1>3 DEF Passed
    <3>2. p + MagicSize <= size /\ p < size /\ p \in Nat
      BY <1>1, <1>2, <3>1, Places
    <3> QED
      BY <1>2, <1>6, <3>1, <3>2
  <2>2. found' = found /\ i' = 0 /\ loop' = "sector" /\ result' = result
    BY <1>6 DEF BeginLoop, buffer, Complete
  <2>3. Passed(OnSector(found), SectorSize, 0)'
    <3>1. (0 - 0) % SectorSize = 0
      BY <1>1, Places
    <3>2. OnSector(found) \in SUBSET Nat
      BY <1>2 DEF OnSector
    <3> QED
      BY <2>2, <3>1, <3>2 DEF Passed, OnSector
  <2> QED
    BY <1>2, <2>1, <2>2, <2>3 DEF Searched, FindsHeader
<1> QED
  BY <1>5, <1>6 DEF Fast

LEMMA SectorStep ==
  ASSUME ScanInv, IndexFits, SectorScan
  PROVE  Searched' /\ FindsHeader'
<1> DEFINE found == Complete(hits, size)
           ps == OnSector(found)
<1>1. ScanTyped /\ loop = "sector" /\ Searched
  BY DEF ScanInv, SectorScan
<1>2. /\ found \in SUBSET Nat /\ AtStart(found) = {} /\ OnFast(found) = {}
      /\ Passed(ps, SectorSize, 0)
      /\ SectorSize \in Nat \ {0} /\ MagicSize \in Nat \ {0} /\ i \in Nat /\ size \in Nat
  BY <1>1, Places, HeaderAssumption DEF Searched, ScanTyped
<1>3. ps = {p \in found : p >= 0 /\ (p - 0) % SectorSize = 0}
  BY <1>1, Kinds
<1>4. ps # {} => Preferred(hits, size) = ps
  BY <1>2, PreferredIs
<1>5. CASE i + MagicSize <= size /\ Look(SectorSize)
  <2>1. size + SectorSize <= Wrap /\ i < size
    BY <1>2, <1>5 DEF IndexFits
  <2> HIDE DEF ps
  <2>2. \/ loop' = "done" /\ result' = HeaderOffset(hits, size) /\ UNCHANGED <<i, buffer>>
        \/ /\ i' \in Nat /\ i' >= 0 /\ (i' - 0) % SectorSize = 0
           /\ \A p \in ps : i' <= p
           /\ UNCHANGED <<loop, result, buffer>>
    BY <1>1, <1>2, <1>3, <1>4, <1>5, <2>1, LookStep
  <2>3. found' = found /\ OnSector(found)' = ps /\ OnFast(found)' = {}
    BY <1>2, <2>2 DEF buffer, Complete, ps, OnSector, OnFast
  <2> QED
    BY <1>1, <1>2, <2>2, <2>3 DEF buffer, Searched, FindsHeader, Passed
<1>6. CASE ~(i + MagicSize <= size) /\ BeginLoop("byte", 0)
  <2>1. ps = {}
    <3> SUFFICES ASSUME NEW p \in ps PROVE FALSE
      OBVIOUS
    <3>1. i <= p /\ p \in found
      BY <1>2, <1>3 DEF Passed
    <3>2. p + MagicSize <= size /\ p \in Nat
      BY <1>1, <1>2, <3>1, Places
    <3> QED
      BY <1>2, <1>6, <3>1, <3>2
  <2>2. found' = found /\ i' = 0 /\ loop' = "byte" /\ result' = result /\ size' = size
    BY <1>6 DEF BeginLoop, buffer, Complete
  <2>3. Passed(OnSample(found, size), Granularity(size), 0)'
    <3>1. (0 - 0) % Granularity(size) = 0
      BY <1>1, Places
    <3>2. OnSample(found, size) \in SUBSET Nat
      BY <1>2 DEF OnSample
    <3> QED
      BY <2>2, <3>1, <3>2 DEF Passed, OnSample, Granularity
  <2> QED
    BY <1>2, <2>1, <2>2, <2>3 DEF Searched, FindsHeader
<1> QED
  BY <1>5, <1>6 DEF SectorScan

LEMMA ByteStep ==
  ASSUME ScanInv, IndexFits, ByteScan
  PROVE  Searched' /\ FindsHeader'
<1> DEFINE found == Complete(hits, size)
           ps == OnSample(found, size)
           s == Granularity(size)
<1>1. ScanTyped /\ loop = "byte" /\ Searched /\ size % Wrap = size
  BY Places DEF ScanInv, ByteScan
<1>2. /\ found \in SUBSET Nat /\ AtStart(found) = {} /\ OnFast(found) = {}
      /\ OnSector(found) = {} /\ Passed(ps, s, 0)
      /\ s \in Nat \ {0} /\ MagicSize \in Nat \ {0} /\ i \in Nat /\ size \in Nat
  BY <1>1, Places, HeaderAssumption DEF Searched, ScanTyped
<1>3. ps = {p \in found : p >= 0 /\ (p - 0) % s = 0}
  BY <1>1, Kinds
<1>4. Preferred(hits, size) = ps
  BY <1>2, PreferredIs
<1>5. CASE i + MagicSize <= size /\ Look(s)
  <2>1. size + s <= Wrap /\ i < size
    BY <1>2, <1>5 DEF IndexFits
  <2> HIDE DEF ps, s
  <2>2. \/ loop' = "done" /\ result' = HeaderOffset(hits, size) /\ UNCHANGED <<i, buffer>>
        \/ /\ i' \in Nat /\ i' >= 0 /\ (i' - 0) % s = 0
           /\ \A p \in ps : i' <= p
           /\ UNCHANGED <<loop, result, buffer>>
    BY <1>1, <1>2, <1>3, <1>4, <1>5, <2>1, LookStep
  <2>3. /\ found' = found /\ OnSample(found, size)' = ps /\ Granularity(size)' = s
        /\ OnFast(found)' = {} /\ OnSector(found)' = {}
    BY <1>2, <2>2 DEF buffer, Complete, ps, s, OnSample, OnSector, OnFast, Granularity
  <2> QED
    BY <1>1, <1>2, <2>2, <2>3 DEF buffer, Searched, FindsHeader, Passed
<1>6. CASE ~(i + MagicSize <= size) /\ Return(NotFound)
  <2>1. ps = {}
    <3> SUFFICES ASSUME NEW p \in ps PROVE FALSE
      OBVIOUS
    <3>1. i <= p /\ p \in found
      BY <1>2, <1>3 DEF Passed
    <3>2. p + MagicSize <= size /\ p \in Nat
      BY <1>1, <1>2, <3>1, Places
    <3> QED
      BY <1>2, <1>6, <3>1, <3>2
  <2>2. HeaderOffset(hits, size) = NotFound
    BY <1>1, <1>4, <2>1, HeaderIs DEF ScanTyped
  <2> QED
    BY <1>6, <2>2 DEF Return, buffer, Searched, FindsHeader
<1> QED
  BY <1>1, <1>5, <1>6 DEF ByteScan

\* The four loops return the preferred header of the buffer, or none when it
\* holds none, as long as their 32-bit index does not run over.
THEOREM FoundTheorem == ScanSpec => [](IndexFits => FindsHeader)
<1>1. ScanInit => ScanInv
  <2> SUFFICES ASSUME ScanInit PROVE ScanInv
    OBVIOUS
  <2>1. hits \in SUBSET (0 .. size - MagicSize) /\ size \in 0 .. MaxSize /\ i = 0 /\ loop = "start"
    BY DEF ScanInit
  <2>2. ScanTyped
    BY <2>1, ScanAssumption DEF ScanTyped
  <2> QED
    BY <2>1, <2>2 DEF ScanInv, Searched, FindsHeader
<1>2. ScanInv /\ [ScanNext]_scanVars => ScanInv'
  <2> SUFFICES ASSUME ScanInv, [ScanNext]_scanVars PROVE ScanInv'
    OBVIOUS
  <2>1. CASE UNCHANGED scanVars
    BY <2>1 DEF scanVars, ScanInv, ScanTyped, IndexFits, Searched, FindsHeader, Passed, Complete,
       Granularity, OnSample, OnFast, OnSector, AtStart
  <2>2. CASE ScanNext
    <3>1. ScanTyped /\ UNCHANGED buffer /\ (IndexFits' <=> IndexFits)
      BY <2>2 DEF ScanNext, ScanInv, IndexFits, Start, Fast, SectorScan, ByteScan, Look, Return,
         BeginLoop, buffer
    <3>2. i' \in Nat
      <4>1. i \in Nat /\ size \in Nat /\ FastStart \in Nat /\ Wrap \in Nat \ {0}
            /\ FastStride \in Nat /\ SectorSize \in Nat /\ Granularity(size) \in Nat
        BY <3>1, HeaderAssumption, ScanAssumption DEF ScanTyped, Granularity
      <4>2. i' \in {i, 0, FastStart} \cup {(i + t) % Wrap : t \in {FastStride, SectorSize, Granularity(size)}}
        BY <2>2 DEF ScanNext, Start, Fast, SectorScan, ByteScan, Look, Return, BeginLoop
      <4>3. \A t \in Nat : (i + t) % Wrap \in Nat
        BY <4>1
      <4> QED
        BY <4>1, <4>2, <4>3
    <3>3. ScanTyped'
      BY <3>1, <3>2 DEF ScanTyped, buffer
    <3>4. IndexFits => Searched' /\ FindsHeader'
      BY <2>2, StartStep, FastStep, SectorStep, ByteStep DEF ScanNext
    <3> QED
      BY <3>1, <3>3, <3>4 DEF ScanInv
  <2> QED
    BY <2>1, <2>2
<1>3. ScanInv => (IndexFits => FindsHeader)
  BY DEF ScanInv
<1> QED
  BY <1>1, <1>2, <1>3, PTL DEF ScanSpec
=============================================================================
