------------------------------ MODULE PfscLoad ------------------------------
(***************************************************************************)
(* How PKG::Extract brings the PFSC container into memory: it reads a first *)
(* piece of the PFS image, looks for the header in the decrypted and then   *)
(* in the encrypted bytes, reads larger pieces while there is none, takes   *)
(* the place and the length of the sector map from the header, and reads    *)
(* once more when the map lies beyond what was read.                        *)
(*                                                                          *)
(* Sizes are lengths from the start of the PFS image on.  A piece read is a *)
(* prefix of the image, so what it holds is told by its length.             *)
(***************************************************************************)
EXTENDS PfscHeader, FiniteSets

CONSTANTS
  Regions,       \* what max_pfs_read can be: the bytes of the file from the image on
  ImageSizes,    \* what pfs_image_size can be, 0 excluded
  CacheLengths,  \* what pfs_cache_size * 2 can be
  Positions,     \* where the magic number can stand
  MapEnds,       \* where a header can say its sector map ends, from the header on
  MinLoad,       \* 0x100000, the least first piece
  RetryLoad,     \* 0x800000, the least second piece
  UpdateLoad     \* 0x400000, the piece for update packages

ASSUME LoadAssumption ==
  /\ Regions \subseteq Nat /\ ImageSizes \subseteq Nat \ {0} /\ CacheLengths \subseteq Nat
  /\ Positions \subseteq Nat /\ MapEnds \subseteq Nat
  /\ MinLoad \in Nat /\ RetryLoad \in Nat /\ UpdateLoad \in Nat

VARIABLES
  region, imageSize, cacheLength,   \* max_pfs_read, pfs_image_size, cache_length
  plain, cipher,     \* where the magic stands in the decrypted image, in the file
  stage,             \* how far Extract is
  length,            \* of the piece read last
  offset,            \* pfsc_offset
  held,              \* pfsc.size(): from the header to the end of the piece
  header,            \* history: the offset of the header that pfsChdr was copied from
  headerLength,      \* history: the length of the piece it was copied from
  mapEnd,            \* sector_map_end
  ioFailed           \* history: a Seek or Read of the file failed

input == <<region, imageSize, cacheLength, plain, cipher>>
vars == <<input, stage, length, offset, held, header, headerLength, mapEnd, ioFailed>>

Min2(a, b) == IF a < b THEN a ELSE b
Max2(a, b) == IF a > b THEN a ELSE b

WholeSectors(n) == n - (n % SectorSize)

\* normalize_pfsc_read_length: whole sectors of the region.
Normalize(n) == WholeSectors(Min2(n, region))

\* The first length: the cache twice over, or the image, and at least MinLoad.
FirstLength ==
  LET cached == Min2(cacheLength, region)
      wanted == IF cached = 0 THEN Min2(imageSize, region) ELSE cached
  IN  IF wanted > 0 /\ wanted < MinLoad THEN Max2(wanted, Min2(MinLoad, region))
                                        ELSE wanted

Init ==
  /\ region \in Regions /\ imageSize \in ImageSizes /\ cacheLength \in CacheLengths
  /\ plain \in SUBSET Positions /\ cipher \in SUBSET Positions
  /\ Cardinality(plain) <= 2 /\ Cardinality(cipher) <= 1
  /\ stage = "begin"
  /\ length = 0 /\ offset = 0 /\ held = 0
  /\ header = NotFound /\ headerLength = 0 /\ mapEnd = 0
  /\ ioFailed = FALSE

\* No whole sector can be read: Extract goes on without any block.
Begin ==
  /\ stage = "begin"
  /\ length' = Normalize(FirstLength)
  /\ stage' = IF length' = 0 THEN "noBlocks" ELSE "first"
  /\ UNCHANGED <<input, offset, held, header, headerLength, mapEnd, ioFailed>>

\* Where GetPFSCOffset finds the header in the first n bytes of the image.
HeaderIn(n) == IF HeaderOffset(plain, n) # NotFound THEN HeaderOffset(plain, n)
                                                     ELSE HeaderOffset(cipher, n)

\* load_pfsc: the outcome of an attempt to read n bytes.
Loaded(n) ==
  /\ HeaderIn(n) # NotFound
  /\ offset' = HeaderIn(n) /\ held' = n - HeaderIn(n)
  /\ UNCHANGED ioFailed

NotLoaded(n) ==
  /\ UNCHANGED held
  /\ \/ HeaderIn(n) = NotFound /\ offset' = NotFound /\ UNCHANGED ioFailed
     \/ ioFailed' = TRUE /\ UNCHANGED offset

(***************************************************************************)
(* The ladder of attempts.                                                  *)
(***************************************************************************)
Ladder == {"first", "retry", "full", "update", "whole"}

After(s) == CASE s = "first" -> "retry" [] s = "retry" -> "full"
              [] s = "full" -> "update" [] s = "update" -> "whole"
              [] s = "whole" -> "notFound"

Target(s) == CASE s = "first" -> length
               [] s = "retry" -> Min2(region, Max2(length * 4, RetryLoad))
               [] s = "full" -> Min2(region, imageSize)
               [] s = "update" -> Min2(region, UpdateLoad)
               [] s = "whole" -> region

\* Mutation: the last rung is tried only when the whole image is longer.
AttemptedUnlessWhole(s) == s = "first" \/ (s # "whole" /\ Target(s) > length)

\* A rung is climbed when it reads more than the one before.
Attempted(s) == s = "first" \/ Target(s) > length

Climb ==
  /\ stage \in Ladder
  /\ \/ /\ Attempted(stage)
        /\ length' = Normalize(Target(stage))
        /\ \/ Loaded(length') /\ stage' = "header"
           \/ NotLoaded(length') /\ stage' = After(stage)
     \/ /\ ~Attempted(stage)
        /\ stage' = After(stage)
        /\ UNCHANGED <<length, offset, held, ioFailed>>
  /\ UNCHANGED <<input, header, headerLength, mapEnd>>

(***************************************************************************)
(* The header and the sector map.                                           *)
(***************************************************************************)
\* pfsChdr is copied and checked.  What it says of the map is whatever it says.
ReadHeader ==
  /\ stage = "header"
  /\ header' = offset /\ headerLength' = length
  /\ \/ stage' = "badHeader" /\ UNCHANGED mapEnd
     \/ stage' = "capacity" /\ mapEnd' \in MapEnds
  /\ UNCHANGED <<input, length, offset, held, ioFailed>>

\* The piece ensure_pfsc_capacity asks for.
Growth == Min2(region, Max2(length * 2, offset + mapEnd + SectorSize))

\* Mutation: the map is taken to be there once the larger piece was read.
FitsUnchecked == "map"

\* The last line of ensure_pfsc_capacity.
Fits == IF mapEnd <= held' THEN "map" ELSE "mapOutside"

EnsureCapacity ==
  /\ stage = "capacity"
  /\ \/ /\ mapEnd <= held
        /\ stage' = "map"
        /\ UNCHANGED <<length, offset, held, ioFailed>>
     \/ /\ mapEnd > held
        /\ offset + mapEnd > region \/ Growth <= length
        /\ stage' = "mapOutside"
        /\ UNCHANGED <<length, offset, held, ioFailed>>
     \/ /\ mapEnd > held
        /\ offset + mapEnd <= region /\ Growth > length
        /\ \/ /\ Loaded(Normalize(Growth))
              /\ length' = Normalize(Growth)
              /\ stage' = Fits
           \/ /\ NotLoaded(Normalize(Growth))
              /\ stage' = "mapOutside"
              /\ UNCHANGED length
  /\ UNCHANGED <<input, header, headerLength, mapEnd>>

Next == Begin \/ Climb \/ ReadHeader \/ EnsureCapacity

Spec == Init /\ [][Next]_vars

-----------------------------------------------------------------------------
\* The whole sectors of the region: what can be read of the image at all.
Reach == WholeSectors(region)

\* What an error says is so, unless reading the file failed: "Failed to find PFSC
\* header" is reported of a package in whose readable sectors the search finds
\* none, whatever its header says of the sizes (the ladder of load_pfsc calls), and
\* "PFSC sector map out of bounds" of a map that ends beyond what can be read.
\* There are two exceptions, both of them of ensure_pfsc_capacity, and there the
\* second error may be false: the larger piece brought up another header, which
\* the smaller one did not hold, or it is so large that it is sampled and another
\* header or none at all was found in it.
ErrorsAreTrue ==
  /\ stage = "notFound" /\ ~ioFailed => HeaderIn(Reach) = NotFound
  /\ stage = "mapOutside" /\ ~ioFailed =>
       \/ header + mapEnd > Reach
       \/ offset # header /\ offset # NotFound /\ offset + MinHeader > headerLength
       \/ offset # header /\ Reach > SampleAbove

\* The map is read inside the buffer, the buffer lies in the file, and the header
\* that told the map's place is the one the buffer begins with, unless the larger
\* piece brought up a header that the smaller one did not hold, or is so large
\* that it is sampled.
MapOfTheHeader ==
  stage = "map" =>
    /\ mapEnd <= held /\ offset + held <= region
    /\ \/ offset = header
       \/ offset + MinHeader > headerLength
       \/ length > SampleAbove
=============================================================================
