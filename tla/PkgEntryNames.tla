--------------------------- MODULE PkgEntryNames ---------------------------
(***************************************************************************)
(* The names of the entries of a package's table: a constant array of       *)
(* (type, name), searched with lower_bound.  A name is abstracted to the    *)
(* place of its row: the 611 names are pairwise different.                  *)
(***************************************************************************)
EXTENDS Integers, Sequences, SequencesExt

Span(a, b) == [i \in 1..(b - a + 1) |-> a + i - 1]

\* The types of the array, in its order.
HeaderEntries ==
  <<\h1, \h10, \h20, \h80, \h100, \h200>> \o Span(\h400, \h404) \o Span(\h406, \h409)
ContentEntries == Span(\h1000, \h100e) \o Span(\h1200, \h1220)
PictureEntries == Span(\h1240, \h12a0)
PictureDdsEntries == Span(\h12c0, \h12df)
TrophyEntries == Span(\h1400, \h1463)

\* A group of key maps holds ten pictures, but for group 4 that holds nine.
KeymapGroup(k) == Span(\h1600 + 16 * k, \h1600 + 16 * k + IF k = 4 THEN 8 ELSE 9)
KeymapGroups(a, b) == FlattenSeq([i \in 1..(b - a + 1) |-> KeymapGroup(a + i - 1)])
KeymapsTo14 == KeymapGroups(0, 14)
KeymapsTo29 == KeymapGroups(15, 29)
KeymapsTo31 == KeymapGroups(30, 31)

\* Mutation: the pictures come behind the trophies.
PkgEntriesMoved ==
  HeaderEntries \o ContentEntries \o PictureDdsEntries \o TrophyEntries
  \o PictureEntries \o KeymapsTo14 \o KeymapsTo29 \o KeymapsTo31
PkgEntries ==
  HeaderEntries \o ContentEntries \o PictureEntries \o PictureDdsEntries
  \o TrophyEntries \o KeymapsTo14 \o KeymapsTo29 \o KeymapsTo31

\* lower_bound(type): halve the range [lo, lo + n) until it is empty.
LowerBound(type) ==
  LET from[n \in 0..Len(PkgEntries)] ==
        [lo \in 1..(Len(PkgEntries) - n + 1) |->
           LET half == n \div 2 IN
           IF n = 0 THEN lo
           ELSE IF PkgEntries[lo + half] < type
                THEN from[n - half - 1][lo + half + 1]
                ELSE from[half][lo]]
  IN from[Len(PkgEntries)][1]

NoName == 0
GetEntryNameByType(type) ==
  LET it == LowerBound(type) IN
  IF it <= Len(PkgEntries) /\ PkgEntries[it] = type THEN it ELSE NoName

=============================================================================
