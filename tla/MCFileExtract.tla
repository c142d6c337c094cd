--------------------------- MODULE MCFileExtract ---------------------------
(* Blocks of four bytes, pages of two, numbers of four bits: sector maps    *)
(* with increasing, equal, falling and wrapping offsets.                    *)
EXTENDS FileExtract

MCSectorMaps == [1 .. 3 -> {0, 1, 4, 5, 8, 15}]
MCFileSizes == {-1, 0, 1, 4, 5, 8}
=============================================================================
