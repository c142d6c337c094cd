--------------------------- MODULE MCPfsMetadata ---------------------------
(* Trees of up to three files and directories, one name of which is changed *)
(* when it is sanitized.  With entries of size 3 three begin in a block of   *)
(* 10, and the last is passed over, since no whole Dirent of size 5 fits     *)
(* behind its beginning; with entries of size 4 two do, and none is lost.    *)
EXTENDS PfsMetadataProps

MCSanitized == [nm \in {"a", "b?", "c"} |-> IF nm = "b?" THEN "b_" ELSE nm]
=============================================================================
