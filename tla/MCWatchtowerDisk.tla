--------------------------- MODULE MCWatchtowerDisk ---------------------------
(***************************************************************************)
(* The small Watchtowers over the files they write.  A ring of five keeps  *)
(* more than two crashes can lose.                                         *)
(***************************************************************************)
EXTENDS WatchtowerDisk, MCWatchtower
=============================================================================
