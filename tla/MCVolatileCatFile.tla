------------------------- MODULE MCVolatileCatFile -------------------------
(* VolatileCatFile for TLC: indexes modulo 5, so up to three records, whose  *)
(* lengths are an exact multiple of the alignment and one with padding.      *)
EXTENDS VolatileCatFile
=============================================================================
