------------------------- MODULE MCRsaPkcsOperation -------------------------
(* Model-checking instance of RsaPkcsOperation: one short and one long     *)
(* chunk, two absorbed chunks, and moduli of 64 and 256 bytes against a    *)
(* 1024-bit minimum key size, so that the key-size gate both passes and    *)
(* fails.                                                                  *)
EXTENDS RsaPkcsOperation

CONSTANTS s1, l1

MCShortData == {s1}
MCLongData == {l1}
MCModLens == {64, 256}
=============================================================================
