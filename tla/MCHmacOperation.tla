--------------------------- MODULE MCHmacOperation ---------------------------
(* Model-checking instance of HmacOperation: two hashes with output        *)
(* lengths 1 and 2 (so the _GENERAL mechanism of the longer one has a      *)
(* truncated length to choose), two data chunks, two absorbed chunks.     *)
EXTENDS HmacOperation

CONSTANTS SHA1, SHA256, d1, d2

MCHashes == {SHA1, SHA256}
MCHashLen == [h \in MCHashes |-> IF h = SHA1 THEN 1 ELSE 2]
MCData == {d1, d2}
=============================================================================
