---------------------------- MODULE MCJsonStorage ----------------------------
(* A model of JsonStorage for TLC: two uids, so that one object's flush   *)
(* rewrites another's, and two UTF-8 labels, so that a store replaces an  *)
(* object by a different one; one run adds a non-UTF-8 label.              *)
EXTENDS JsonStorage

CONSTANTS u1, u2, text, text2

MCUids == {u1, u2}
=============================================================================
