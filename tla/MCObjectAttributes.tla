------------------------- MODULE MCObjectAttributes -------------------------
(* A model of ObjectAttributes for TLC: an RSA key type (whose sensitive   *)
(* set holds CKA_PRIVATE_EXPONENT but not CKA_VALUE) and a generic secret  *)
(* (whose set holds CKA_VALUE); a data object class, whose key type is in  *)
(* no sensitivity regime; byte strings of length 0 and 1; buffers of       *)
(* capacity 0 and 1, so that a CK_ULONG never fits and a one-byte value    *)
(* fits only the larger one.                                                *)
EXTENDS ObjectAttributes

MCKeyTypes == {CKK_RSA, CKK_GENERIC_SECRET}
MCByteValues == {<<>>, <<1>>}
MCTemplateIds == {CKA_KEY_TYPE, CKA_VALUE, CKA_PRIVATE_EXPONENT}
=============================================================================
