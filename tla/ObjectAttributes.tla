-------------------------- MODULE ObjectAttributes --------------------------
(***************************************************************************)
(* The attribute bag of an Object in src/src/object.rs and the read-out    *)
(* of attributes into a caller's C template: set_attr (replace by id),     *)
(* the flag predicates with their defaults (create_bool_checker),          *)
(* private_key_type, the SENSITIVE table, needs_sensitivity_check,         *)
(* is_sensitive_attr and fill_template.                                    *)
(*                                                                         *)
(* An object's attributes are a function from attribute ids to values:     *)
(* set_attr keeps at most one attribute per id, and create rejects a       *)
(* duplicate before it returns an object, so every object the code hands   *)
(* out has distinct ids and a first match by id is the only match.         *)
(* A CK_ATTRIBUTE entry is [type, buf]: buf is the capacity ulValueLen of  *)
(* the caller's buffer pValue, or Null when pValue is NULL.  fill_template *)
(* writes back [len, data]: the new ulValueLen and the bytes copied into   *)
(* the buffer (NoData when the buffer is left untouched).                  *)
(***************************************************************************)
EXTENDS Naturals, Sequences

CONSTANTS
  KeyTypes,        \* CKK_* values an object's CKA_KEY_TYPE may hold
  ByteValues,      \* values of the byte-string attributes (sequences)
  BufLens,         \* capacities a caller may pass with a non-NULL pValue
  TemplateIds,     \* attribute ids a caller may ask for
  MaxTemplateLen,  \* bound: entries of one template
  Null,            \* pValue is NULL: the caller asks for the length only
  NoData,          \* the entry's buffer was not written
  Unavailable      \* CK_UNAVAILABLE_INFORMATION

ASSUME BufLensAssumption == BufLens \subseteq Nat
ASSUME MaxTemplateLenAssumption == MaxTemplateLen \in Nat
ASSUME NullAssumption == Null \notin Nat
ASSUME UnavailableAssumption == Unavailable \notin Nat
ASSUME NoDataAssumption == NoData \notin ByteValues
ASSUME ByteValuesAssumption == ByteValues \subseteq Seq(0..255)

VARIABLES
  attrs,   \* the object's attributes: attrs[id] is the value of id
  filled,  \* the template as the last call left it
  rv       \* return value of the last call

vars == <<attrs, filled, rv>>

-----------------------------------------------------------------------------
(* Return values.                                                          *)
OK == "OK"
AttributeSensitive == "ATTRIBUTE_SENSITIVE"
AttributeTypeInvalid == "ATTRIBUTE_TYPE_INVALID"
BufferTooSmall == "BUFFER_TOO_SMALL"
RVs == {OK, AttributeSensitive, AttributeTypeInvalid, BufferTooSmall}

(* Attribute ids (interface.rs) and the variant each one has.             *)
CKA_CLASS == "CKA_CLASS"
CKA_KEY_TYPE == "CKA_KEY_TYPE"
CKA_SENSITIVE == "CKA_SENSITIVE"
CKA_EXTRACTABLE == "CKA_EXTRACTABLE"
CKA_VALUE == "CKA_VALUE"
CKA_VALUE_LEN == "CKA_VALUE_LEN"
CKA_VALUE_BITS == "CKA_VALUE_BITS"
CKA_PRIVATE_EXPONENT == "CKA_PRIVATE_EXPONENT"
CKA_PRIME_1 == "CKA_PRIME_1"
CKA_PRIME_2 == "CKA_PRIME_2"
CKA_EXPONENT_1 == "CKA_EXPONENT_1"
CKA_EXPONENT_2 == "CKA_EXPONENT_2"
CKA_COEFFICIENT == "CKA_COEFFICIENT"

CKO_DATA == "CKO_DATA"
CKO_SECRET_KEY == "CKO_SECRET_KEY"
CKO_PRIVATE_KEY == "CKO_PRIVATE_KEY"
Classes == {CKO_DATA, CKO_SECRET_KEY, CKO_PRIVATE_KEY}

CKK_RSA == "CKK_RSA"
CKK_EC == "CKK_EC"
CKK_EC_EDWARDS == "CKK_EC_EDWARDS"
CKK_EC_MONTGOMERY == "CKK_EC_MONTGOMERY"
CKK_DH == "CKK_DH"
CKK_X9_42_DH == "CKK_X9_42_DH"
CKK_DSA == "CKK_DSA"
CKK_GENERIC_SECRET == "CKK_GENERIC_SECRET"

BoolIds == {CKA_SENSITIVE, CKA_EXTRACTABLE}
NumIds == {CKA_CLASS, CKA_KEY_TYPE, CKA_VALUE_LEN}
BytesIds == {CKA_VALUE, CKA_PRIVATE_EXPONENT}

(* The values set_attr may be given for each id the model sets.           *)
AttrValues(id) ==
  CASE id = CKA_CLASS    -> Classes
    [] id = CKA_KEY_TYPE -> KeyTypes
    [] id \in BoolIds    -> BOOLEAN
    [] id \in BytesIds   -> ByteValues
SettableIds == {CKA_CLASS, CKA_KEY_TYPE} \cup BoolIds \cup BytesIds

(* get_value().len(): a CK_BBOOL is one byte, a CK_ULONG eight.           *)
ULongSize == 8
RawLen(id, v) ==
  CASE id \in BoolIds  -> 1
    [] id \in NumIds   -> ULongSize
    [] id \in BytesIds -> Len(v)

Entries == [type : TemplateIds, buf : {Null} \cup BufLens]
Templates == UNION {[1..n -> Entries] : n \in 0..MaxTemplateLen}
IsFilled(e) ==
  /\ DOMAIN e = {"type", "buf", "len", "data"}
  /\ e.type \in TemplateIds
  /\ e.buf \in {Null} \cup BufLens
  /\ e.len \in Nat \cup {Unavailable}
  /\ \/ e.data = NoData
     \/ e.type \in SettableIds /\ e.data \in AttrValues(e.type)

-----------------------------------------------------------------------------
(* set_attr: replace the attribute with the same id, or push it.          *)
SetAttr(o, id, v) == [i \in DOMAIN o \cup {id} |-> IF i = id THEN v ELSE o[i]]

(* create_bool_checker: the attribute's value, or the default.            *)
BoolAttr(o, id, def) == IF id \in DOMAIN o THEN o[id] ELSE def
IsSensitive(o) == BoolAttr(o, CKA_SENSITIVE, TRUE)
IsExtractable(o) == BoolAttr(o, CKA_EXTRACTABLE, FALSE)

(* private_key_type: the key type of a private or secret key, else None   *)
(* (modelled as Unavailable, a key type the SENSITIVE table never holds). *)
NumAttr(o, id) == IF id \in DOMAIN o THEN o[id] ELSE Unavailable
PrivateKeyType(o) ==
  IF NumAttr(o, CKA_CLASS) \in {CKO_PRIVATE_KEY, CKO_SECRET_KEY}
  THEN NumAttr(o, CKA_KEY_TYPE)
  ELSE Unavailable

(* The SENSITIVE table: the sensitive attribute ids of each key type.     *)
SENSITIVE_CKK_RSA == {CKA_PRIVATE_EXPONENT, CKA_PRIME_1, CKA_PRIME_2,
                      CKA_EXPONENT_1, CKA_EXPONENT_2, CKA_COEFFICIENT}
SENSITIVE_CKK_EC == {CKA_VALUE}
SENSITIVE_CKK_DH == {CKA_VALUE, CKA_VALUE_BITS}
SENSITIVE_CKK_DSA == {CKA_VALUE}
SENSITIVE_CKK_GENERIC_SECRET == {CKA_VALUE, CKA_VALUE_LEN}
SENSITIVE ==
  [k \in {CKK_RSA, CKK_EC, CKK_EC_EDWARDS, CKK_EC_MONTGOMERY, CKK_DH,
          CKK_X9_42_DH, CKK_DSA, CKK_GENERIC_SECRET} |->
     CASE k = CKK_RSA -> SENSITIVE_CKK_RSA
       [] k \in {CKK_EC, CKK_EC_EDWARDS, CKK_EC_MONTGOMERY} -> SENSITIVE_CKK_EC
       [] k \in {CKK_DH, CKK_X9_42_DH} -> SENSITIVE_CKK_DH
       [] k = CKK_DSA -> SENSITIVE_CKK_DSA
       [] k = CKK_GENERIC_SECRET -> SENSITIVE_CKK_GENERIC_SECRET]

(* needs_sensitivity_check: the table row of the object's key type; None  *)
(* is the empty list, which is_sensitive_attr treats the same way.        *)
NeedsSensitivityCheck(o) ==
  IF PrivateKeyType(o) \in DOMAIN SENSITIVE THEN SENSITIVE[PrivateKeyType(o)]
  ELSE {}

IsSensitiveAttrIgnoringExtractable(o, id, sense) ==
  id \in sense /\ IsSensitive(o)

(* is_sensitive_attr                                                       *)
IsSensitiveAttr(o, id, sense) ==
  /\ id \in sense
  /\ IsSensitive(o) \/ ~IsExtractable(o)

FillEntryNoSizeCheck(o, sense, e) ==
  IF IsSensitiveAttr(o, e.type, sense)
  THEN [len |-> Unavailable, data |-> NoData, err |-> AttributeSensitive]
  ELSE IF e.type \notin DOMAIN o
  THEN [len |-> Unavailable, data |-> NoData, err |-> AttributeTypeInvalid]
  ELSE IF e.buf = Null
  THEN [len |-> RawLen(e.type, o[e.type]), data |-> NoData, err |-> OK]
  ELSE [len |-> RawLen(e.type, o[e.type]), data |-> o[e.type], err |-> OK]

(* One iteration of the loop of fill_template over the template.          *)
FillEntry(o, sense, e) ==
  IF IsSensitiveAttr(o, e.type, sense)
  THEN [len |-> Unavailable, data |-> NoData, err |-> AttributeSensitive]
  ELSE IF e.type \notin DOMAIN o
  THEN [len |-> Unavailable, data |-> NoData, err |-> AttributeTypeInvalid]
  ELSE IF e.buf = Null
  THEN [len |-> RawLen(e.type, o[e.type]), data |-> NoData, err |-> OK]
  ELSE IF e.buf < RawLen(e.type, o[e.type])
  THEN [len |-> Unavailable, data |-> NoData, err |-> BufferTooSmall]
  ELSE [len |-> RawLen(e.type, o[e.type]), data |-> o[e.type], err |-> OK]

(* rv is assigned by every failing entry: the last failure is returned.   *)
LastError(errs) ==
  IF \A i \in DOMAIN errs : errs[i] = OK THEN OK
  ELSE errs[CHOOSE i \in DOMAIN errs :
              /\ errs[i] # OK
              /\ \A j \in DOMAIN errs : j > i => errs[j] = OK]

(* fill_template: every entry is processed; the template comes back with  *)
(* each entry's len and data, and the call returns LastError.             *)
FillTemplate(o, t) ==
  LET sense == NeedsSensitivityCheck(o)
      r == [i \in DOMAIN t |-> FillEntry(o, sense, t[i])]
  IN [filled |-> [i \in DOMAIN t |-> [type |-> t[i].type, buf |-> t[i].buf,
                                       len |-> r[i].len, data |-> r[i].data]],
      rv |-> LastError([i \in DOMAIN t |-> r[i].err])]

-----------------------------------------------------------------------------
(* Object::new: no attributes.                                            *)
Init ==
  /\ attrs = [i \in {} |-> OK]
  /\ filled = <<>>
  /\ rv = OK

(* object.set_attr(a): always returns Ok(()).                             *)
SetAttribute ==
  \E id \in SettableIds : \E v \in AttrValues(id) :
    /\ attrs' = SetAttr(attrs, id, v)
    /\ filled' = <<>>
    /\ rv' = OK

(* object.fill_template(template)                                         *)
Fill ==
  \E t \in Templates :
    LET r == FillTemplate(attrs, t) IN
    /\ filled' = r.filled
    /\ rv' = r.rv
    /\ UNCHANGED attrs

Next == SetAttribute \/ Fill

Spec == Init /\ [][Next]_vars

-----------------------------------------------------------------------------
(* The object holds well-typed attributes and the template entries come   *)
(* back with a length and data of the right kinds.                         *)
TypeOK ==
  /\ DOMAIN attrs \subseteq SettableIds
  /\ \A i \in DOMAIN attrs : attrs[i] \in AttrValues(i)
  /\ \E n \in 0..MaxTemplateLen : DOMAIN filled = 1..n
  /\ \A i \in DOMAIN filled : IsFilled(filled[i])
  /\ rv \in RVs

(* Reference definition of hiding (spec: data model, sensitive sets per    *)
(* key type): a private or secret key hides an id of its key type's       *)
(* sensitive set when it is sensitive or not extractable, with CKA_SENSITIVE *)
(* absent counting as sensitive and CKA_EXTRACTABLE absent as not          *)
(* extractable.                                                            *)
Hidden(o, id) ==
  /\ CKA_CLASS \in DOMAIN o /\ o[CKA_CLASS] \in {CKO_PRIVATE_KEY, CKO_SECRET_KEY}
  /\ CKA_KEY_TYPE \in DOMAIN o /\ o[CKA_KEY_TYPE] \in DOMAIN SENSITIVE
  /\ id \in SENSITIVE[o[CKA_KEY_TYPE]]
  /\ \/ CKA_SENSITIVE \notin DOMAIN o \/ o[CKA_SENSITIVE] = TRUE
     \/ CKA_EXTRACTABLE \notin DOMAIN o \/ o[CKA_EXTRACTABLE] = FALSE

(* fill_template never copies the bytes of a hidden attribute into the    *)
(* caller's buffer and reports its length as CK_UNAVAILABLE_INFORMATION,   *)
(* whatever sequence of set_attr calls built the object.                   *)
SensitiveNeverRevealed ==
  \A i \in DOMAIN filled :
    Hidden(attrs, filled[i].type) =>
      /\ filled[i].data = NoData
      /\ filled[i].len = Unavailable

(* fill_template returns OK exactly when every entry was filled, and an   *)
(* entry that was filled reports the attribute's full length and, when it *)
(* has a buffer, holds the whole value in a buffer large enough for it.    *)
FillTemplateFaithful ==
  /\ rv = OK <=> \A i \in DOMAIN filled : filled[i].len # Unavailable
  /\ \A i \in DOMAIN filled :
       LET e == filled[i] IN
       e.len # Unavailable =>
         /\ e.type \in DOMAIN attrs
         /\ e.len = RawLen(e.type, attrs[e.type])
         /\ \/ e.buf = Null /\ e.data = NoData
            \/ e.buf # Null /\ e.buf >= e.len /\ e.data = attrs[e.type]

(* The error an entry raises, from the spec's rules for fill_template.    *)
EntryError(o, e) ==
  IF Hidden(o, e.type) THEN AttributeSensitive
  ELSE IF e.type \notin DOMAIN o THEN AttributeTypeInvalid
  ELSE IF e.buf # Null /\ e.buf < RawLen(e.type, o[e.type]) THEN BufferTooSmall
  ELSE OK

(* The spec: when several entries fail, fill_template returns the error of *)
(* highest priority, sensitivity over type-invalid over buffer-too-small.  *)
FillErrorPriority ==
  LET errs == {EntryError(attrs, filled[i]) : i \in DOMAIN filled} IN
  rv = IF AttributeSensitive \in errs THEN AttributeSensitive
       ELSE IF AttributeTypeInvalid \in errs THEN AttributeTypeInvalid
       ELSE IF BufferTooSmall \in errs THEN BufferTooSmall
       ELSE OK
=============================================================================
