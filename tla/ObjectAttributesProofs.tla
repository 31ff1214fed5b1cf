---------------------- MODULE ObjectAttributesProofs ----------------------
(***************************************************************************)
(* Proof that fill_template never reveals a hidden attribute, for every    *)
(* set of key types, byte values, buffer capacities and template bound of  *)
(* ObjectAttributes (src/src/object.rs).  SensitiveNeverRevealed is        *)
(* inductive on its own: set_attr leaves no template behind, and          *)
(* fill_template computes the template it returns from the object it      *)
(* reads.  The argument rests on one lemma: the code's test               *)
(* (private_key_type, needs_sensitivity_check, is_sensitive_attr) holds of *)
(* every id the reference definition Hidden hides.                        *)
(*                                                                         *)
(* The module also proves FillTemplateFaithful: the return value is OK    *)
(* exactly when every entry was filled, and a filled entry holds the      *)
(* attribute's length and value.  It needs the attributes well typed (a   *)
(* byte string has a length) and one fact about the loop's error: a       *)
(* template with a failing entry has a last failing entry, whose error is *)
(* returned.                                                               *)
(***************************************************************************)
EXTENDS ObjectAttributes, WellFoundedInduction, TLAPS

(* An id the spec hides is one is_sensitive_attr reports sensitive, with  *)
(* the sensitivity list needs_sensitivity_check returns for the object.   *)
LEMMA HiddenIsSensitiveAttr ==
  ASSUME NEW o, NEW id, Hidden(o, id)
  PROVE  IsSensitiveAttr(o, id, NeedsSensitivityCheck(o))
<1>1. PrivateKeyType(o) = o[CKA_KEY_TYPE]
  BY DEF Hidden, PrivateKeyType, NumAttr
<1>2. NeedsSensitivityCheck(o) = SENSITIVE[o[CKA_KEY_TYPE]]
  BY <1>1 DEF Hidden, NeedsSensitivityCheck
<1>3. id \in NeedsSensitivityCheck(o)
  BY <1>2 DEF Hidden
<1>4. IsSensitive(o) \/ ~IsExtractable(o)
  BY DEF Hidden, IsSensitive, IsExtractable, BoolAttr
<1>. QED
  BY <1>3, <1>4 DEF IsSensitiveAttr

(* An entry of a hidden id comes out of one loop iteration with its       *)
(* length unavailable and its buffer untouched.                            *)
LEMMA FillEntryHidden ==
  ASSUME NEW o, NEW e, Hidden(o, e.type)
  PROVE  /\ FillEntry(o, NeedsSensitivityCheck(o), e).len = Unavailable
         /\ FillEntry(o, NeedsSensitivityCheck(o), e).data = NoData
<1>1. IsSensitiveAttr(o, e.type, NeedsSensitivityCheck(o))
  BY HiddenIsSensitiveAttr
<1>. QED
  BY <1>1 DEF FillEntry

-----------------------------------------------------------------------------
LEMMA InitSafe == Init => SensitiveNeverRevealed
  BY DEF Init, SensitiveNeverRevealed

LEMMA StepSafe ==
  SensitiveNeverRevealed /\ [Next]_vars => SensitiveNeverRevealed'
<1> SUFFICES ASSUME SensitiveNeverRevealed, [Next]_vars
             PROVE  SensitiveNeverRevealed'
  OBVIOUS
<1>1. CASE SetAttribute
  BY <1>1 DEF SetAttribute, SensitiveNeverRevealed
<1>2. CASE Fill
  <2>1. PICK t \in Templates : /\ filled' = FillTemplate(attrs, t).filled
                               /\ attrs' = attrs
    BY <1>2 DEF Fill
  <2>2. SUFFICES ASSUME NEW i \in DOMAIN filled', Hidden(attrs, filled'[i].type)
                 PROVE  filled'[i].data = NoData /\ filled'[i].len = Unavailable
    BY <2>1 DEF SensitiveNeverRevealed
  <2>3. /\ i \in DOMAIN t
        /\ filled'[i].type = t[i].type
        /\ filled'[i].len = FillEntry(attrs, NeedsSensitivityCheck(attrs), t[i]).len
        /\ filled'[i].data = FillEntry(attrs, NeedsSensitivityCheck(attrs), t[i]).data
    BY <2>1 DEF FillTemplate
  <2>4. Hidden(attrs, t[i].type)
    BY <2>2, <2>3
  <2>. QED
    BY <2>3, <2>4, FillEntryHidden
<1>3. CASE UNCHANGED vars
  BY <1>3 DEF vars, SensitiveNeverRevealed
<1>. QED
  BY <1>1, <1>2, <1>3 DEF Next

(* fill_template never copies the bytes of an attribute the spec hides    *)
(* (a sensitive-set id of a private or secret key that is sensitive or    *)
(* not extractable) and reports its length as unavailable, in every state *)
(* any sequence of set_attr and fill_template calls reaches.               *)
THEOREM SensitiveSafety == Spec => []SensitiveNeverRevealed
  BY InitSafe, StepSafe, PTL DEF Spec

-----------------------------------------------------------------------------
(* The object's attributes are those set_attr can set, with their values. *)
AttrsTyped ==
  /\ DOMAIN attrs \subseteq SettableIds
  /\ \A i \in DOMAIN attrs : attrs[i] \in AttrValues(i)

FInv == AttrsTyped /\ FillTemplateFaithful

(* A nonempty set of template positions has a last one.                   *)
LEMMA LastPosition ==
  ASSUME NEW n \in Nat, NEW F \in SUBSET (1..n), F # {}
  PROVE  \E i \in F : \A j \in F : j <= i
<1> DEFINE T == {n - i : i \in F}
<1>1. T \subseteq Nat /\ T # {}
  OBVIOUS
<1>2. PICK x \in T : \A y \in T : ~(<<y, x>> \in OpToRel(<, Nat))
  BY <1>1, NatLessThanWellFounded, WFMin
<1>3. PICK i \in F : x = n - i
  OBVIOUS
<1>4. \A j \in F : ~(n - j < n - i)
  <2> SUFFICES ASSUME NEW j \in F PROVE ~(n - j < n - i)
    OBVIOUS
  <2>1. n - j \in T /\ n - j \in Nat /\ x \in Nat
    BY <1>1
  <2>2. ~(<<n - j, x>> \in OpToRel(<, Nat))
    BY <1>2, <2>1
  <2>. QED
    BY <1>3, <2>1, <2>2 DEF OpToRel
<1>. QED
  BY <1>4

(* The loop's return value is OK exactly when no entry failed.            *)
LEMMA LastErrorOK ==
  ASSUME NEW n \in Nat, NEW errs, DOMAIN errs = 1..n
  PROVE  LastError(errs) = OK <=> \A i \in 1..n : errs[i] = OK
<1>1. CASE \A i \in 1..n : errs[i] = OK
  BY <1>1 DEF LastError
<1>2. CASE \E i \in 1..n : errs[i] # OK
  <2>1. PICK m \in {i \in 1..n : errs[i] # OK} :
          \A j \in {i \in 1..n : errs[i] # OK} : j <= m
    BY <1>2, LastPosition
  <2>2. \E i \in DOMAIN errs : /\ errs[i] # OK
                              /\ \A j \in DOMAIN errs : j > i => errs[j] = OK
    BY <2>1
  <2>. QED
    BY <1>2, <2>2 DEF LastError
<1>. QED
  BY <1>1, <1>2

(* get_value().len() of a set attribute is a number.                      *)
LEMMA RawLenNat ==
  ASSUME AttrsTyped, NEW id \in DOMAIN attrs
  PROVE  RawLen(id, attrs[id]) \in Nat
<1>1. CASE id \in BytesIds
  <2>1. attrs[id] \in Seq(0..255)
    BY <1>1, ByteValuesAssumption DEF AttrsTyped, AttrValues, BytesIds,
       BoolIds, CKA_CLASS, CKA_KEY_TYPE, CKA_VALUE, CKA_PRIVATE_EXPONENT,
       CKA_SENSITIVE, CKA_EXTRACTABLE
  <2>. QED
    BY <1>1, <2>1 DEF RawLen, BytesIds, BoolIds, NumIds, CKA_CLASS,
       CKA_KEY_TYPE, CKA_VALUE, CKA_PRIVATE_EXPONENT, CKA_SENSITIVE,
       CKA_EXTRACTABLE, CKA_VALUE_LEN
<1>2. CASE id \notin BytesIds
  BY <1>2 DEF AttrsTyped, SettableIds, RawLen, BytesIds, BoolIds, NumIds,
     ULongSize
<1>. QED
  BY <1>1, <1>2

(* One loop iteration: the entry is filled (OK) exactly when its length   *)
(* is known, and then it holds the attribute's length and, in a buffer    *)
(* large enough, its value.                                                *)
LEMMA FillEntryFaithful ==
  ASSUME AttrsTyped, NEW e \in Entries, NEW sense
  PROVE  LET x == FillEntry(attrs, sense, e)
         IN  /\ x.err = OK <=> x.len # Unavailable
             /\ x.len # Unavailable =>
                  /\ e.type \in DOMAIN attrs
                  /\ x.len = RawLen(e.type, attrs[e.type])
                  /\ \/ e.buf = Null /\ x.data = NoData
                     \/ e.buf # Null /\ e.buf >= x.len /\ x.data = attrs[e.type]
<1>1. e.type \in DOMAIN attrs => RawLen(e.type, attrs[e.type]) \in Nat
  BY RawLenNat
<1>2. e.buf # Null => e.buf \in Nat
  BY BufLensAssumption DEF Entries
<1>. QED
  BY <1>1, <1>2, UnavailableAssumption
     DEF FillEntry, OK, AttributeSensitive, AttributeTypeInvalid, BufferTooSmall

LEMMA InitFInv == Init => FInv
  BY DEF Init, FInv, AttrsTyped, FillTemplateFaithful

LEMMA FInvStep == FInv /\ [Next]_vars => FInv'
<1> SUFFICES ASSUME FInv, [Next]_vars PROVE FInv'
  OBVIOUS
<1>1. CASE SetAttribute
  <2>0. PICK id \in SettableIds : \E v \in AttrValues(id) :
          /\ attrs' = SetAttr(attrs, id, v)
          /\ filled' = <<>>
          /\ rv' = OK
    BY <1>1 DEF SetAttribute
  <2>1. PICK v \in AttrValues(id) :
          /\ attrs' = SetAttr(attrs, id, v)
          /\ filled' = <<>>
          /\ rv' = OK
    BY <2>0
  <2>2. AttrsTyped'
    BY <2>1 DEF FInv, AttrsTyped, SetAttr
  <2>3. FillTemplateFaithful'
    BY <2>1 DEF FillTemplateFaithful
  <2>. QED
    BY <2>2, <2>3 DEF FInv
<1>2. CASE Fill
  <2>1. PICK t \in Templates :
          /\ filled' = FillTemplate(attrs, t).filled
          /\ rv' = FillTemplate(attrs, t).rv
          /\ attrs' = attrs
    BY <1>2 DEF Fill
  <2>2. PICK n \in 0..MaxTemplateLen : t \in [1..n -> Entries]
    BY DEF Templates
  <2>3. n \in Nat
    BY MaxTemplateLenAssumption
  <2> DEFINE x(i) == FillEntry(attrs, NeedsSensitivityCheck(attrs), t[i])
  <2>4. /\ DOMAIN filled' = 1..n
        /\ \A i \in 1..n : /\ filled'[i].type = t[i].type
                           /\ filled'[i].buf = t[i].buf
                           /\ filled'[i].len = x(i).len
                           /\ filled'[i].data = x(i).data
        /\ rv' = LastError([i \in 1..n |-> x(i).err])
    BY <2>1, <2>2 DEF FillTemplate
  <2>5. \A i \in 1..n :
          /\ x(i).err = OK <=> x(i).len # Unavailable
          /\ x(i).len # Unavailable =>
               /\ t[i].type \in DOMAIN attrs
               /\ x(i).len = RawLen(t[i].type, attrs[t[i].type])
               /\ \/ t[i].buf = Null /\ x(i).data = NoData
                  \/ t[i].buf # Null /\ t[i].buf >= x(i).len
                     /\ x(i).data = attrs[t[i].type]
    BY <2>2, FillEntryFaithful DEF FInv
  <2>6. rv' = OK <=> \A i \in 1..n : x(i).err = OK
    <3>1. DOMAIN [i \in 1..n |-> x(i).err] = 1..n
      OBVIOUS
    <3>. QED
      BY <2>3, <2>4, <3>1, LastErrorOK
  <2>7. FillTemplateFaithful'
    BY <2>1, <2>4, <2>5, <2>6 DEF FillTemplateFaithful
  <2>. QED
    BY <2>1, <2>7 DEF FInv, AttrsTyped
<1>3. CASE UNCHANGED vars
  BY <1>3 DEF vars, FInv, AttrsTyped, FillTemplateFaithful
<1>. QED
  BY <1>1, <1>2, <1>3 DEF Next

(* fill_template (object.rs) returns OK exactly when every entry of the   *)
(* template was filled, and a filled entry holds the attribute's full     *)
(* length and, when the caller gave a buffer, the whole value in a buffer *)
(* large enough for it: no truncated copy, no length reported for an      *)
(* entry that failed, however the object was built.                       *)
THEOREM FillFaithful == Spec => []FillTemplateFaithful
<1>1. FInv => FillTemplateFaithful
  BY DEF FInv
<1>. QED
  BY InitFInv, FInvStep, <1>1, PTL DEF Spec
=============================================================================
