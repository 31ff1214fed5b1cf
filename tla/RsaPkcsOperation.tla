--------------------------- MODULE RsaPkcsOperation ---------------------------
(***************************************************************************)
(* The RSA PKCS #1 v1.5 operation of src/src/fips/rsa.rs: the four        *)
(* constructors (encrypt_new, decrypt_new, sign_new, verify_new) and the   *)
(* Encryption, Decryption, Sign and Verify trait methods of               *)
(* RsaPKCSOperation, each one action, driven by the session that owns the *)
(* operation.                                                              *)
(*                                                                         *)
(* Cryptography is abstracted: a ciphertext of chunk d is Cipher(d), the  *)
(* signature of a message (a sequence of chunks) is RsaSig(msg).  A chunk  *)
(* is short (fits in modulus - 11 bytes) or long.  The OpenSSL calls       *)
(* (EVP_PKEY_CTX creation, *_init, set_params, encrypt / decrypt / sign,   *)
(* and the digest-sign context of ProviderSignatureCtx) fail only when     *)
(* ProviderMayFail is TRUE, except where OpenSSL itself refuses the call.  *)
(***************************************************************************)
EXTENDS Naturals, Sequences

CONSTANTS
  ShortData,       \* chunks no longer than modulus - 11 bytes
  LongData,        \* chunks longer than that
  MaxData,         \* bound: chunks absorbed by one operation
  ModLens,         \* byte lengths of the moduli of the keys on the token
  MinKeySize,      \* ulMinKeySize of the mechanism info, in bits
  MaxKeySize,      \* ulMaxKeySize, in bits (0: no maximum)
  ProviderMayFail, \* whether an OpenSSL call may fail
  NoOp,            \* the session holds no operation yet
  NoOut            \* the last call wrote no output

ASSUME DataAssumption == ShortData \cap LongData = {}
ASSUME MaxDataAssumption == MaxData \in Nat
ASSUME ModLensAssumption == ModLens \subseteq Nat \ {0}
ASSUME KeySizeAssumption == MinKeySize \in Nat /\ MaxKeySize \in Nat
ASSUME ProviderAssumption == ProviderMayFail \in BOOLEAN

VARIABLES
  op,        \* NoOp, or the RsaPKCSOperation the session holds
  rv,        \* return value of the last call
  out,       \* ciphertext, plaintext or signature written by the last call
  call,      \* name of the last call
  lastData,  \* chunk (or ciphertext) passed to the last data-carrying call
  lastSig,   \* signature passed to the last verify / verify_final
  lastBuf,   \* output buffer of the last encrypt / decrypt: null, small, enough
  accepted   \* history: chunks of the update and one-shot calls that
             \* returned OK, in order

vars == <<op, rv, out, call, lastData, lastSig, lastBuf, accepted>>

-----------------------------------------------------------------------------
OK == "OK"
NotInitialized == "OPERATION_NOT_INITIALIZED"
GeneralError == "GENERAL_ERROR"
DeviceError == "DEVICE_ERROR"
DataLenRange == "DATA_LEN_RANGE"
BufferTooSmall == "BUFFER_TOO_SMALL"
KeySizeRange == "KEY_SIZE_RANGE"
MechanismInvalid == "MECHANISM_INVALID"
SignatureInvalid == "SIGNATURE_INVALID"
NotFound == "ATTRIBUTE_NOT_FOUND"
ProviderError == "PROVIDER_ERROR"
Panic == "PANIC"   \* an unwrap() of a None: the thread panics

RVs == {OK, NotInitialized, GeneralError, DeviceError, DataLenRange,
        BufferTooSmall, KeySizeRange, MechanismInvalid, SignatureInvalid,
        NotFound, ProviderError, Panic}

Outcomes == IF ProviderMayFail THEN BOOLEAN ELSE {TRUE}

Data == ShortData \cup LongData
Msgs == UNION {[1..n -> Data] : n \in 0..MaxData}

Cipher(d) == [cipher |-> d]
BadCipher == [cipher |-> "garbage"]
Ciphers == {Cipher(d) : d \in ShortData} \cup {BadCipher}

RsaSig(msg) == [msg |-> msg]
WrongLenSig == [wrong_length |-> TRUE]
Sigs == {RsaSig(m) : m \in Msgs} \cup {WrongLenSig}

Outputs == Ciphers \cup Data \cup Sigs

(* CKM_RSA_PKCS, one digest mechanism, and a mechanism get_digest_name    *)
(* does not know.                                                          *)
Mechs == {"RSA_PKCS", "SHA256_RSA_PKCS", "OTHER"}
Buffers == {"null", "small", "enough"}

(* OpenSSL's EVP_PKEY_sign refuses a context initialised for verification *)
(* (EVP_PKEY_verify_init): it returns an error, whatever the inputs.       *)
EvpPkeySignOnVerifyCtx == FALSE

KeyObjects == [has_modulus : BOOLEAN, modlen : ModLens,
               has_private : BOOLEAN]

Ops == [mode : {"encrypt", "decrypt", "sign", "verify"},
        mech : Mechs,
        modlen : {l \in ModLens : /\ l * 8 >= MinKeySize
                                  /\ MaxKeySize = 0 \/ l * 8 <= MaxKeySize},
        in_use : BOOLEAN, finalized : BOOLEAN,
        sigctx : BOOLEAN,     \* sigctx is Some(ProviderSignatureCtx)
        ctx_ready : BOOLEAN,  \* digest_sign_init / digest_verify_init done
        absorbed : Msgs]      \* chunks fed to the digest-sign context

(* NoOp is no operation record, and NoOut neither a chunk nor a buffer.   *)
ASSUME NoOpAssumption == NoOp \notin Ops
ASSUME NoOutAssumption == NoOut \notin Data \cup Buffers

Res(o, r, s) == [op |-> o, rv |-> r, out |-> s]

-----------------------------------------------------------------------------
(***************************************************************************)
(* The constructors.  All start with the key-size gate on CKA_MODULUS;    *)
(* encrypt_new and decrypt_new accept CKM_RSA_PKCS only; then the public   *)
(* key and, for decrypt and sign, the private key are imported (a missing *)
(* CKA_PRIVATE_EXPONENT fails make_bn!); sign_new and verify_new build a   *)
(* ProviderSignatureCtx for a digest mechanism and look up the digest      *)
(* name.  ok: the OpenSSL calls succeed.                                   *)
(***************************************************************************)
(* Variant that checks only the maximum key size.                        *)
KeySizeOutOfRangeMaxOnly(modlen) ==
  MaxKeySize # 0 /\ modlen * 8 > MaxKeySize

KeySizeOutOfRange(modlen) ==
  \/ modlen * 8 < MinKeySize
  \/ MaxKeySize # 0 /\ modlen * 8 > MaxKeySize

NewOp(mode, mech, key, ok) ==
  LET needsPriv == mode \in {"decrypt", "sign"}
      digest == mode \in {"sign", "verify"} /\ mech # "RSA_PKCS"
  IN IF ~key.has_modulus THEN Res(NoOp, NotFound, NoOut)
     ELSE IF KeySizeOutOfRange(key.modlen) THEN Res(NoOp, KeySizeRange, NoOut)
     ELSE IF mode \in {"encrypt", "decrypt"} /\ mech # "RSA_PKCS" THEN Res(NoOp, MechanismInvalid, NoOut)
     ELSE IF ~ok THEN Res(NoOp, DeviceError, NoOut)
     ELSE IF needsPriv /\ ~key.has_private THEN Res(NoOp, DeviceError, NoOut)
     ELSE IF mode \in {"sign", "verify"} /\ mech = "OTHER" THEN Res(NoOp, GeneralError, NoOut)
     ELSE Res([mode |-> mode, mech |-> mech, modlen |-> key.modlen,
                        in_use |-> FALSE, finalized |-> FALSE,
                        sigctx |-> digest, ctx_ready |-> FALSE,
                        absorbed |-> <<>>], OK, NoOut)

(***************************************************************************)
(* Encryption::encrypt and Decryption::decrypt: the state checks, the      *)
(* context set-up (ok1), the length query; a null buffer returns the       *)
(* length, a small one BUFFER_TOO_SMALL, both leaving the operation as it *)
(* is; otherwise finalized is set and the provider runs (ok2).  A long     *)
(* plaintext, or a ciphertext that is not one, makes the provider fail.    *)
(***************************************************************************)
(* Variant that sets finalized before the length query, as sign does.    *)
EncryptFinalizesEarly(o, d, buf, ok1, ok2) ==
  LET f == [o EXCEPT !.finalized = TRUE] IN
  IF o.in_use \/ o.finalized THEN Res(o, NotInitialized, NoOut)
  ELSE IF ~ok1 THEN Res(f, DeviceError, NoOut)
  ELSE IF buf = "null" THEN Res(f, OK, NoOut)
  ELSE IF buf = "small" THEN Res(f, BufferTooSmall, NoOut)
  ELSE IF d \in LongData \/ ~ok2 THEN Res(f, DeviceError, NoOut)
  ELSE Res(f, OK, Cipher(d))

Encrypt(o, d, buf, ok1, ok2) ==
  LET f == [o EXCEPT !.finalized = TRUE] IN
  IF o.in_use \/ o.finalized THEN Res(o, NotInitialized, NoOut)
  ELSE IF ~ok1 THEN Res(o, DeviceError, NoOut)
  ELSE IF buf = "null" THEN Res(o, OK, NoOut)
  ELSE IF buf = "small" THEN Res(o, BufferTooSmall, NoOut)
  ELSE IF d \in LongData \/ ~ok2 THEN Res(f, DeviceError, NoOut)
  ELSE Res(f, OK, Cipher(d))

Decrypt(o, c, buf, ok1, ok2) ==
  LET f == [o EXCEPT !.finalized = TRUE] IN
  IF o.in_use \/ o.finalized THEN Res(o, NotInitialized, NoOut)
  ELSE IF ~ok1 THEN Res(o, DeviceError, NoOut)
  ELSE IF buf = "null" THEN Res(o, OK, NoOut)
  ELSE IF buf = "small" THEN Res(o, BufferTooSmall, NoOut)
  ELSE IF c = BadCipher \/ ~ok2 THEN Res(f, DeviceError, NoOut)
  ELSE Res(f, OK, c.cipher)

(* encrypt_update, encrypt_final, decrypt_update, decrypt_final           *)
NotMultiPart(o) == Res([o EXCEPT !.finalized = TRUE], NotInitialized, NoOut)

(***************************************************************************)
(* sign_update / verify_update: on the first call, CKM_RSA_PKCS is         *)
(* rejected; otherwise in_use is set and the digest context initialised   *)
(* (ok1), whose failure returns at once.  Then the chunk is fed (ok2); a   *)
(* context never initialised refuses it.  sigctx.unwrap() panics on None. *)
(***************************************************************************)
(* Variant without the CKM_RSA_PKCS check on the first update.           *)
DigestUpdateNoMechCheck(o, d, ok1, ok2) ==
  LET s == IF o.in_use THEN o
           ELSE [o EXCEPT !.in_use = TRUE, !.ctx_ready = ok1]
  IN IF o.finalized THEN Res(o, NotInitialized, NoOut)
     ELSE IF ~o.sigctx THEN Res(s, Panic, NoOut)
     ELSE IF ~s.ctx_ready \/ ~ok2 THEN Res(s, ProviderError, NoOut)
     ELSE Res([s EXCEPT !.absorbed = Append(@, d)], OK, NoOut)

DigestUpdate(o, d, ok1, ok2) ==
  LET s == IF o.in_use THEN o
           ELSE [o EXCEPT !.in_use = TRUE, !.ctx_ready = ok1]
  IN IF o.finalized THEN Res(o, NotInitialized, NoOut)
     ELSE IF ~o.in_use /\ o.mech = "RSA_PKCS" THEN Res(o, NotInitialized, NoOut)
     ELSE IF ~o.sigctx THEN Res(s, Panic, NoOut)
     ELSE IF ~s.ctx_ready \/ ~ok2 THEN Res(s, ProviderError, NoOut)
     ELSE Res([s EXCEPT !.absorbed = Append(@, d)], OK, NoOut)

(* Variant that checks only in_use, not finalized.                       *)
SignFinalNoFinalizedCheck(o, ok) ==
  LET f == [o EXCEPT !.finalized = TRUE] IN
  IF ~o.in_use THEN Res(o, NotInitialized, NoOut)
  ELSE IF ~o.sigctx THEN Res(f, Panic, NoOut)
  ELSE IF ~o.ctx_ready \/ ~ok THEN Res(f, ProviderError, NoOut)
  ELSE Res(f, OK, RsaSig(o.absorbed))

(* sign_final: finalized is set, then digest_sign_final.                  *)
SignFinal(o, ok) ==
  LET f == [o EXCEPT !.finalized = TRUE] IN
  IF ~o.in_use \/ o.finalized THEN Res(o, NotInitialized, NoOut)
  ELSE IF ~o.sigctx THEN Res(f, Panic, NoOut)
  ELSE IF ~o.ctx_ready \/ ~ok THEN Res(f, ProviderError, NoOut)
  ELSE Res(f, OK, RsaSig(o.absorbed))

(* Variant that checks the signature's length but not its value.         *)
VerifyFinalLengthOnly(o, sig, ok) ==
  LET f == [o EXCEPT !.finalized = TRUE] IN
  IF ~o.in_use \/ o.finalized THEN Res(o, NotInitialized, NoOut)
  ELSE IF ~o.sigctx THEN Res(f, Panic, NoOut)
  ELSE IF ~o.ctx_ready \/ ~ok THEN Res(f, ProviderError, NoOut)
  ELSE IF sig = WrongLenSig THEN Res(f, SignatureInvalid, NoOut)
  ELSE Res(f, OK, NoOut)

(* verify_final: finalized is set, then digest_verify_final.              *)
VerifyFinal(o, sig, ok) ==
  LET f == [o EXCEPT !.finalized = TRUE] IN
  IF ~o.in_use \/ o.finalized THEN Res(o, NotInitialized, NoOut)
  ELSE IF ~o.sigctx THEN Res(f, Panic, NoOut)
  ELSE IF ~o.ctx_ready \/ ~ok THEN Res(f, ProviderError, NoOut)
  ELSE IF sig # RsaSig(o.absorbed) THEN Res(f, SignatureInvalid, NoOut)
  ELSE Res(f, OK, NoOut)

(* Variant of sign that ignores the error of sign_update.                *)
SignIgnoresUpdateError(o, d, sigok, ok1, ok2, ok3) ==
  LET f == [o EXCEPT !.finalized = TRUE]
      u == DigestUpdate(o, d, ok1, ok2)
  IN IF o.in_use \/ o.finalized THEN Res(o, NotInitialized, NoOut)
     ELSE IF o.mech = "RSA_PKCS" /\ d \in LongData THEN Res(f, DataLenRange, NoOut)
     ELSE IF o.mech = "RSA_PKCS" /\ ~sigok THEN Res(f, GeneralError, NoOut)
     ELSE IF o.mech = "RSA_PKCS" /\ ~(ok1 /\ ok2) THEN Res(f, DeviceError, NoOut)
     ELSE IF o.mech = "RSA_PKCS" THEN Res(f, OK, RsaSig(<<d>>))
     ELSE IF u.rv = Panic THEN u
     ELSE SignFinal(u.op, ok3)

(***************************************************************************)
(* Sign::sign.  CKM_RSA_PKCS: finalized is set first, then the data and   *)
(* signature lengths are checked, the context set up (ok1) and the raw     *)
(* signature made (ok2).  A digest mechanism runs sign_update (ok1 for    *)
(* the context, ok2 for the chunk) then sign_final (ok3), returning at     *)
(* once, with finalized unset, when the update fails.                      *)
(***************************************************************************)
Sign(o, d, sigok, ok1, ok2, ok3) ==
  LET f == [o EXCEPT !.finalized = TRUE]
      u == DigestUpdate(o, d, ok1, ok2)
  IN IF o.in_use \/ o.finalized THEN Res(o, NotInitialized, NoOut)
     ELSE IF o.mech = "RSA_PKCS" /\ d \in LongData THEN Res(f, DataLenRange, NoOut)
     ELSE IF o.mech = "RSA_PKCS" /\ ~sigok THEN Res(f, GeneralError, NoOut)
     ELSE IF o.mech = "RSA_PKCS" /\ ~(ok1 /\ ok2) THEN Res(f, DeviceError, NoOut)
     ELSE IF o.mech = "RSA_PKCS" THEN Res(f, OK, RsaSig(<<d>>))
     ELSE IF u.rv # OK THEN u
     ELSE SignFinal(u.op, ok3)

(***************************************************************************)
(* Verify::verify.  CKM_RSA_PKCS: finalized is set, the lengths checked,   *)
(* the context initialised with EVP_PKEY_verify_init (ok1), and then       *)
(* EVP_PKEY_sign is called on it.  A digest mechanism runs verify_update   *)
(* then verify_final.                                                      *)
(***************************************************************************)
Verify(o, d, sig, ok1, ok2, ok3) ==
  LET f == [o EXCEPT !.finalized = TRUE]
      u == DigestUpdate(o, d, ok1, ok2)
  IN IF o.in_use \/ o.finalized THEN Res(o, NotInitialized, NoOut)
     ELSE IF o.mech = "RSA_PKCS" /\ d \in LongData THEN Res(f, DataLenRange, NoOut)
     ELSE IF o.mech = "RSA_PKCS" /\ sig = WrongLenSig THEN Res(f, GeneralError, NoOut)
     ELSE IF o.mech = "RSA_PKCS" /\ ~ok1 THEN Res(f, DeviceError, NoOut)
     ELSE IF o.mech = "RSA_PKCS" /\ ~(EvpPkeySignOnVerifyCtx /\ ok2) THEN Res(f, DeviceError, NoOut)
     ELSE IF o.mech = "RSA_PKCS" THEN Res(f, OK, NoOut)
     ELSE IF u.rv # OK THEN u
     ELSE VerifyFinal(u.op, sig, ok3)

-----------------------------------------------------------------------------
Record(r, c, d, s, b) ==
  /\ op' = r.op
  /\ rv' = r.rv
  /\ out' = r.out
  /\ call' = c
  /\ lastData' = d
  /\ lastSig' = s
  /\ lastBuf' = b
  /\ accepted' = IF r.rv = OK /\ d \in Data /\ b # "null"
                 THEN Append(accepted, d) ELSE accepted

Init ==
  /\ op = NoOp
  /\ rv = OK
  /\ out = NoOut
  /\ call = "None"
  /\ lastData = NoOut
  /\ lastSig = NoOut
  /\ lastBuf = NoOut
  /\ accepted = <<>>

Is(mode) == op # NoOp /\ op.mode = mode
HasRoom == Len(op.absorbed) < MaxData

New ==
  /\ op = NoOp
  /\ \E mode \in {"encrypt", "decrypt", "sign", "verify"}, mech \in Mechs,
        key \in KeyObjects, ok \in Outcomes :
       Record(NewOp(mode, mech, key, ok), "New", NoOut, NoOut, NoOut)

EncryptCall ==
  /\ Is("encrypt")
  /\ \E d \in Data, buf \in Buffers, ok1, ok2 \in Outcomes :
       Record(Encrypt(op, d, buf, ok1, ok2), "Encrypt", d, NoOut, buf)

EncryptUpdate ==
  /\ Is("encrypt")
  /\ Record(NotMultiPart(op), "EncryptUpdate", NoOut, NoOut, NoOut)

EncryptFinal ==
  /\ Is("encrypt")
  /\ Record(NotMultiPart(op), "EncryptFinal", NoOut, NoOut, NoOut)

DecryptCall ==
  /\ Is("decrypt")
  /\ \E c \in Ciphers, buf \in Buffers, ok1, ok2 \in Outcomes :
       Record(Decrypt(op, c, buf, ok1, ok2), "Decrypt", c, NoOut, buf)

DecryptUpdate ==
  /\ Is("decrypt")
  /\ Record(NotMultiPart(op), "DecryptUpdate", NoOut, NoOut, NoOut)

DecryptFinal ==
  /\ Is("decrypt")
  /\ Record(NotMultiPart(op), "DecryptFinal", NoOut, NoOut, NoOut)

SignCall ==
  /\ Is("sign") /\ HasRoom
  /\ \E d \in Data, sigok \in BOOLEAN, ok1, ok2, ok3 \in Outcomes :
       Record(Sign(op, d, sigok, ok1, ok2, ok3), "Sign", d, NoOut, NoOut)

SignUpdate ==
  /\ Is("sign") /\ HasRoom
  /\ \E d \in Data, ok1, ok2 \in Outcomes :
       Record(DigestUpdate(op, d, ok1, ok2), "SignUpdate", d, NoOut, NoOut)

SignFinalCall ==
  /\ Is("sign")
  /\ \E ok \in Outcomes :
       Record(SignFinal(op, ok), "SignFinal", NoOut, NoOut, NoOut)

VerifyCall ==
  /\ Is("verify") /\ HasRoom
  /\ \E d \in Data, sig \in Sigs, ok1, ok2, ok3 \in Outcomes :
       Record(Verify(op, d, sig, ok1, ok2, ok3), "Verify", d, sig, NoOut)

VerifyUpdate ==
  /\ Is("verify") /\ HasRoom
  /\ \E d \in Data, ok1, ok2 \in Outcomes :
       Record(DigestUpdate(op, d, ok1, ok2), "VerifyUpdate", d, NoOut, NoOut)

VerifyFinalCall ==
  /\ Is("verify")
  /\ \E sig \in Sigs, ok \in Outcomes :
       Record(VerifyFinal(op, sig, ok), "VerifyFinal", NoOut, sig, NoOut)

Next ==
  \/ New
  \/ EncryptCall \/ EncryptUpdate \/ EncryptFinal
  \/ DecryptCall \/ DecryptUpdate \/ DecryptFinal
  \/ SignCall \/ SignUpdate \/ SignFinalCall
  \/ VerifyCall \/ VerifyUpdate \/ VerifyFinalCall

Spec == Init /\ [][Next]_vars

-----------------------------------------------------------------------------
(* Type invariant. *)
TypeOK ==
  /\ op \in Ops \cup {NoOp}
  /\ rv \in RVs
  /\ out \in Outputs \cup {NoOut}
  /\ call \in {"None", "New", "Encrypt", "EncryptUpdate", "EncryptFinal",
               "Decrypt", "DecryptUpdate", "DecryptFinal", "Sign",
               "SignUpdate", "SignFinal", "Verify", "VerifyUpdate",
               "VerifyFinal"}
  /\ lastData \in Data \cup Ciphers \cup {NoOut}
  /\ lastSig \in Sigs \cup {NoOut}
  /\ lastBuf \in Buffers \cup {NoOut}
  /\ accepted \in Seq(Data)

(***************************************************************************)
(* sign_update, sign_final, verify_update and verify_final unwrap sigctx, *)
(* which is None for CKM_RSA_PKCS.  No sequence of calls reaches one of    *)
(* those unwraps on a CKM_RSA_PKCS operation: the thread never panics.     *)
(***************************************************************************)
NoSigCtxPanic == rv # Panic

(***************************************************************************)
(* A length query to encrypt or decrypt (null output buffer) and a call   *)
(* with a buffer too small leave the operation exactly as it was, so the  *)
(* caller can retry with a large enough buffer (spec section 4.5).         *)
(***************************************************************************)
SizeQueryKeepsOperation ==
  [][call' \in {"Encrypt", "Decrypt"} /\ lastBuf' \in {"null", "small"}
       => op' = op]_vars

(***************************************************************************)
(* A signature returned by sign or sign_final is the signature of exactly *)
(* the chunks the caller passed in calls that returned OK, in order.       *)
(***************************************************************************)
SignatureBindsMessage ==
  rv = OK /\ call \in {"Sign", "SignFinal"} => out = RsaSig(accepted)

(***************************************************************************)
(* verify / verify_final never accept a signature that is not the         *)
(* signature of the message the caller passed, and never reject, as       *)
(* SIGNATURE_INVALID, one that is.                                         *)
(***************************************************************************)
VerifiedMessage == IF call = "Verify" THEN <<lastData>> ELSE accepted

VerifyVerdictSound ==
  call \in {"Verify", "VerifyFinal"} /\ rv \in {OK, SignatureInvalid}
    => (rv = OK <=> lastSig = RsaSig(VerifiedMessage))

(***************************************************************************)
(* Spec section 8: verify(pk, m, sign(sk, m)) = OK.  A one-shot verify on  *)
(* a fresh operation, of a chunk that fits, with the right signature,      *)
(* returns OK when OpenSSL does not fail.                                  *)
(***************************************************************************)
VerifyAcceptsOwnSignature ==
  [][/\ call' = "Verify" /\ op # NoOp /\ ~op.in_use /\ ~op.finalized
     /\ lastData' \in ShortData /\ lastSig' = RsaSig(<<lastData'>>)
     => rv' = OK]_vars

(***************************************************************************)
(* Refinement: the operation implements the lifecycle of spec section 4.5. *)
(***************************************************************************)
PhaseOf(o) ==
  IF o = NoOp THEN "Fresh"
  ELSE IF o.finalized THEN "Done"
  ELSE IF o.in_use THEN "Running"
  ELSE "Fresh"

KindOf(c) ==
  IF c \in {"Encrypt", "Decrypt", "Sign", "Verify"} THEN "oneshot"
  ELSE IF c \in {"EncryptUpdate", "DecryptUpdate", "SignUpdate",
              "VerifyUpdate"} THEN "update"
  ELSE IF c \in {"EncryptFinal", "DecryptFinal", "SignFinal",
              "VerifyFinal"} THEN "final"
  ELSE "none"

Lifecycle == INSTANCE OperationLifecycle WITH
  phase <- PhaseOf(op),
  kind <- KindOf(call),
  result <- IF KindOf(call) = "none" \/ rv = OK THEN "OK" ELSE "Err"

LifecycleRefinement == Lifecycle!Spec

=============================================================================
