----------------------- MODULE RsaPkcsOperationProofs -----------------------
(***************************************************************************)
(* Proofs about the RSA PKCS #1 v1.5 operation of RsaPkcsOperation         *)
(* (src/src/fips/rsa.rs), for every set of chunks, moduli, key sizes and   *)
(* bound MaxData:                                                          *)
(*   - the type invariant;                                                 *)
(*   - no call unwraps the missing sigctx of a CKM_RSA_PKCS operation;     *)
(*   - a signature returned with OK signs exactly the accepted chunks;     *)
(*   - the verdict of verify / verify_final is right;                      *)
(*   - a length query or a short buffer leaves the operation unchanged.    *)
(* The strengthening IInv adds what the session's operation looks like:   *)
(* its mechanism is CKM_RSA_PKCS or a digest one, sigctx is present        *)
(* exactly for a digest one and whenever the operation is in_use, an       *)
(* operation that is not in_use has fed nothing to the digest context,     *)
(* and one that is not finalized has fed it exactly the accepted chunks.  *)
(***************************************************************************)
EXTENDS RsaPkcsOperation, SequenceTheorems, TLAPS

Digest == "SHA256_RSA_PKCS"

(* What every operation the session holds looks like.                    *)
WF(o) ==
  /\ o.mech \in {"RSA_PKCS", Digest}
  /\ o.sigctx <=> o.mech = Digest
  /\ o.in_use => o.sigctx
  /\ ~o.in_use => o.absorbed = <<>>

(* The operation o, and the caller's message acc while o is held.         *)
OpInv(o, acc) ==
  /\ o \in Ops \cup {NoOp}
  /\ o # NoOp => WF(o) /\ (~o.finalized => o.absorbed = acc)
  /\ o = NoOp => acc = <<>>

IInv ==
  /\ TypeOK
  /\ OpInv(op, accepted)
  /\ NoSigCtxPanic
  /\ SignatureBindsMessage
  /\ VerifyVerdictSound

-----------------------------------------------------------------------------
(* Messages are sequences of chunks of length at most MaxData.            *)
LEMMA MsgsAreSeqs ==
  ASSUME NEW m \in Msgs
  PROVE  m \in Seq(Data) /\ Len(m) <= MaxData
<1>1. PICK n \in 0..MaxData : m \in [1..n -> Data]
  BY DEF Msgs
<1>2. m \in Seq(Data)
  BY <1>1, SeqDef, MaxDataAssumption
<1>3. Len(m) = n
  BY <1>1, <1>2, LenProperties, MaxDataAssumption
<1>. QED
  BY <1>2, <1>3

(* Appending a chunk to a message shorter than MaxData gives a message.   *)
LEMMA MsgsAppend ==
  ASSUME NEW m \in Msgs, NEW d \in Data, Len(m) < MaxData
  PROVE  Append(m, d) \in Msgs
<1>1. m \in Seq(Data)
  BY MsgsAreSeqs
<1>2. /\ Append(m, d) \in Seq(Data)
      /\ Len(Append(m, d)) = Len(m) + 1
  BY <1>1, AppendProperties
<1>3. Append(m, d) \in [1..Len(m) + 1 -> Data]
  BY <1>2, LenProperties
<1>. QED
  BY <1>1, <1>3, LenProperties, MaxDataAssumption DEF Msgs

LEMMA EmptyMsg == <<>> \in Msgs
  BY MaxDataAssumption DEF Msgs

LEMMA InitIInv == Init => IInv
<1> SUFFICES ASSUME Init PROVE IInv
  OBVIOUS
<1>1. TypeOK
  BY DEF Init, TypeOK, RVs
<1>. QED
  BY <1>1 DEF Init, IInv, OpInv, NoSigCtxPanic, SignatureBindsMessage,
              VerifyVerdictSound, OK, Panic

-----------------------------------------------------------------------------
(***************************************************************************)
(* A method's result r, recorded for call c with chunk d, signature s and  *)
(* buffer b, is good when the state Record makes of it satisfies IInv.    *)
(***************************************************************************)
NewAcc(r, d, b) == IF r.rv = OK /\ d \in Data /\ b # "null"
                   THEN Append(accepted, d) ELSE accepted

SignCond(r, c, acc) ==
  r.rv = OK /\ c \in {"Sign", "SignFinal"} => r.out = RsaSig(acc)

VerdictCond(r, c, d, s, acc) ==
  c \in {"Verify", "VerifyFinal"} /\ r.rv \in {OK, SignatureInvalid}
    => (r.rv = OK <=> s = RsaSig(IF c = "Verify" THEN <<d>> ELSE acc))

Good(r, c, d, s, b) ==
  /\ OpInv(r.op, NewAcc(r, d, b))
  /\ r.rv \in RVs \ {Panic}
  /\ r.out \in Outputs \cup {NoOut}
  /\ SignCond(r, c, NewAcc(r, d, b))
  /\ VerdictCond(r, c, d, s, NewAcc(r, d, b))

Calls == {"None", "New", "Encrypt", "EncryptUpdate", "EncryptFinal",
          "Decrypt", "DecryptUpdate", "DecryptFinal", "Sign",
          "SignUpdate", "SignFinal", "Verify", "VerifyUpdate", "VerifyFinal"}

LEMMA RecordIInv ==
  ASSUME IInv, NEW r, NEW c \in Calls, NEW d \in Data \cup Ciphers \cup {NoOut},
         NEW s \in Sigs \cup {NoOut}, NEW b \in Buffers \cup {NoOut},
         Good(r, c, d, s, b), Record(r, c, d, s, b)
  PROVE  IInv'
<1>1. accepted' = NewAcc(r, d, b)
  BY DEF Record, NewAcc
<1>2. NewAcc(r, d, b) \in Seq(Data)
  BY AppendProperties DEF IInv, TypeOK, NewAcc
<1>3. TypeOK'
  BY <1>1, <1>2 DEF Good, OpInv, Record, Calls, TypeOK, RVs
<1>4. OpInv(op, accepted)' /\ NoSigCtxPanic'
  BY <1>1 DEF Good, OpInv, WF, Record, NoSigCtxPanic
<1>5. SignatureBindsMessage' /\ VerifyVerdictSound'
  BY <1>1 DEF Good, SignCond, VerdictCond, Record, SignatureBindsMessage,
              VerifyVerdictSound, VerifiedMessage
<1>. QED
  BY <1>3, <1>4, <1>5 DEF IInv

(* A result that leaves the session's operation as it was, with no output *)
(* and no verdict, and OK only for a length query.                        *)
LEMMA KeepGood ==
  ASSUME IInv, NEW rv0 \in RVs \ {Panic}, NEW c, NEW d, NEW s, NEW b,
         rv0 = OK => b = "null",
         c \in {"Sign", "SignFinal", "Verify", "VerifyFinal"} =>
           rv0 \notin {OK, SignatureInvalid}
  PROVE  Good(Res(op, rv0, NoOut), c, d, s, b)
<1>1. NewAcc(Res(op, rv0, NoOut), d, b) = accepted
  BY DEF NewAcc, Res
<1>. QED
  BY <1>1 DEF IInv, Good, Res, SignCond, VerdictCond

(* Setting finalized keeps an operation well formed, and then nothing    *)
(* ties it to the caller's message.                                        *)
LEMMA FinOp ==
  ASSUME NEW o \in Ops, WF(o), NEW acc
  PROVE  OpInv([o EXCEPT !.finalized = TRUE], acc)
  BY NoOpAssumption DEF Ops, WF, OpInv

-----------------------------------------------------------------------------
(* A modulus that passes the key-size gate has a size the mechanism       *)
(* info allows.                                                            *)
LEMMA KeySizeGate ==
  ASSUME NEW l \in ModLens, ~KeySizeOutOfRange(l)
  PROVE  l * 8 >= MinKeySize /\ (MaxKeySize = 0 \/ l * 8 <= MaxKeySize)
<1>1. l \in Nat /\ MinKeySize \in Nat /\ MaxKeySize \in Nat
  BY ModLensAssumption, KeySizeAssumption
<1>2. ~(l * 8 < MinKeySize) /\ ~(MaxKeySize # 0 /\ l * 8 > MaxKeySize)
  BY DEF KeySizeOutOfRange
<1>. QED
  BY <1>1, <1>2

(* The constructors: a failure leaves the session without an operation; a *)
(* success gives a fresh, well-formed one with sigctx for a digest         *)
(* mechanism only.                                                          *)
LEMMA NewGood ==
  ASSUME IInv, op = NoOp, NEW mode \in {"encrypt", "decrypt", "sign", "verify"},
         NEW mech \in Mechs, NEW key \in KeyObjects, NEW ok \in BOOLEAN
  PROVE  Good(NewOp(mode, mech, key, ok), "New", NoOut, NoOut, NoOut)
<1> DEFINE r == NewOp(mode, mech, key, ok)
           Passes == /\ key.has_modulus /\ ~KeySizeOutOfRange(key.modlen)
                     /\ ~(mode \in {"encrypt", "decrypt"} /\ mech # "RSA_PKCS")
                     /\ ok /\ ~(mode \in {"decrypt", "sign"} /\ ~key.has_private)
                     /\ ~(mode \in {"sign", "verify"} /\ mech = "OTHER")
           new == [mode |-> mode, mech |-> mech, modlen |-> key.modlen,
                   in_use |-> FALSE, finalized |-> FALSE,
                   sigctx |-> mode \in {"sign", "verify"} /\ mech # "RSA_PKCS",
                   ctx_ready |-> FALSE, absorbed |-> <<>>]
<1>1. CASE ~Passes
  <2>1. PICK rv0 \in {NotFound, KeySizeRange, MechanismInvalid, DeviceError,
                      GeneralError} : r = Res(NoOp, rv0, NoOut)
    BY <1>1 DEF NewOp, Passes
  <2>2. rv0 \in RVs \ {Panic} /\ rv0 # OK
    BY DEF RVs, Panic, OK, NotFound, KeySizeRange, MechanismInvalid,
           DeviceError, GeneralError
  <2>. QED
    BY <2>1, <2>2, KeepGood
<1>2. CASE Passes
  <2>1. r = Res(new, OK, NoOut)
    BY <1>2 DEF NewOp, Passes
  <2>2. key.modlen \in ModLens /\ key.modlen * 8 >= MinKeySize
        /\ (MaxKeySize = 0 \/ key.modlen * 8 <= MaxKeySize)
    <3>1. ~KeySizeOutOfRange(key.modlen)
      BY <1>2 DEF Passes
    <3>2. key.modlen \in ModLens
      BY DEF KeyObjects
    <3>. QED
      BY <3>1, <3>2, KeySizeGate
  <2>3. new \in Ops
    BY <2>2, EmptyMsg DEF Ops
  <2>4. WF(new) /\ new # NoOp
    BY <1>2, <2>3, NoOpAssumption DEF WF, Digest, Mechs, Passes
  <2>5. NewAcc(r, NoOut, NoOut) = accepted /\ accepted = <<>>
    BY <2>1, NoOutAssumption DEF NewAcc, Res, IInv, OpInv
  <2>. QED
    BY <2>1, <2>3, <2>4, <2>5 DEF Good, OpInv, Res, RVs, OK, Panic,
                                  SignCond, VerdictCond
<1>. QED
  BY <1>1, <1>2

(* Encryption::encrypt: every refusal and every length query leaves the   *)
(* operation as it was; the call proper finishes it.                       *)
LEMMA EncryptGood ==
  ASSUME IInv, op # NoOp, NEW d \in Data, NEW buf \in Buffers,
         NEW ok1 \in BOOLEAN, NEW ok2 \in BOOLEAN
  PROVE  Good(Encrypt(op, d, buf, ok1, ok2), "Encrypt", d, NoOut, buf)
<1> DEFINE r == Encrypt(op, d, buf, ok1, ok2)
<1>0. op \in Ops /\ WF(op)
  BY DEF IInv, TypeOK, OpInv
<1>1. CASE op.in_use \/ op.finalized \/ ~ok1 \/ buf \in {"null", "small"}
  <2>0. \A rv0 \in {NotInitialized, DeviceError, BufferTooSmall} :
          Good(Res(op, rv0, NoOut), "Encrypt", d, NoOut, buf)
    BY KeepGood DEF RVs, Panic, OK, NotInitialized, DeviceError, BufferTooSmall
  <2>1. CASE op.in_use \/ op.finalized
    BY <2>0, <2>1 DEF Encrypt
  <2>2. CASE ~(op.in_use \/ op.finalized) /\ ~ok1
    BY <2>0, <2>2 DEF Encrypt
  <2>3. CASE ~(op.in_use \/ op.finalized) /\ ok1 /\ buf = "null"
    <3>1. r = Res(op, OK, NoOut)
      BY <2>3 DEF Encrypt
    <3>. QED
      BY <2>3, <3>1, KeepGood DEF RVs, OK, Panic
  <2>4. CASE ~(op.in_use \/ op.finalized) /\ ok1 /\ buf = "small"
    BY <2>0, <2>4 DEF Encrypt
  <2>. QED
    BY <1>1, <2>1, <2>2, <2>3, <2>4
<1>2. CASE ~(op.in_use \/ op.finalized \/ ~ok1 \/ buf \in {"null", "small"})
  <2>1. /\ r.op = [op EXCEPT !.finalized = TRUE]
        /\ r.rv \in {DeviceError, OK}
        /\ r.rv = OK => r.out = Cipher(d) /\ d \in ShortData
        /\ r.rv # OK => r.out = NoOut
    BY <1>2 DEF Encrypt, Res, Data, OK, DeviceError
  <2>2. r.out \in Outputs \cup {NoOut}
    BY <2>1 DEF Outputs, Ciphers
  <2>. QED
    BY <1>0, <2>1, <2>2, FinOp DEF Good, RVs, Panic, OK, DeviceError,
                                   SignCond, VerdictCond
<1>. QED
  BY <1>1, <1>2

(* Decryption::decrypt: the same, with a ciphertext for the chunk.        *)
LEMMA DecryptGood ==
  ASSUME IInv, op # NoOp, NEW c \in Ciphers, NEW buf \in Buffers,
         NEW ok1 \in BOOLEAN, NEW ok2 \in BOOLEAN
  PROVE  Good(Decrypt(op, c, buf, ok1, ok2), "Decrypt", c, NoOut, buf)
<1> DEFINE r == Decrypt(op, c, buf, ok1, ok2)
<1>0. op \in Ops /\ WF(op)
  BY DEF IInv, TypeOK, OpInv
<1>1. CASE op.in_use \/ op.finalized \/ ~ok1 \/ buf \in {"null", "small"}
  <2>0. \A rv0 \in {NotInitialized, DeviceError, BufferTooSmall} :
          Good(Res(op, rv0, NoOut), "Decrypt", c, NoOut, buf)
    BY KeepGood DEF RVs, Panic, OK, NotInitialized, DeviceError, BufferTooSmall
  <2>1. CASE op.in_use \/ op.finalized
    BY <2>0, <2>1 DEF Decrypt
  <2>2. CASE ~(op.in_use \/ op.finalized) /\ ~ok1
    BY <2>0, <2>2 DEF Decrypt
  <2>3. CASE ~(op.in_use \/ op.finalized) /\ ok1 /\ buf = "null"
    <3>1. r = Res(op, OK, NoOut)
      BY <2>3 DEF Decrypt
    <3>. QED
      BY <2>3, <3>1, KeepGood DEF RVs, OK, Panic
  <2>4. CASE ~(op.in_use \/ op.finalized) /\ ok1 /\ buf = "small"
    BY <2>0, <2>4 DEF Decrypt
  <2>. QED
    BY <1>1, <2>1, <2>2, <2>3, <2>4
<1>2. CASE ~(op.in_use \/ op.finalized \/ ~ok1 \/ buf \in {"null", "small"})
  <2>1. /\ r.op = [op EXCEPT !.finalized = TRUE]
        /\ r.rv \in {DeviceError, OK}
        /\ r.rv = OK => r.out = c.cipher /\ c # BadCipher
        /\ r.rv # OK => r.out = NoOut
    BY <1>2 DEF Decrypt, Res, OK, DeviceError
  <2>2. c # BadCipher => c.cipher \in Data
    BY DEF Ciphers, Cipher, Data
  <2>3. r.out \in Outputs \cup {NoOut}
    BY <2>1, <2>2 DEF Outputs
  <2>. QED
    BY <1>0, <2>1, <2>3, FinOp DEF Good, RVs, Panic, OK, DeviceError,
                                   SignCond, VerdictCond
<1>. QED
  BY <1>1, <1>2

(* encrypt_update, encrypt_final, decrypt_update, decrypt_final finish the *)
(* operation and return OPERATION_NOT_INITIALIZED.                        *)
LEMMA NotMultiPartGood ==
  ASSUME IInv, op # NoOp, NEW c \in {"EncryptUpdate", "EncryptFinal",
                                     "DecryptUpdate", "DecryptFinal"}
  PROVE  Good(NotMultiPart(op), c, NoOut, NoOut, NoOut)
<1>0. op \in Ops /\ WF(op)
  BY DEF IInv, TypeOK, OpInv
<1>. QED
  BY <1>0, FinOp DEF NotMultiPart, Res, Good, RVs, Panic, OK, NotInitialized,
                     SignCond, VerdictCond

-----------------------------------------------------------------------------
(***************************************************************************)
(* sign_update / verify_update on a well-formed operation with room for a *)
(* chunk: refused (operation unchanged) when finalized, or on the first   *)
(* call with CKM_RSA_PKCS; otherwise the operation is in_use, its sigctx  *)
(* is present (so the unwrap cannot panic), and the chunk is fed exactly  *)
(* when the call returns OK.                                               *)
(***************************************************************************)
LEMMA DigestUpdateRes ==
  ASSUME NEW o \in Ops, WF(o), Len(o.absorbed) < MaxData,
         NEW d \in Data, NEW ok1 \in BOOLEAN, NEW ok2 \in BOOLEAN
  PROVE  LET u == DigestUpdate(o, d, ok1, ok2)
         IN  /\ u.rv \in {NotInitialized, ProviderError, OK}
             /\ u.out = NoOut
             /\ u.rv = NotInitialized => u.op = o
             /\ u.rv # NotInitialized =>
                  /\ u.op \in Ops /\ WF(u.op) /\ u.op.in_use
                  /\ ~u.op.finalized /\ ~o.finalized
                  /\ (~o.in_use => o.mech = Digest)
             /\ u.rv = ProviderError => u.op.absorbed = o.absorbed
             /\ u.rv = OK => u.op.absorbed = Append(o.absorbed, d)
<1> DEFINE u == DigestUpdate(o, d, ok1, ok2)
           st == IF o.in_use THEN o
                 ELSE [o EXCEPT !.in_use = TRUE, !.ctx_ready = ok1]
<1>1. CASE o.finalized \/ (~o.in_use /\ o.mech = "RSA_PKCS")
  <2>1. u = Res(o, NotInitialized, NoOut)
    BY <1>1 DEF DigestUpdate
  <2>. QED
    BY <2>1 DEF Res, NotInitialized, ProviderError, OK
<1>2. CASE ~o.finalized /\ ~(~o.in_use /\ o.mech = "RSA_PKCS")
  <2>1. o.sigctx /\ (~o.in_use => o.mech = Digest)
    BY <1>2 DEF WF, Digest
  <2>2. /\ st \in Ops /\ st.in_use /\ ~st.finalized /\ st.sigctx
        /\ st.mech = o.mech /\ st.absorbed = o.absorbed
    BY <1>2, <2>1 DEF Ops
  <2>3. WF(st)
    BY <2>2, <2>1 DEF WF
  <2>4. CASE ~st.ctx_ready \/ ~ok2
    <3>1. u = Res(st, ProviderError, NoOut)
      BY <1>2, <2>1, <2>4 DEF DigestUpdate
    <3>. QED
      BY <1>2, <2>1, <2>2, <2>3, <3>1 DEF Res, ProviderError, OK, NotInitialized
  <2>5. CASE st.ctx_ready /\ ok2
    <3>1. u = Res([st EXCEPT !.absorbed = Append(@, d)], OK, NoOut)
      BY <1>2, <2>1, <2>5 DEF DigestUpdate
    <3>2. Append(o.absorbed, d) \in Msgs
      BY MsgsAppend DEF Ops
    <3>3. [st EXCEPT !.absorbed = Append(@, d)] \in Ops
      BY <2>2, <3>2 DEF Ops
    <3>4. WF([st EXCEPT !.absorbed = Append(@, d)])
      BY <2>2, <2>3 DEF WF, Ops
    <3>5. /\ [st EXCEPT !.absorbed = Append(@, d)].in_use
          /\ ~[st EXCEPT !.absorbed = Append(@, d)].finalized
          /\ [st EXCEPT !.absorbed = Append(@, d)].absorbed = Append(o.absorbed, d)
      BY <2>2 DEF Ops
    <3>6. u.rv = OK /\ u.out = NoOut
          /\ u.op = [st EXCEPT !.absorbed = Append(@, d)]
      BY <3>1 DEF Res
    <3>7. OK # NotInitialized /\ OK # ProviderError
      BY DEF OK, NotInitialized, ProviderError
    <3>. QED
      BY <1>2, <2>1, <3>3, <3>4, <3>5, <3>6, <3>7
  <2>. QED
    BY <2>4, <2>5
<1>. QED
  BY <1>1, <1>2

(* sign_final on a Running operation: it is finished, and a signature is *)
(* returned, of the chunks fed, exactly when the call returns OK.          *)
LEMMA SignFinalRes ==
  ASSUME NEW o \in Ops, WF(o), o.in_use, ~o.finalized, NEW ok \in BOOLEAN
  PROVE  LET r == SignFinal(o, ok)
         IN  /\ r.op = [o EXCEPT !.finalized = TRUE]
             /\ r.rv \in {ProviderError, OK}
             /\ r.rv = OK => r.out = RsaSig(o.absorbed)
             /\ r.rv # OK => r.out = NoOut
<1>1. o.sigctx
  BY DEF WF
<1>. QED
  BY <1>1 DEF SignFinal, Res, OK, ProviderError

(* verify_final on a Running operation: it is finished; OK exactly when   *)
(* the signature is that of the chunks fed, SIGNATURE_INVALID exactly     *)
(* when it is another one.                                                 *)
LEMMA VerifyFinalRes ==
  ASSUME NEW o \in Ops, WF(o), o.in_use, ~o.finalized, NEW sig,
         NEW ok \in BOOLEAN
  PROVE  LET r == VerifyFinal(o, sig, ok)
         IN  /\ r.op = [o EXCEPT !.finalized = TRUE]
             /\ r.rv \in {ProviderError, SignatureInvalid, OK}
             /\ r.out = NoOut
             /\ r.rv \in {OK, SignatureInvalid} =>
                  (r.rv = OK <=> sig = RsaSig(o.absorbed))
<1>1. o.sigctx
  BY DEF WF
<1>. QED
  BY <1>1 DEF VerifyFinal, Res, OK, ProviderError, SignatureInvalid

-----------------------------------------------------------------------------
(* The session's operation, well formed, before one of its methods.       *)
LEMMA LiveOp ==
  ASSUME IInv, op # NoOp
  PROVE  /\ op \in Ops /\ WF(op)
         /\ ~op.finalized => op.absorbed = accepted
         /\ accepted \in Seq(Data)
  BY DEF IInv, TypeOK, OpInv

LEMMA DigestUpdateGood ==
  ASSUME IInv, op # NoOp, HasRoom, NEW d \in Data,
         NEW ok1 \in BOOLEAN, NEW ok2 \in BOOLEAN,
         NEW c \in {"SignUpdate", "VerifyUpdate"}
  PROVE  Good(DigestUpdate(op, d, ok1, ok2), c, d, NoOut, NoOut)
<1> DEFINE u == DigestUpdate(op, d, ok1, ok2)
<1>0. op \in Ops /\ WF(op) /\ (~op.finalized => op.absorbed = accepted)
  BY LiveOp
<1>1. /\ u.rv \in {NotInitialized, ProviderError, OK}
      /\ u.out = NoOut
      /\ u.rv = NotInitialized => u.op = op
      /\ u.rv # NotInitialized =>
           /\ u.op \in Ops /\ WF(u.op) /\ u.op.in_use
           /\ ~u.op.finalized /\ ~op.finalized
      /\ u.rv = ProviderError => u.op.absorbed = op.absorbed
      /\ u.rv = OK => u.op.absorbed = Append(op.absorbed, d)
  BY <1>0, DigestUpdateRes DEF HasRoom
<1>2. NewAcc(u, d, NoOut) = IF u.rv = OK THEN Append(accepted, d) ELSE accepted
  BY NoOutAssumption DEF NewAcc, Buffers
<1>3. OpInv(u.op, NewAcc(u, d, NoOut))
  BY <1>0, <1>1, <1>2, NoOpAssumption DEF IInv, OpInv, OK, NotInitialized,
                                         ProviderError
<1>. QED
  BY <1>1, <1>3 DEF Good, RVs, Panic, OK, NotInitialized, ProviderError,
                    SignCond, VerdictCond

LEMMA SignFinalGood ==
  ASSUME IInv, op # NoOp, NEW ok \in BOOLEAN
  PROVE  Good(SignFinal(op, ok), "SignFinal", NoOut, NoOut, NoOut)
<1> DEFINE r == SignFinal(op, ok)
<1>0. op \in Ops /\ WF(op) /\ (~op.finalized => op.absorbed = accepted)
  BY LiveOp
<1>1. CASE ~op.in_use \/ op.finalized
  <2>1. r = Res(op, NotInitialized, NoOut)
    BY <1>1 DEF SignFinal
  <2>. QED
    BY <2>1, KeepGood DEF RVs, Panic, OK, NotInitialized, SignatureInvalid
<1>2. CASE op.in_use /\ ~op.finalized
  <2>1. /\ r.op = [op EXCEPT !.finalized = TRUE]
        /\ r.rv \in {ProviderError, OK}
        /\ r.rv = OK => r.out = RsaSig(op.absorbed)
        /\ r.rv # OK => r.out = NoOut
    BY <1>0, <1>2, SignFinalRes
  <2>2. NewAcc(r, NoOut, NoOut) = accepted
    BY NoOutAssumption DEF NewAcc
  <2>3. RsaSig(op.absorbed) \in Sigs
    BY <1>0 DEF Ops, Sigs
  <2>. QED
    BY <1>0, <1>2, <2>1, <2>2, <2>3, FinOp
       DEF Good, RVs, Panic, OK, ProviderError, Outputs, SignCond, VerdictCond
<1>. QED
  BY <1>1, <1>2

LEMMA VerifyFinalGood ==
  ASSUME IInv, op # NoOp, NEW sig \in Sigs, NEW ok \in BOOLEAN
  PROVE  Good(VerifyFinal(op, sig, ok), "VerifyFinal", NoOut, sig, NoOut)
<1> DEFINE r == VerifyFinal(op, sig, ok)
<1>0. op \in Ops /\ WF(op) /\ (~op.finalized => op.absorbed = accepted)
  BY LiveOp
<1>1. CASE ~op.in_use \/ op.finalized
  <2>1. r = Res(op, NotInitialized, NoOut)
    BY <1>1 DEF VerifyFinal
  <2>. QED
    BY <2>1, KeepGood DEF RVs, Panic, OK, NotInitialized, SignatureInvalid
<1>2. CASE op.in_use /\ ~op.finalized
  <2>1. /\ r.op = [op EXCEPT !.finalized = TRUE]
        /\ r.rv \in {ProviderError, SignatureInvalid, OK}
        /\ r.out = NoOut
        /\ r.rv \in {OK, SignatureInvalid} =>
             (r.rv = OK <=> sig = RsaSig(op.absorbed))
    BY <1>0, <1>2, VerifyFinalRes
  <2>2. NewAcc(r, NoOut, NoOut) = accepted
    BY NoOutAssumption DEF NewAcc
  <2>. QED
    BY <1>0, <1>2, <2>1, <2>2, FinOp
       DEF Good, RVs, Panic, OK, ProviderError, SignatureInvalid,
           SignCond, VerdictCond
<1>. QED
  BY <1>1, <1>2

-----------------------------------------------------------------------------
(* Sign::sign: refused unless Fresh; CKM_RSA_PKCS signs the one chunk;     *)
(* a digest mechanism runs sign_update then sign_final on the chunk.      *)
LEMMA SignGood ==
  ASSUME IInv, op # NoOp, HasRoom, NEW d \in Data, NEW sigok \in BOOLEAN,
         NEW ok1 \in BOOLEAN, NEW ok2 \in BOOLEAN, NEW ok3 \in BOOLEAN
  PROVE  Good(Sign(op, d, sigok, ok1, ok2, ok3), "Sign", d, NoOut, NoOut)
<1> DEFINE r == Sign(op, d, sigok, ok1, ok2, ok3)
           u == DigestUpdate(op, d, ok1, ok2)
<1>0. op \in Ops /\ WF(op) /\ (~op.finalized => op.absorbed = accepted)
  BY LiveOp
<1>1. CASE op.in_use \/ op.finalized
  <2>1. r = Res(op, NotInitialized, NoOut)
    BY <1>1 DEF Sign
  <2>. QED
    BY <2>1, KeepGood DEF RVs, Panic, OK, NotInitialized, SignatureInvalid
<1>2. CASE ~op.in_use /\ ~op.finalized
  <2>1. op.absorbed = <<>> /\ accepted = <<>>
    BY <1>0, <1>2 DEF WF
  <2>2. Append(<<>>, d) \in Msgs /\ Append(<<>>, d) = <<d>>
    <3>1. Len(<<>>) < MaxData
      BY <2>1 DEF HasRoom
    <3>2. Append(<<>>, d) \in Msgs
      BY <3>1, EmptyMsg, MsgsAppend, Zenon
    <3>3. Append(<<>>, d) = <<d>>
      OBVIOUS
    <3>. QED
      BY <3>2, <3>3
  <2>3. NewAcc(r, d, NoOut) = IF r.rv = OK THEN <<d>> ELSE <<>>
    BY <2>1, <2>2, NoOutAssumption DEF NewAcc, Buffers
  <2>4. CASE op.mech = "RSA_PKCS"
    <3>1. /\ r.op = [op EXCEPT !.finalized = TRUE]
          /\ r.rv \in {DataLenRange, GeneralError, DeviceError, OK}
          /\ r.rv = OK => r.out = RsaSig(<<d>>)
          /\ r.rv # OK => r.out = NoOut
      BY <1>2, <2>4 DEF Sign, Res, OK, DataLenRange, GeneralError, DeviceError
    <3>2. RsaSig(<<d>>) \in Sigs
      BY <2>2 DEF Sigs
    <3>. QED
      BY <1>0, <2>3, <3>1, <3>2, FinOp
         DEF Good, RVs, Panic, OK, DataLenRange, GeneralError, DeviceError,
             SignatureInvalid, Outputs, SignCond, VerdictCond
  <2>5. CASE op.mech # "RSA_PKCS"
    <3>1. /\ u.rv \in {NotInitialized, ProviderError, OK}
          /\ u.out = NoOut
          /\ u.rv = NotInitialized => u.op = op
          /\ u.rv # NotInitialized =>
               /\ u.op \in Ops /\ WF(u.op) /\ u.op.in_use
               /\ ~u.op.finalized
          /\ u.rv = ProviderError => u.op.absorbed = op.absorbed
          /\ u.rv = OK => u.op.absorbed = Append(op.absorbed, d)
      BY <1>0, DigestUpdateRes DEF HasRoom
    <3>2. CASE u.rv # OK
      <4>1. r = u
        BY <1>2, <2>5, <3>2 DEF Sign
      <4>2. OpInv(u.op, <<>>)
        BY <1>0, <2>1, <3>1, <3>2, NoOpAssumption
           DEF IInv, OpInv, OK, NotInitialized, ProviderError
      <4>. QED
        BY <2>3, <3>1, <3>2, <4>1, <4>2
           DEF Good, RVs, Panic, OK, NotInitialized, ProviderError,
               SignatureInvalid, SignCond, VerdictCond
    <3>3. CASE u.rv = OK
      <4>1. r = SignFinal(u.op, ok3)
        BY <1>2, <2>5, <3>3 DEF Sign
      <4>2. u.op \in Ops /\ WF(u.op) /\ u.op.in_use /\ ~u.op.finalized
            /\ u.op.absorbed = <<d>>
        BY <2>1, <2>2, <3>1, <3>3 DEF OK, NotInitialized
      <4>3. /\ r.op = [u.op EXCEPT !.finalized = TRUE]
            /\ r.rv \in {ProviderError, OK}
            /\ r.rv = OK => r.out = RsaSig(<<d>>)
            /\ r.rv # OK => r.out = NoOut
        BY <4>1, <4>2, SignFinalRes
      <4>4. RsaSig(<<d>>) \in Sigs
        BY <2>2 DEF Sigs
      <4>. QED
        BY <2>3, <4>2, <4>3, <4>4, FinOp
           DEF Good, RVs, Panic, OK, ProviderError, SignatureInvalid, Outputs,
               SignCond, VerdictCond
    <3>. QED
      BY <3>2, <3>3
  <2>. QED
    BY <2>4, <2>5
<1>. QED
  BY <1>1, <1>2

(* Verify::verify: refused unless Fresh; CKM_RSA_PKCS never returns OK     *)
(* (EVP_PKEY_sign on a verify context fails); a digest mechanism runs     *)
(* verify_update then verify_final on the chunk.                          *)
LEMMA VerifyGood ==
  ASSUME IInv, op # NoOp, HasRoom, NEW d \in Data, NEW sig \in Sigs,
         NEW ok1 \in BOOLEAN, NEW ok2 \in BOOLEAN, NEW ok3 \in BOOLEAN
  PROVE  Good(Verify(op, d, sig, ok1, ok2, ok3), "Verify", d, sig, NoOut)
<1> DEFINE r == Verify(op, d, sig, ok1, ok2, ok3)
           u == DigestUpdate(op, d, ok1, ok2)
<1>0. op \in Ops /\ WF(op) /\ (~op.finalized => op.absorbed = accepted)
  BY LiveOp
<1>1. CASE op.in_use \/ op.finalized
  <2>1. r = Res(op, NotInitialized, NoOut)
    BY <1>1 DEF Verify
  <2>. QED
    BY <2>1, KeepGood DEF RVs, Panic, OK, NotInitialized, SignatureInvalid
<1>2. CASE ~op.in_use /\ ~op.finalized
  <2>1. op.absorbed = <<>> /\ accepted = <<>>
    BY <1>0, <1>2 DEF WF
  <2>2. Append(<<>>, d) \in Msgs /\ Append(<<>>, d) = <<d>>
    <3>1. Len(<<>>) < MaxData
      BY <2>1 DEF HasRoom
    <3>2. Append(<<>>, d) \in Msgs
      BY <3>1, EmptyMsg, MsgsAppend, Zenon
    <3>3. Append(<<>>, d) = <<d>>
      OBVIOUS
    <3>. QED
      BY <3>2, <3>3
  <2>3. NewAcc(r, d, NoOut) = IF r.rv = OK THEN <<d>> ELSE <<>>
    BY <2>1, <2>2, NoOutAssumption DEF NewAcc, Buffers
  <2>4. CASE op.mech = "RSA_PKCS"
    <3>1. /\ r.op = [op EXCEPT !.finalized = TRUE]
          /\ r.rv \in {DataLenRange, GeneralError, DeviceError}
          /\ r.out = NoOut
      BY <1>2, <2>4 DEF Verify, Res, EvpPkeySignOnVerifyCtx
    <3>2. RsaSig(<<d>>) \in Sigs
      BY <2>2 DEF Sigs
    <3>. QED
      BY <1>0, <2>3, <3>1, <3>2, FinOp
         DEF Good, RVs, Panic, OK, DataLenRange, GeneralError, DeviceError,
             SignatureInvalid, Outputs, SignCond, VerdictCond
  <2>5. CASE op.mech # "RSA_PKCS"
    <3>1. /\ u.rv \in {NotInitialized, ProviderError, OK}
          /\ u.out = NoOut
          /\ u.rv = NotInitialized => u.op = op
          /\ u.rv # NotInitialized =>
               /\ u.op \in Ops /\ WF(u.op) /\ u.op.in_use
               /\ ~u.op.finalized
          /\ u.rv = ProviderError => u.op.absorbed = op.absorbed
          /\ u.rv = OK => u.op.absorbed = Append(op.absorbed, d)
      BY <1>0, DigestUpdateRes DEF HasRoom
    <3>2. CASE u.rv # OK
      <4>1. r = u
        BY <1>2, <2>5, <3>2 DEF Verify
      <4>2. OpInv(u.op, <<>>)
        BY <1>0, <2>1, <3>1, <3>2, NoOpAssumption
           DEF IInv, OpInv, OK, NotInitialized, ProviderError
      <4>. QED
        BY <2>3, <3>1, <3>2, <4>1, <4>2
           DEF Good, RVs, Panic, OK, NotInitialized, ProviderError,
               SignatureInvalid, SignCond, VerdictCond
    <3>3. CASE u.rv = OK
      <4>1. r = VerifyFinal(u.op, sig, ok3)
        BY <1>2, <2>5, <3>3 DEF Verify
      <4>2. u.op \in Ops /\ WF(u.op) /\ u.op.in_use /\ ~u.op.finalized
            /\ u.op.absorbed = <<d>>
        BY <2>1, <2>2, <3>1, <3>3 DEF OK, NotInitialized
      <4>3. /\ r.op = [u.op EXCEPT !.finalized = TRUE]
            /\ r.rv \in {ProviderError, SignatureInvalid, OK}
            /\ r.out = NoOut
            /\ r.rv \in {OK, SignatureInvalid} =>
                 (r.rv = OK <=> sig = RsaSig(<<d>>))
        BY <4>1, <4>2, VerifyFinalRes
      <4>4. RsaSig(<<d>>) \in Sigs
        BY <2>2 DEF Sigs
      <4>. QED
        BY <2>3, <4>2, <4>3, <4>4, FinOp
           DEF Good, RVs, Panic, OK, ProviderError, SignatureInvalid, Outputs,
               SignCond, VerdictCond
    <3>. QED
      BY <3>2, <3>3
  <2>. QED
    BY <2>4, <2>5
<1>. QED
  BY <1>1, <1>2

-----------------------------------------------------------------------------
(* Every step of the session preserves IInv.                              *)
LEMMA IInvStep == IInv /\ [Next]_vars => IInv'
<1> SUFFICES ASSUME IInv, [Next]_vars PROVE IInv'
  OBVIOUS
<1>0. /\ Data \subseteq Data \cup Ciphers \cup {NoOut}
      /\ Ciphers \subseteq Data \cup Ciphers \cup {NoOut}
      /\ Sigs \subseteq Sigs \cup {NoOut}
      /\ Buffers \subseteq Buffers \cup {NoOut}
  OBVIOUS
<1>1. CASE New
  <2>1. PICK mode \in {"encrypt", "decrypt", "sign", "verify"}, mech \in Mechs,
             key \in KeyObjects, ok \in Outcomes :
          Record(NewOp(mode, mech, key, ok), "New", NoOut, NoOut, NoOut)
    BY <1>1 DEF New
  <2>2. ok \in BOOLEAN
    BY DEF Outcomes
  <2>3. Good(NewOp(mode, mech, key, ok), "New", NoOut, NoOut, NoOut)
    BY <1>1, <2>2, NewGood DEF New, Is
  <2>. QED
    BY <1>0, <2>1, <2>3, RecordIInv DEF Calls
<1>2. CASE EncryptCall
  <2>1. PICK d \in Data, buf \in Buffers, ok1, ok2 \in Outcomes :
          Record(Encrypt(op, d, buf, ok1, ok2), "Encrypt", d, NoOut, buf)
    BY <1>2 DEF EncryptCall
  <2>2. ok1 \in BOOLEAN /\ ok2 \in BOOLEAN
    BY DEF Outcomes
  <2>3. Good(Encrypt(op, d, buf, ok1, ok2), "Encrypt", d, NoOut, buf)
    BY <1>2, <2>2, EncryptGood DEF EncryptCall, Is
  <2>. QED
    BY <1>0, <2>1, <2>3, RecordIInv DEF Calls
<1>3. CASE EncryptUpdate
  <2>1. Good(NotMultiPart(op), "EncryptUpdate", NoOut, NoOut, NoOut)
    BY <1>3, NotMultiPartGood DEF EncryptUpdate, Is
  <2>. QED
    BY <1>3, <2>1, RecordIInv DEF EncryptUpdate, Calls
<1>4. CASE EncryptFinal
  <2>1. Good(NotMultiPart(op), "EncryptFinal", NoOut, NoOut, NoOut)
    BY <1>4, NotMultiPartGood DEF EncryptFinal, Is
  <2>. QED
    BY <1>4, <2>1, RecordIInv DEF EncryptFinal, Calls
<1>5. CASE DecryptCall
  <2>1. PICK c \in Ciphers, buf \in Buffers, ok1, ok2 \in Outcomes :
          Record(Decrypt(op, c, buf, ok1, ok2), "Decrypt", c, NoOut, buf)
    BY <1>5 DEF DecryptCall
  <2>2. ok1 \in BOOLEAN /\ ok2 \in BOOLEAN
    BY DEF Outcomes
  <2>3. Good(Decrypt(op, c, buf, ok1, ok2), "Decrypt", c, NoOut, buf)
    BY <1>5, <2>2, DecryptGood DEF DecryptCall, Is
  <2>. QED
    BY <1>0, <2>1, <2>3, RecordIInv DEF Calls
<1>6. CASE DecryptUpdate
  <2>1. Good(NotMultiPart(op), "DecryptUpdate", NoOut, NoOut, NoOut)
    BY <1>6, NotMultiPartGood DEF DecryptUpdate, Is
  <2>. QED
    BY <1>6, <2>1, RecordIInv DEF DecryptUpdate, Calls
<1>7. CASE DecryptFinal
  <2>1. Good(NotMultiPart(op), "DecryptFinal", NoOut, NoOut, NoOut)
    BY <1>7, NotMultiPartGood DEF DecryptFinal, Is
  <2>. QED
    BY <1>7, <2>1, RecordIInv DEF DecryptFinal, Calls
<1>8. CASE SignCall
  <2>1. PICK d \in Data, sigok \in BOOLEAN, ok1, ok2, ok3 \in Outcomes :
          Record(Sign(op, d, sigok, ok1, ok2, ok3), "Sign", d, NoOut, NoOut)
    BY <1>8 DEF SignCall
  <2>2. ok1 \in BOOLEAN /\ ok2 \in BOOLEAN /\ ok3 \in BOOLEAN
    BY DEF Outcomes
  <2>3. Good(Sign(op, d, sigok, ok1, ok2, ok3), "Sign", d, NoOut, NoOut)
    BY <1>8, <2>2, SignGood DEF SignCall, Is
  <2>. QED
    BY <1>0, <2>1, <2>3, RecordIInv DEF Calls
<1>9. CASE SignUpdate
  <2>1. PICK d \in Data, ok1, ok2 \in Outcomes :
          Record(DigestUpdate(op, d, ok1, ok2), "SignUpdate", d, NoOut, NoOut)
    BY <1>9 DEF SignUpdate
  <2>2. ok1 \in BOOLEAN /\ ok2 \in BOOLEAN
    BY DEF Outcomes
  <2>3. Good(DigestUpdate(op, d, ok1, ok2), "SignUpdate", d, NoOut, NoOut)
    BY <1>9, <2>2, DigestUpdateGood DEF SignUpdate, Is
  <2>. QED
    BY <1>0, <2>1, <2>3, RecordIInv DEF Calls
<1>10. CASE SignFinalCall
  <2>1. PICK ok \in Outcomes :
          Record(SignFinal(op, ok), "SignFinal", NoOut, NoOut, NoOut)
    BY <1>10 DEF SignFinalCall
  <2>2. ok \in BOOLEAN
    BY DEF Outcomes
  <2>3. Good(SignFinal(op, ok), "SignFinal", NoOut, NoOut, NoOut)
    BY <1>10, <2>2, SignFinalGood DEF SignFinalCall, Is
  <2>. QED
    BY <1>0, <2>1, <2>3, RecordIInv DEF Calls
<1>11. CASE VerifyCall
  <2>1. PICK d \in Data, sig \in Sigs, ok1, ok2, ok3 \in Outcomes :
          Record(Verify(op, d, sig, ok1, ok2, ok3), "Verify", d, sig, NoOut)
    BY <1>11 DEF VerifyCall
  <2>2. ok1 \in BOOLEAN /\ ok2 \in BOOLEAN /\ ok3 \in BOOLEAN
    BY DEF Outcomes
  <2>3. Good(Verify(op, d, sig, ok1, ok2, ok3), "Verify", d, sig, NoOut)
    BY <1>11, <2>2, VerifyGood DEF VerifyCall, Is
  <2>. QED
    BY <1>0, <2>1, <2>3, RecordIInv DEF Calls
<1>12. CASE VerifyUpdate
  <2>1. PICK d \in Data, ok1, ok2 \in Outcomes :
          Record(DigestUpdate(op, d, ok1, ok2), "VerifyUpdate", d, NoOut, NoOut)
    BY <1>12 DEF VerifyUpdate
  <2>2. ok1 \in BOOLEAN /\ ok2 \in BOOLEAN
    BY DEF Outcomes
  <2>3. Good(DigestUpdate(op, d, ok1, ok2), "VerifyUpdate", d, NoOut, NoOut)
    BY <1>12, <2>2, DigestUpdateGood DEF VerifyUpdate, Is
  <2>. QED
    BY <1>0, <2>1, <2>3, RecordIInv DEF Calls
<1>13. CASE VerifyFinalCall
  <2>1. PICK sig \in Sigs, ok \in Outcomes :
          Record(VerifyFinal(op, sig, ok), "VerifyFinal", NoOut, sig, NoOut)
    BY <1>13 DEF VerifyFinalCall
  <2>2. ok \in BOOLEAN
    BY DEF Outcomes
  <2>3. Good(VerifyFinal(op, sig, ok), "VerifyFinal", NoOut, sig, NoOut)
    BY <1>13, <2>2, VerifyFinalGood DEF VerifyFinalCall, Is
  <2>. QED
    BY <1>0, <2>1, <2>3, RecordIInv DEF Calls
<1>14. CASE UNCHANGED vars
  BY <1>14 DEF vars, IInv, TypeOK, OpInv, WF, NoSigCtxPanic,
                 SignatureBindsMessage, VerifyVerdictSound, VerifiedMessage
<1>. QED
  BY <1>1, <1>2, <1>3, <1>4, <1>5, <1>6, <1>7, <1>8, <1>9, <1>10, <1>11, <1>12, <1>13, <1>14 DEF Next

-----------------------------------------------------------------------------
(* Every reachable state satisfies IInv.                                  *)
THEOREM IInvInvariant == Spec => []IInv
  BY InitIInv, IInvStep, PTL DEF Spec

(* Type correctness of every state of the RSA operation's session.        *)
THEOREM TypeCorrect == Spec => []TypeOK
  BY IInvInvariant, PTL DEF IInv

(* No sequence of calls makes sign_update, sign_final, verify_update or   *)
(* verify_final unwrap the sigctx a CKM_RSA_PKCS operation lacks: the     *)
(* first-call mechanism check of sign_update (rsa.rs 653-679) keeps such  *)
(* an operation from ever being in_use.                                    *)
THEOREM NoPanic == Spec => []NoSigCtxPanic
  BY IInvInvariant, PTL DEF IInv

(* A signature returned with OK by sign() or sign_final() signs exactly   *)
(* the chunks of the calls that returned OK, in order (rsa.rs 568-695).   *)
THEOREM SignatureBinding == Spec => []SignatureBindsMessage
  BY IInvInvariant, PTL DEF IInv

(* verify() and verify_final() return OK exactly for the signature of the *)
(* caller's message and SIGNATURE_INVALID exactly for another one         *)
(* (rsa.rs 703-766, 796-806).                                              *)
THEOREM VerdictSound == Spec => []VerifyVerdictSound
  BY IInvInvariant, PTL DEF IInv

-----------------------------------------------------------------------------
(* A length query or a short output buffer to encrypt() or decrypt()      *)
(* returns before the operation is touched: every step satisfies the      *)
(* action of SizeQueryKeepsOperation.                                      *)
LEMMA SizeQueryStep ==
  [Next]_vars =>
    [call' \in {"Encrypt", "Decrypt"} /\ lastBuf' \in {"null", "small"}
       => op' = op]_vars
<1> SUFFICES ASSUME [Next]_vars,
                    call' \in {"Encrypt", "Decrypt"}, lastBuf' \in {"null", "small"}
             PROVE  op' = op
  OBVIOUS
<1>1. CASE EncryptCall
  <2>1. PICK d \in Data, buf \in Buffers, ok1, ok2 \in Outcomes :
          Record(Encrypt(op, d, buf, ok1, ok2), "Encrypt", d, NoOut, buf)
    BY <1>1 DEF EncryptCall
  <2>2. buf \in {"null", "small"}
    BY <2>1 DEF Record
  <2>3. Encrypt(op, d, buf, ok1, ok2).op = op
    BY <2>2 DEF Encrypt, Res
  <2>. QED
    BY <2>1, <2>3 DEF Record
<1>2. CASE DecryptCall
  <2>1. PICK c \in Ciphers, buf \in Buffers, ok1, ok2 \in Outcomes :
          Record(Decrypt(op, c, buf, ok1, ok2), "Decrypt", c, NoOut, buf)
    BY <1>2 DEF DecryptCall
  <2>2. buf \in {"null", "small"}
    BY <2>1 DEF Record
  <2>3. Decrypt(op, c, buf, ok1, ok2).op = op
    BY <2>2 DEF Decrypt, Res
  <2>. QED
    BY <2>1, <2>3 DEF Record
<1>3. CASE UNCHANGED vars
  BY <1>3 DEF vars
<1>4. CASE Next /\ ~EncryptCall /\ ~DecryptCall
  BY <1>4 DEF Next, New, EncryptUpdate, EncryptFinal, DecryptUpdate,
              DecryptFinal, SignCall, SignUpdate, SignFinalCall, VerifyCall,
              VerifyUpdate, VerifyFinalCall, Record
<1>. QED
  BY <1>1, <1>2, <1>3, <1>4

(* A length query (null buffer) or a buffer too small to encrypt() or     *)
(* decrypt() leaves the operation exactly as it was, so the caller can    *)
(* retry with a large enough buffer (spec section 4.5): encrypt and       *)
(* decrypt (rsa.rs 372-448, 480-536) return before finalized is set.      *)
THEOREM SizeQuery == Spec => SizeQueryKeepsOperation
  BY SizeQueryStep, PTL DEF Spec, SizeQueryKeepsOperation
=============================================================================
