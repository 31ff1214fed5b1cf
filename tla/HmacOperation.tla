---------------------------- MODULE HmacOperation ----------------------------
(***************************************************************************)
(* The HMAC sign and verify operations of src/src/hmac.rs: the mechanism   *)
(* constructors sign_new / verify_new with their parameter and key checks  *)
(* (HMACMechanism, check_and_fetch_param, check_and_fetch_key,             *)
(* HMACOperation::init), and the Sign and Verify trait methods of          *)
(* HMACOperation, each one action, driven by a session that owns the       *)
(* operation.                                                              *)
(*                                                                         *)
(* Data is abstracted: a data chunk is a model value, the inner digest     *)
(* state is the sequence of chunks absorbed after K0 ^ ipad, and the MAC   *)
(* of a message truncated to t bytes is the record Tag(msg, t).  Every     *)
(* call into the digest provider (sha1 / sha2 streaming state) may fail    *)
(* when ProviderMayFail is TRUE.                                           *)
(*                                                                         *)
(* Each trait method is a pure operator from the operation record to a     *)
(* result [op, rv, out]; methods that call other methods (sign calls       *)
(* sign_update then sign_final) compose those operators as the code does. *)
(***************************************************************************)
EXTENDS Naturals, Sequences

CONSTANTS
  Hashes,          \* the hash algorithms HMAC is registered for
  HashLen,         \* HashLen[h]: output length L of hash h, in bytes
  Data,            \* data chunks a caller may pass to an update
  MaxData,         \* bound: chunks absorbed by one operation
  ProviderMayFail, \* whether a digest provider call may fail
  NoOp,            \* the session holds no operation yet
  NoOut            \* the last call produced no signature

ASSUME HashesAssumption == Hashes # {}
ASSUME HashLenAssumption == HashLen \in [Hashes -> Nat \ {0}]
ASSUME MaxDataAssumption == MaxData \in Nat
ASSUME ProviderAssumption == ProviderMayFail \in BOOLEAN
ASSUME NoOutAssumption == NoOut \notin Data

VARIABLES
  op,        \* NoOp, or the HMACOperation the session holds
  rv,        \* return value of the last call
  out,       \* signature written by the last call, or NoOut
  call,      \* name of the last call
  lastData,  \* data chunk passed to the last data-carrying call
  lastSig,   \* signature passed to the last verify / verify_final
  accepted   \* history: chunks of every update or one-shot call that
             \* returned OK, in order: the message as the caller sees it

vars == <<op, rv, out, call, lastData, lastSig, accepted>>

-----------------------------------------------------------------------------
(* Return values.  ProviderError stands for whatever the digest provider  *)
(* returns; NotFound for the error of get_attr_as_bytes on a missing       *)
(* attribute.                                                              *)
OK == "OK"
NotInitialized == "OPERATION_NOT_INITIALIZED"
GeneralError == "GENERAL_ERROR"
SignatureInvalid == "SIGNATURE_INVALID"
MechanismInvalid == "MECHANISM_INVALID"
MechanismParamInvalid == "MECHANISM_PARAM_INVALID"
KeyTypeInconsistent == "KEY_TYPE_INCONSISTENT"
NotFound == "ATTRIBUTE_NOT_FOUND"
ProviderError == "PROVIDER_ERROR"

RVs == {OK, NotInitialized, GeneralError, SignatureInvalid, MechanismInvalid,
        MechanismParamInvalid, KeyTypeInconsistent, NotFound, ProviderError}

(* Outcomes of one provider call. *)
Outcomes == IF ProviderMayFail THEN BOOLEAN ELSE {TRUE}

(* Output lengths some mechanism may produce, and the requested lengths   *)
(* a caller may pass: these, 0, and one past each of them.               *)
OutLens == UNION {1..HashLen[h] : h \in Hashes}
GenLens == {0} \cup OutLens \cup {l + 1 : l \in OutLens}

(* Messages an operation can absorb, and the MAC of one truncated to t.    *)
Msgs == UNION {[1..n -> Data] : n \in 0..MaxData}
Tag(msg, t) == [msg |-> msg, len |-> t]
Sigs == {Tag(m, t) : m \in Msgs, t \in OutLens}

(* Byte length of CK_ULONG, the size check_and_fetch_param expects.        *)
ULongSize == 8
ParamLens == {0, 4, ULongSize}

-----------------------------------------------------------------------------
(***************************************************************************)
(* Mechanism registry of hmac.rs register(): for every hash a fixed       *)
(* mechanism (output length L, no parameter) and a _GENERAL one (output    *)
(* length 1..L given as a CK_ULONG parameter), both SIGN | VERIFY, bound   *)
(* to that hash's HMAC key type.                                           *)
(***************************************************************************)
Mechanisms == [hash : Hashes, general : BOOLEAN]
Info(m) == [flags |-> {"SIGN", "VERIFY"},
            keytype |-> m.hash,
            minlen |-> IF m.general THEN 1 ELSE HashLen[m.hash],
            maxlen |-> HashLen[m.hash]]

(* Key objects a caller may name: class, key type (GENERIC_SECRET, RSA or *)
(* the HMAC key type of a hash), whether CKA_VALUE is present, and whether *)
(* the value is longer than the hash's block length.                      *)
KeyObjects == [class : {"SECRET_KEY", "PUBLIC_KEY"},
               key_type : {"GENERIC_SECRET", "RSA"} \cup Hashes,
               has_value : BOOLEAN,
               long : BOOLEAN]

Ops == [mode : {"sign", "verify"}, mech : Mechanisms,
        outputlen : OutLens, in_use : BOOLEAN, finalized : BOOLEAN,
        inner : Msgs]

(* NoOp is no operation record.                                          *)
ASSUME NoOpAssumption == NoOp \notin Ops

Res(o, r, s) == [op |-> o, rv |-> r, out |-> s]

(* Variant with an off-by-one upper bound on the requested length.        *)
CheckAndFetchParamOffByOne(plen, genlen, min, max) ==
  IF min = max
  THEN IF plen # 0 THEN [rv |-> MechanismParamInvalid, len |-> 0]
                   ELSE [rv |-> OK, len |-> max]
  ELSE IF plen # ULongSize \/ genlen < min \/ genlen > max + 1
       THEN [rv |-> MechanismParamInvalid, len |-> 0]
       ELSE [rv |-> OK, len |-> genlen]

(* check_and_fetch_param: the output length, or 0 with an error.          *)
CheckAndFetchParam(plen, genlen, min, max) ==
  IF min = max
  THEN IF plen # 0 THEN [rv |-> MechanismParamInvalid, len |-> 0]
                   ELSE [rv |-> OK, len |-> max]
  ELSE IF plen # ULongSize \/ genlen < min \/ genlen > max
       THEN [rv |-> MechanismParamInvalid, len |-> 0]
       ELSE [rv |-> OK, len |-> genlen]

(* check_and_fetch_key *)
CheckAndFetchKey(key, keytype) ==
  IF key.class # "SECRET_KEY" THEN KeyTypeInconsistent
  ELSE IF key.key_type \notin {"GENERIC_SECRET", keytype} THEN KeyTypeInconsistent
  ELSE IF ~key.has_value THEN NotFound
  ELSE OK

(***************************************************************************)
(* sign_new / verify_new: the flag check, the parameter, the key, then    *)
(* HMACOperation::init, which derives K0 (hashing a long key), builds      *)
(* ipad / opad and absorbs K0 ^ ipad: provider calls that succeed when     *)
(* ok.  The result's op is NoOp when construction fails.                   *)
(***************************************************************************)
NewOp(mode, m, plen, genlen, key, ok) ==
  LET flag == IF mode = "sign" THEN "SIGN" ELSE "VERIFY"
      p == CheckAndFetchParam(plen, genlen, Info(m).minlen, Info(m).maxlen)
      k == CheckAndFetchKey(key, Info(m).keytype)
  IN IF flag \notin Info(m).flags THEN Res(NoOp, MechanismInvalid, NoOut)
     ELSE IF p.rv # OK THEN Res(NoOp, p.rv, NoOut)
     ELSE IF k # OK THEN Res(NoOp, k, NoOut)
     ELSE IF ~ok THEN Res(NoOp, ProviderError, NoOut)
     ELSE Res([mode |-> mode, mech |-> m, outputlen |-> p.len,
                        in_use |-> FALSE, finalized |-> FALSE,
                        inner |-> <<>>], OK, NoOut)

(* HMACOperation::update: absorb data into the inner digest.              *)
Update(o, d, ok) ==
  IF ok THEN Res([o EXCEPT !.inner = Append(@, d)], OK, NoOut)
        ELSE Res(o, ProviderError, NoOut)

(* Variant that forgets the finalized check.                             *)
DoUpdateNoFinalizedCheck(o, d, ok) == Update([o EXCEPT !.in_use = TRUE], d, ok)

(* sign_update and verify_update (the same code).                         *)
DoUpdate(o, d, ok) ==
  IF o.finalized THEN Res(o, NotInitialized, NoOut)
  ELSE Update([o EXCEPT !.in_use = TRUE], d, ok)

(* Variant that does not truncate the outer hash to the output length.    *)
FinalizeUntruncated(o, ok) ==
  IF ok THEN [rv |-> OK, mac |-> Tag(o.inner, HashLen[o.mech.hash])]
        ELSE [rv |-> ProviderError, mac |-> NoOut]

(* HMACOperation::finalize: the outer hash over opad || inner hash, first *)
(* t bytes.  Provider calls succeed when ok.                               *)
Finalize(o, ok) ==
  IF ok THEN [rv |-> OK, mac |-> Tag(o.inner, o.outputlen)]
        ELSE [rv |-> ProviderError, mac |-> NoOut]

(* Variant that checks only finalized, not in_use.                       *)
DoSignFinalNoInUseCheck(o, siglen, ok) ==
  IF o.finalized THEN Res(o, NotInitialized, NoOut)
  ELSE LET f == [o EXCEPT !.finalized = TRUE]
           fin == Finalize(o, ok)
       IN IF siglen # o.outputlen THEN Res(f, GeneralError, NoOut)
          ELSE Res(f, fin.rv, fin.mac)

(* sign_final: the checks, then finalized is set before the length check. *)
DoSignFinal(o, siglen, ok) ==
  IF ~o.in_use \/ o.finalized THEN Res(o, NotInitialized, NoOut)
  ELSE LET f == [o EXCEPT !.finalized = TRUE]
           fin == Finalize(o, ok)
       IN IF siglen # o.outputlen THEN Res(f, GeneralError, NoOut)
          ELSE Res(f, fin.rv, fin.mac)

(* Variant of verify_final without the signature length check.          *)
DoVerifyFinalNoLengthCheck(o, sig, ok) ==
  IF ~o.in_use \/ o.finalized THEN Res(o, NotInitialized, NoOut)
  ELSE LET f == [o EXCEPT !.finalized = TRUE]
           fin == Finalize(o, ok)
       IN IF fin.rv # OK THEN Res(f, fin.rv, NoOut)
          ELSE IF fin.mac # sig THEN Res(f, SignatureInvalid, NoOut)
          ELSE Res(f, OK, NoOut)

(* verify_final: finalize into a scratch buffer and compare.              *)
DoVerifyFinal(o, sig, ok) ==
  IF ~o.in_use \/ o.finalized THEN Res(o, NotInitialized, NoOut)
  ELSE LET f == [o EXCEPT !.finalized = TRUE]
           fin == Finalize(o, ok)
       IN IF sig.len # o.outputlen THEN Res(f, GeneralError, NoOut)
          ELSE IF fin.rv # OK THEN Res(f, fin.rv, NoOut)
          ELSE IF fin.mac # sig THEN Res(f, SignatureInvalid, NoOut)
          ELSE Res(f, OK, NoOut)

(* sign (one-shot): rejected when in_use; a failed update finalizes.      *)
DoSign(o, d, siglen, ok1, ok2) ==
  IF o.in_use THEN Res(o, NotInitialized, NoOut)
  ELSE LET u == DoUpdate(o, d, ok1)
       IN IF u.rv # OK
          THEN Res([u.op EXCEPT !.finalized = TRUE], u.rv, NoOut)
          ELSE DoSignFinal(u.op, siglen, ok2)

(* verify (one-shot) *)
DoVerify(o, d, sig, ok1, ok2) ==
  IF o.in_use THEN Res(o, NotInitialized, NoOut)
  ELSE LET u == DoUpdate(o, d, ok1)
       IN IF u.rv # OK
          THEN Res([u.op EXCEPT !.finalized = TRUE], u.rv, NoOut)
          ELSE DoVerifyFinal(u.op, sig, ok2)

-----------------------------------------------------------------------------
(***************************************************************************)
(* Actions.  A call records its result; a call carrying data that returns *)
(* OK extends the caller's message.  Data-carrying calls are enabled while *)
(* fewer than MaxData chunks have been absorbed.                           *)
(***************************************************************************)
Record(r, c, d, s) ==
  /\ op' = r.op
  /\ rv' = r.rv
  /\ out' = r.out
  /\ call' = c
  /\ lastData' = d
  /\ lastSig' = s
  /\ accepted' = IF r.rv = OK /\ d \in Data THEN Append(accepted, d)
                                            ELSE accepted

Init ==
  /\ op = NoOp
  /\ rv = OK
  /\ out = NoOut
  /\ call = "None"
  /\ lastData = NoOut
  /\ lastSig = NoOut
  /\ accepted = <<>>

(* The session asks the registry for a sign or verify operation.          *)
New ==
  /\ op = NoOp
  /\ \E mode \in {"sign", "verify"}, m \in Mechanisms, plen \in ParamLens,
        genlen \in GenLens, key \in KeyObjects, ok \in Outcomes :
       Record(NewOp(mode, m, plen, genlen, key, ok), "New", NoOut, NoOut)

Sign ==
  /\ op # NoOp /\ op.mode = "sign" /\ Len(op.inner) < MaxData
  /\ \E d \in Data, siglen \in OutLens, ok1, ok2 \in Outcomes :
       Record(DoSign(op, d, siglen, ok1, ok2), "Sign", d, NoOut)

SignUpdate ==
  /\ op # NoOp /\ op.mode = "sign" /\ Len(op.inner) < MaxData
  /\ \E d \in Data, ok \in Outcomes :
       Record(DoUpdate(op, d, ok), "SignUpdate", d, NoOut)

SignFinal ==
  /\ op # NoOp /\ op.mode = "sign"
  /\ \E siglen \in OutLens, ok \in Outcomes :
       Record(DoSignFinal(op, siglen, ok), "SignFinal", NoOut, NoOut)

Verify ==
  /\ op # NoOp /\ op.mode = "verify" /\ Len(op.inner) < MaxData
  /\ \E d \in Data, sig \in Sigs, ok1, ok2 \in Outcomes :
       Record(DoVerify(op, d, sig, ok1, ok2), "Verify", d, sig)

VerifyUpdate ==
  /\ op # NoOp /\ op.mode = "verify" /\ Len(op.inner) < MaxData
  /\ \E d \in Data, ok \in Outcomes :
       Record(DoUpdate(op, d, ok), "VerifyUpdate", d, NoOut)

VerifyFinal ==
  /\ op # NoOp /\ op.mode = "verify"
  /\ \E sig \in Sigs, ok \in Outcomes :
       Record(DoVerifyFinal(op, sig, ok), "VerifyFinal", NoOut, sig)

Next ==
  \/ New
  \/ Sign \/ SignUpdate \/ SignFinal
  \/ Verify \/ VerifyUpdate \/ VerifyFinal

Spec == Init /\ [][Next]_vars

-----------------------------------------------------------------------------
(* Type invariant. *)
TypeOK ==
  /\ op \in Ops \cup {NoOp}
  /\ rv \in RVs
  /\ out \in Sigs \cup {NoOut}
  /\ call \in {"None", "New", "Sign", "SignUpdate", "SignFinal",
               "Verify", "VerifyUpdate", "VerifyFinal"}
  /\ lastData \in Data \cup {NoOut}
  /\ lastSig \in Sigs \cup {NoOut}
  /\ accepted \in Msgs

(***************************************************************************)
(* sign() and verify() reject only an operation that is in_use; they rely *)
(* on a finalized operation always being in_use, or a one-shot call would  *)
(* run on a finished operation.  A finalized HMAC operation is in_use.     *)
(***************************************************************************)
FinalizedOnlyAfterUse ==
  op # NoOp /\ op.finalized => op.in_use

(***************************************************************************)
(* A signature returned by sign or sign_final is the MAC, truncated to the *)
(* operation's output length, of exactly the chunks the caller passed in   *)
(* the calls that returned OK, in order: no chunk lost, repeated or        *)
(* reordered across update calls, one-shot calls and failed calls.         *)
(***************************************************************************)
SignatureBindsMessage ==
  rv = OK /\ out # NoOut => out = Tag(accepted, op.outputlen)

(***************************************************************************)
(* The verdict of verify / verify_final is right: OK exactly when the     *)
(* signature is the MAC of the message the caller passed (the one-shot     *)
(* call's chunk, or the chunks of the successful verify_update calls),     *)
(* SIGNATURE_INVALID exactly when it is another signature of that length. *)
(* A signature of another length gets neither verdict (hmac.rs 474: it is  *)
(* GENERAL_ERROR).                                                         *)
(***************************************************************************)
VerifiedMessage == IF call = "Verify" THEN <<lastData>> ELSE accepted

VerifyVerdictCorrect ==
  call \in {"Verify", "VerifyFinal"} /\ rv \in {OK, SignatureInvalid}
    => /\ lastSig.len = op.outputlen
       /\ (rv = OK <=> lastSig = Tag(VerifiedMessage, op.outputlen))

(***************************************************************************)
(* Refinement: the operation implements the lifecycle of spec section 4.5. *)
(* No operation yet, and its creation, map to a Fresh operation.           *)
(***************************************************************************)
PhaseOf(o) ==
  IF o = NoOp THEN "Fresh"
  ELSE IF o.finalized THEN "Done"
  ELSE IF o.in_use THEN "Running"
  ELSE "Fresh"

KindOf(c) ==
  IF c \in {"Sign", "Verify"} THEN "oneshot"
  ELSE IF c \in {"SignUpdate", "VerifyUpdate"} THEN "update"
  ELSE IF c \in {"SignFinal", "VerifyFinal"} THEN "final"
  ELSE "none"

Lifecycle == INSTANCE OperationLifecycle WITH
  phase <- PhaseOf(op),
  kind <- KindOf(call),
  result <- IF KindOf(call) = "none" \/ rv = OK THEN "OK" ELSE "Err"

LifecycleRefinement == Lifecycle!Spec

=============================================================================
