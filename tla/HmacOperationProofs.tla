------------------------- MODULE HmacOperationProofs -------------------------
(***************************************************************************)
(* Proofs about the HMAC operation of HmacOperation (src/src/hmac.rs), for *)
(* every set of hashes, output lengths, data chunks and bound MaxData:     *)
(*   - the type invariant;                                                 *)
(*   - a finalized operation is in_use (sign() and verify() rely on it);   *)
(*   - a signature returned with OK is the truncated MAC of exactly the   *)
(*     chunks the caller passed in the calls that returned OK.            *)
(* None of them is inductive alone.  The strengthening IInv adds that an  *)
(* operation that is not finalized has absorbed exactly those chunks, and *)
(* that nothing is accepted before an operation exists.                   *)
(***************************************************************************)
EXTENDS HmacOperation, SequenceTheorems, TLAPS

(* The chunks absorbed by a live operation are the caller's message.      *)
InnerIsAccepted == op # NoOp /\ ~op.finalized => op.inner = accepted

(* Nothing is accepted before the session holds an operation.             *)
NoOpNoHistory == op = NoOp => accepted = <<>>

IInv ==
  /\ TypeOK
  /\ FinalizedOnlyAfterUse
  /\ InnerIsAccepted
  /\ NoOpNoHistory
  /\ SignatureBindsMessage

-----------------------------------------------------------------------------
(* Messages are the sequences of chunks of length at most MaxData.        *)
LEMMA MsgsAreSeqs ==
  ASSUME NEW s \in Msgs
  PROVE  s \in Seq(Data) /\ Len(s) <= MaxData
<1>1. PICK n \in 0..MaxData : s \in [1..n -> Data]
  BY DEF Msgs
<1>2. s \in Seq(Data)
  BY <1>1, SeqDef, MaxDataAssumption
<1>3. Len(s) = n
  BY <1>1, <1>2, LenProperties, MaxDataAssumption
<1>. QED
  BY <1>2, <1>3

(* Appending a chunk to a message shorter than MaxData gives a message.   *)
LEMMA MsgsAppend ==
  ASSUME NEW s \in Msgs, NEW d \in Data, Len(s) < MaxData
  PROVE  Append(s, d) \in Msgs
<1>1. s \in Seq(Data)
  BY MsgsAreSeqs
<1>2. /\ Append(s, d) \in Seq(Data)
      /\ Len(Append(s, d)) = Len(s) + 1
  BY <1>1, AppendProperties
<1>3. Append(s, d) \in [1..Len(s) + 1 -> Data]
  BY <1>2, LenProperties
<1>. QED
  BY <1>1, <1>3, LenProperties, MaxDataAssumption DEF Msgs

LEMMA EmptyMsg == <<>> \in Msgs
  BY MaxDataAssumption DEF Msgs

-----------------------------------------------------------------------------
(* The initial state satisfies the inductive invariant.                   *)
LEMMA InitIInv == Init => IInv
<1> SUFFICES ASSUME Init PROVE IInv
  OBVIOUS
<1>1. TypeOK
  BY EmptyMsg DEF Init, TypeOK, RVs
<1>2. FinalizedOnlyAfterUse /\ InnerIsAccepted /\ NoOpNoHistory
  BY DEF Init, FinalizedOnlyAfterUse, InnerIsAccepted, NoOpNoHistory
<1>3. SignatureBindsMessage
  BY DEF Init, SignatureBindsMessage
<1>. QED
  BY <1>1, <1>2, <1>3 DEF IInv

-----------------------------------------------------------------------------
(***************************************************************************)
(* A call's result r, recorded with data chunk d, is good when the state  *)
(* Record makes of it satisfies IInv: each method is proved to return a   *)
(* good result, and Record to turn a good result into an IInv state.      *)
(***************************************************************************)
NewAccepted(r, d) == IF r.rv = OK /\ d \in Data THEN Append(accepted, d)
                                                ELSE accepted

(* The invariant of a result r against the caller's message acc.         *)
ResInv(r, acc) ==
  /\ r.op \in Ops \cup {NoOp}
  /\ r.rv \in RVs
  /\ r.out \in Sigs \cup {NoOut}
  /\ acc \in Msgs
  /\ r.op # NoOp /\ r.op.finalized => r.op.in_use
  /\ r.op # NoOp /\ ~r.op.finalized => r.op.inner = acc
  /\ r.op = NoOp => acc = <<>>
  /\ r.rv = OK /\ r.out # NoOut => r.out = Tag(acc, r.op.outputlen)

Good(r, d) == ResInv(r, NewAccepted(r, d))

Calls == {"None", "New", "Sign", "SignUpdate", "SignFinal",
          "Verify", "VerifyUpdate", "VerifyFinal"}

LEMMA RecordIInv ==
  ASSUME NEW r, NEW c \in Calls, NEW d \in Data \cup {NoOut},
         NEW s \in Sigs \cup {NoOut}, Good(r, d), Record(r, c, d, s)
  PROVE  IInv'
<1>1. accepted' = NewAccepted(r, d)
  BY DEF Record, NewAccepted
<1>. QED
  BY <1>1 DEF Good, ResInv, Record, Calls, IInv, TypeOK, FinalizedOnlyAfterUse,
              InnerIsAccepted, NoOpNoHistory, SignatureBindsMessage

(* The return values are distinct strings.                                *)
RVNames == <<OK, NotInitialized, GeneralError, SignatureInvalid,
             MechanismInvalid, MechanismParamInvalid, KeyTypeInconsistent,
             NotFound, ProviderError>>

(* sign_update / verify_update on a live operation with room for a chunk. *)
LEMMA DoUpdateGood ==
  ASSUME IInv, op # NoOp, Len(op.inner) < MaxData,
         NEW d \in Data, NEW ok \in BOOLEAN
  PROVE  Good(DoUpdate(op, d, ok), d)
<1>. USE DEF IInv, TypeOK, FinalizedOnlyAfterUse, InnerIsAccepted, RVs,
             OK, NotInitialized, ProviderError
<1>1. CASE op.finalized
  BY <1>1 DEF DoUpdate, Res, Good, ResInv, NewAccepted
<1>2. CASE ~op.finalized /\ ~ok
  <2> DEFINE o1 == [op EXCEPT !.in_use = TRUE]
      r == DoUpdate(op, d, ok)
  <2>1. r.op = o1 /\ r.rv = ProviderError /\ r.out = NoOut
    BY <1>2 DEF DoUpdate, Update, Res
  <2>2. o1 \in Ops /\ o1.inner = accepted /\ ~o1.finalized
    BY <1>2 DEF Ops
  <2>3. NewAccepted(r, d) = accepted
    BY <2>1 DEF NewAccepted
  <2>4. o1 # NoOp
    BY <2>2, NoOpAssumption
  <2>. QED
    BY <2>1, <2>2, <2>3, <2>4 DEF Good, ResInv
<1>3. CASE ~op.finalized /\ ok
  <2>1. Append(accepted, d) \in Msgs
    BY <1>3, MsgsAppend
  <2> DEFINE o1 == [op EXCEPT !.in_use = TRUE]
              o2 == [o1 EXCEPT !.inner = Append(o1.inner, d)]
      r == DoUpdate(op, d, ok)
  <2>2. r.op = o2 /\ r.rv = OK /\ r.out = NoOut
    BY <1>3 DEF DoUpdate, Update, Res
  <2>3. op.inner = accepted
    BY <1>3
  <2>4. o2 \in Ops /\ o2.inner = Append(accepted, d) /\ ~o2.finalized
    BY <1>3, <2>1, <2>3 DEF Ops
  <2>5. NewAccepted(r, d) = Append(accepted, d)
    BY <2>2 DEF NewAccepted
  <2>6. o2 # NoOp
    BY <2>4, NoOpAssumption
  <2>. QED
    BY <2>1, <2>2, <2>4, <2>5, <2>6 DEF Good, ResInv
<1>. QED
  BY <1>1, <1>2, <1>3

(* A call that finishes an in_use operation: set finalized, return r, s.  *)
LEMMA FinishGood ==
  ASSUME NEW o \in Ops, o.in_use, NEW r \in RVs, NEW s \in Sigs \cup {NoOut},
         NEW acc \in Msgs, r = OK /\ s # NoOut => s = Tag(acc, o.outputlen)
  PROVE  ResInv(Res([o EXCEPT !.finalized = TRUE], r, s), acc)
<1> DEFINE f == [o EXCEPT !.finalized = TRUE]
<1>1. f \in Ops /\ f.in_use /\ f.finalized /\ f.outputlen = o.outputlen
  BY DEF Ops
<1>2. f # NoOp
  BY <1>1, NoOpAssumption
<1>. QED
  BY <1>1, <1>2 DEF ResInv, Res

(* A call that rejects the operation and leaves it as it is.              *)
LEMMA RejectGood ==
  ASSUME IInv, NEW r \in RVs \ {OK}, NEW d
  PROVE  Good(Res(op, r, NoOut), d)
  BY DEF IInv, TypeOK, FinalizedOnlyAfterUse, InnerIsAccepted, NoOpNoHistory,
         Good, ResInv, Res, NewAccepted

(* sign_final on an operation whose absorbed chunks are acc.              *)
LEMMA SignFinalRes ==
  ASSUME NEW o \in Ops, NEW acc \in Msgs, o.finalized => o.in_use,
         ~o.finalized => o.inner = acc, NEW siglen, NEW ok \in BOOLEAN
  PROVE  LET r == DoSignFinal(o, siglen, ok)
         IN  /\ ResInv(r, acc)
             /\ r.rv # OK => r.out = NoOut
             /\ ~o.in_use \/ o.finalized => r = Res(o, NotInitialized, NoOut)
             /\ o.in_use /\ ~o.finalized =>
                  r.op = [o EXCEPT !.finalized = TRUE]
<1> DEFINE r == DoSignFinal(o, siglen, ok)
           f == [o EXCEPT !.finalized = TRUE]
<1>. USE DEF RVs, OK, NotInitialized, GeneralError, ProviderError
<1>1. CASE ~o.in_use \/ o.finalized
  <2>1. r = Res(o, NotInitialized, NoOut)
    BY <1>1 DEF DoSignFinal
  <2>2. o # NoOp
    BY NoOpAssumption
  <2>. QED
    BY <1>1, <2>1, <2>2 DEF ResInv, Res
<1>2. CASE o.in_use /\ ~o.finalized
  <2>1. Tag(acc, o.outputlen) \in Sigs
    BY DEF Sigs, Ops
  <2>2. /\ r.op = f
        /\ r.rv \in {OK, GeneralError, ProviderError}
        /\ r.rv # OK => r.out = NoOut
        /\ r.rv = OK => r.out = Tag(acc, o.outputlen)
    BY <1>2 DEF DoSignFinal, Finalize, Res
  <2>3. r.out \in Sigs \cup {NoOut}
    BY <2>1, <2>2
  <2>4. r = Res(f, r.rv, r.out)
    BY <1>2 DEF DoSignFinal, Finalize, Res
  <2>5. ResInv(Res(f, r.rv, r.out), acc)
    BY <1>2, <2>2, <2>3, FinishGood
  <2>. QED
    BY <1>2, <2>2, <2>4, <2>5
<1>. QED
  BY <1>1, <1>2

(* verify_final on an operation whose absorbed chunks are acc.            *)
LEMMA VerifyFinalRes ==
  ASSUME NEW o \in Ops, NEW acc \in Msgs, o.finalized => o.in_use,
         ~o.finalized => o.inner = acc, NEW sig, NEW ok \in BOOLEAN
  PROVE  LET r == DoVerifyFinal(o, sig, ok)
         IN  /\ ResInv(r, acc)
             /\ r.out = NoOut
             /\ ~o.in_use \/ o.finalized => r = Res(o, NotInitialized, NoOut)
             /\ o.in_use /\ ~o.finalized =>
                  r.op = [o EXCEPT !.finalized = TRUE]
<1> DEFINE r == DoVerifyFinal(o, sig, ok)
           f == [o EXCEPT !.finalized = TRUE]
<1>. USE DEF RVs, OK, NotInitialized, GeneralError, ProviderError,
             SignatureInvalid
<1>1. CASE ~o.in_use \/ o.finalized
  <2>1. r = Res(o, NotInitialized, NoOut)
    BY <1>1 DEF DoVerifyFinal
  <2>2. o # NoOp
    BY NoOpAssumption
  <2>. QED
    BY <1>1, <2>1, <2>2 DEF ResInv, Res
<1>2. CASE o.in_use /\ ~o.finalized
  <2>1. /\ r.rv \in {OK, GeneralError, ProviderError, SignatureInvalid}
        /\ r = Res(f, r.rv, NoOut)
    BY <1>2 DEF DoVerifyFinal, Finalize, Res
  <2>2. ResInv(Res(f, r.rv, NoOut), acc)
    BY <1>2, <2>1, FinishGood
  <2>3. r.op = f /\ r.out = NoOut
    BY <2>1 DEF Res
  <2>4. ResInv(r, acc)
    BY <2>1, <2>2, Zenon
  <2>. QED
    BY <1>2, <2>3, <2>4
<1>. QED
  BY <1>1, <1>2

(* The operation after the first update of a one-shot call.               *)
Started(o) == [o EXCEPT !.in_use = TRUE]
Absorbed(o, d) == [Started(o) EXCEPT !.inner = Append(Started(o).inner, d)]

(* The update inside sign() / verify() on an operation that is not in_use. *)
LEMMA OneShotUpdate ==
  ASSUME IInv, op # NoOp, ~op.in_use, Len(op.inner) < MaxData,
         NEW d \in Data, NEW ok \in BOOLEAN
  PROVE  /\ ~op.finalized
         /\ Started(op) \in Ops /\ Started(op).in_use
         /\ ~Started(op).finalized
         /\ Absorbed(op, d) \in Ops /\ Absorbed(op, d).in_use
         /\ ~Absorbed(op, d).finalized
         /\ Absorbed(op, d).inner = Append(accepted, d)
         /\ Append(accepted, d) \in Msgs
         /\ ok => DoUpdate(op, d, ok) = Res(Absorbed(op, d), OK, NoOut)
         /\ ~ok => DoUpdate(op, d, ok) = Res(Started(op), ProviderError, NoOut)
<1>. USE DEF IInv, TypeOK, FinalizedOnlyAfterUse, InnerIsAccepted
<1>1. ~op.finalized /\ op.inner = accepted /\ op \in Ops
  OBVIOUS
<1>2. Append(accepted, d) \in Msgs
  BY <1>1, MsgsAppend
<1>3. Started(op) \in Ops /\ Absorbed(op, d) \in Ops
  BY <1>1, <1>2 DEF Started, Absorbed, Ops
<1>. QED
  BY <1>1, <1>2, <1>3 DEF Started, Absorbed, DoUpdate, Update

(* A result whose operation is finalized and that carries no signature    *)
(* satisfies the invariant against any message.                           *)
LEMMA FinishedAnyAcc ==
  ASSUME NEW r, NEW acc \in Msgs, NEW acc2 \in Msgs, ResInv(r, acc),
         r.op \in Ops, r.op.finalized, r.out = NoOut
  PROVE  ResInv(r, acc2)
  BY NoOpAssumption DEF ResInv

(* sign(): rejected when in_use; otherwise update then sign_final.        *)
LEMMA DoSignGood ==
  ASSUME IInv, op # NoOp, Len(op.inner) < MaxData,
         NEW d \in Data, NEW siglen, NEW ok1 \in BOOLEAN, NEW ok2 \in BOOLEAN
  PROVE  Good(DoSign(op, d, siglen, ok1, ok2), d)
<1> DEFINE r == DoSign(op, d, siglen, ok1, ok2)
<1>1. CASE op.in_use
  <2>1. r = Res(op, NotInitialized, NoOut)
    BY <1>1 DEF DoSign
  <2>. QED
    BY <2>1, RejectGood DEF RVs, OK, NotInitialized
<1>2. CASE ~op.in_use /\ ~ok1
  <2>0. DoUpdate(op, d, ok1) = Res(Started(op), ProviderError, NoOut)
    BY <1>2, OneShotUpdate
  <2>1. r = Res([Started(op) EXCEPT !.finalized = TRUE], ProviderError, NoOut)
    <3>1. /\ DoUpdate(op, d, ok1).rv = ProviderError
          /\ DoUpdate(op, d, ok1).op = Started(op)
      BY <2>0 DEF Res
    <3>2. ProviderError # OK
      BY DEF ProviderError, OK
    <3>. QED
      BY <1>2, <3>1, <3>2 DEF DoSign, Res
  <2>2. ResInv(r, accepted)
    <3>1. Started(op) \in Ops /\ Started(op).in_use
      BY <1>2, OneShotUpdate
    <3>2. accepted \in Msgs
      BY DEF IInv, TypeOK
    <3>. QED
      BY <2>1, <3>1, <3>2, FinishGood DEF RVs
  <2>3. NewAccepted(r, d) = accepted
    BY <2>1 DEF NewAccepted, Res, OK, ProviderError
  <2>. QED
    BY <2>2, <2>3 DEF Good
<1>3. CASE ~op.in_use /\ ok1
  <2> DEFINE a == Absorbed(op, d)
             acc == Append(accepted, d)
  <2>0. DoUpdate(op, d, ok1) = Res(a, OK, NoOut)
    BY <1>3, OneShotUpdate
  <2>1. r = DoSignFinal(a, siglen, ok2)
    <3>1. DoUpdate(op, d, ok1).rv = OK /\ DoUpdate(op, d, ok1).op = a
      BY <2>0 DEF Res
    <3>. QED
      BY <1>3, <3>1 DEF DoSign
  <2>2. /\ ResInv(r, acc)
        /\ r.rv # OK => r.out = NoOut
        /\ r.op = [a EXCEPT !.finalized = TRUE]
    <3>1. /\ a \in Ops /\ acc \in Msgs /\ a.in_use /\ ~a.finalized
          /\ a.inner = acc
      BY <1>3, OneShotUpdate
    <3> DEFINE rf == DoSignFinal(a, siglen, ok2)
    <3>2. /\ ResInv(rf, acc)
          /\ rf.rv # OK => rf.out = NoOut
          /\ rf.op = [a EXCEPT !.finalized = TRUE]
      BY <3>1, SignFinalRes
    <3>. QED
      BY <2>1, <3>2
  <2>3. CASE r.rv = OK
    BY <2>2, <2>3 DEF Good, NewAccepted
  <2>4. CASE r.rv # OK
    <3>1. r.op \in Ops /\ r.op.finalized
      BY <1>3, <2>2, OneShotUpdate DEF Ops
    <3>2. /\ Append(accepted, d) \in Msgs /\ accepted \in Msgs
          /\ r.out = NoOut
      BY <1>3, <2>2, <2>4, OneShotUpdate DEF IInv, TypeOK
    <3>3. ResInv(r, accepted)
      BY <2>2, <3>1, <3>2, FinishedAnyAcc
    <3>. QED
      BY <2>4, <3>3 DEF Good, NewAccepted
  <2>. QED
    BY <2>3, <2>4
<1>. QED
  BY <1>1, <1>2, <1>3

(* verify(): rejected when in_use; otherwise update then verify_final.    *)
LEMMA DoVerifyGood ==
  ASSUME IInv, op # NoOp, Len(op.inner) < MaxData,
         NEW d \in Data, NEW sig, NEW ok1 \in BOOLEAN, NEW ok2 \in BOOLEAN
  PROVE  Good(DoVerify(op, d, sig, ok1, ok2), d)
<1> DEFINE r == DoVerify(op, d, sig, ok1, ok2)
<1>1. CASE op.in_use
  <2>1. r = Res(op, NotInitialized, NoOut)
    BY <1>1 DEF DoVerify
  <2>. QED
    BY <2>1, RejectGood DEF RVs, OK, NotInitialized
<1>2. CASE ~op.in_use /\ ~ok1
  <2>0. DoUpdate(op, d, ok1) = Res(Started(op), ProviderError, NoOut)
    BY <1>2, OneShotUpdate
  <2>1. r = Res([Started(op) EXCEPT !.finalized = TRUE], ProviderError, NoOut)
    <3>1. /\ DoUpdate(op, d, ok1).rv = ProviderError
          /\ DoUpdate(op, d, ok1).op = Started(op)
      BY <2>0 DEF Res
    <3>2. ProviderError # OK
      BY DEF ProviderError, OK
    <3>. QED
      BY <1>2, <3>1, <3>2 DEF DoVerify, Res
  <2>2. ResInv(r, accepted)
    <3>1. Started(op) \in Ops /\ Started(op).in_use
      BY <1>2, OneShotUpdate
    <3>2. accepted \in Msgs
      BY DEF IInv, TypeOK
    <3>. QED
      BY <2>1, <3>1, <3>2, FinishGood DEF RVs
  <2>3. NewAccepted(r, d) = accepted
    BY <2>1 DEF NewAccepted, Res, OK, ProviderError
  <2>. QED
    BY <2>2, <2>3 DEF Good
<1>3. CASE ~op.in_use /\ ok1
  <2> DEFINE a == Absorbed(op, d)
             acc == Append(accepted, d)
  <2>0. DoUpdate(op, d, ok1) = Res(a, OK, NoOut)
    BY <1>3, OneShotUpdate
  <2>1. r = DoVerifyFinal(a, sig, ok2)
    <3>1. DoUpdate(op, d, ok1).rv = OK /\ DoUpdate(op, d, ok1).op = a
      BY <2>0 DEF Res
    <3>. QED
      BY <1>3, <3>1 DEF DoVerify
  <2>2. /\ ResInv(r, acc)
        /\ r.out = NoOut
        /\ r.op = [a EXCEPT !.finalized = TRUE]
    <3>1. /\ a \in Ops /\ acc \in Msgs /\ a.in_use /\ ~a.finalized
          /\ a.inner = acc
      BY <1>3, OneShotUpdate
    <3> DEFINE rf == DoVerifyFinal(a, sig, ok2)
    <3>2. /\ ResInv(rf, acc)
          /\ rf.out = NoOut
          /\ rf.op = [a EXCEPT !.finalized = TRUE]
      BY <3>1, VerifyFinalRes
    <3>. QED
      BY <2>1, <3>2
  <2>3. r.op \in Ops /\ r.op.finalized
    BY <1>3, <2>2, OneShotUpdate DEF Ops
  <2>4. ResInv(r, NewAccepted(r, d))
    <3>1. NewAccepted(r, d) \in Msgs
      <4>1. Append(accepted, d) \in Msgs
        BY <1>3, OneShotUpdate
      <4>2. accepted \in Msgs
        BY DEF IInv, TypeOK
      <4>. QED
        BY <4>1, <4>2 DEF NewAccepted
    <3>2. acc \in Msgs
      BY <1>3, OneShotUpdate
    <3>. QED
      BY <2>2, <2>3, <3>1, <3>2, FinishedAnyAcc
  <2>. QED
    BY <2>4 DEF Good
<1>. QED
  BY <1>1, <1>2, <1>3

(* check_and_fetch_param returns a length some mechanism produces.        *)
LEMMA ParamLenInOutLens ==
  ASSUME NEW m \in Mechanisms, NEW plen, NEW genlen \in GenLens,
         CheckAndFetchParam(plen, genlen, Info(m).minlen, Info(m).maxlen).rv
           = OK
  PROVE  CheckAndFetchParam(plen, genlen, Info(m).minlen, Info(m).maxlen).len
           \in OutLens
<1>1. m.hash \in Hashes /\ HashLen[m.hash] \in Nat \ {0}
  BY HashLenAssumption DEF Mechanisms
<1>2. GenLens \subseteq Nat
  <2>1. OutLens \subseteq Nat
    BY HashLenAssumption DEF OutLens
  <2>2. ASSUME NEW x \in GenLens PROVE x \in Nat
    <3>1. CASE x \in {l + 1 : l \in OutLens}
      <4>1. PICK l \in OutLens : x = l + 1
        BY <3>1
      <4>. QED
        BY <2>1, <4>1
    <3>. QED
      BY <2>1, <3>1 DEF GenLens
  <2>. QED
    BY <2>2
<1>3. 1..HashLen[m.hash] \subseteq OutLens
  BY <1>1 DEF OutLens
<1>. QED
  BY <1>1, <1>2, <1>3 DEF CheckAndFetchParam, Info, OK, MechanismParamInvalid

(* sign_new / verify_new, called when the session holds no operation.     *)
LEMMA NewOpGood ==
  ASSUME IInv, op = NoOp, NEW mode \in {"sign", "verify"},
         NEW m \in Mechanisms, NEW plen, NEW genlen \in GenLens,
         NEW key \in KeyObjects, NEW ok \in BOOLEAN
  PROVE  Good(NewOp(mode, m, plen, genlen, key, ok), NoOut)
<1> DEFINE p == CheckAndFetchParam(plen, genlen, Info(m).minlen,
                                   Info(m).maxlen)
           k == CheckAndFetchKey(key, Info(m).keytype)
           r == NewOp(mode, m, plen, genlen, key, ok)
           o == [mode |-> mode, mech |-> m, outputlen |-> p.len,
                 in_use |-> FALSE, finalized |-> FALSE, inner |-> <<>>]
<1>1. accepted = <<>> /\ NewAccepted(r, NoOut) = accepted
  BY NoOutAssumption DEF IInv, NoOpNoHistory, NewAccepted
<1>2. p.rv \in RVs /\ k \in RVs
  BY DEF CheckAndFetchParam, CheckAndFetchKey, RVs
<1>3. CASE p.rv = OK /\ k = OK /\ ok
  <2>1. r = Res(o, OK, NoOut)
    BY <1>3 DEF NewOp, Info
  <2>2. p.len \in OutLens
    BY <1>3, ParamLenInOutLens, Zenon
  <2>3. o \in Ops
    BY <2>2, EmptyMsg DEF Ops
  <2>4. o # NoOp
    BY <2>3, NoOpAssumption
  <2>. QED
    BY <1>1, <2>1, <2>3, <2>4, EmptyMsg DEF Good, ResInv, Res, RVs
<1>4. CASE ~(p.rv = OK /\ k = OK /\ ok)
  <2>1. r.op = NoOp /\ r.rv \in RVs /\ r.out = NoOut
    BY <1>2, <1>4 DEF NewOp, Res, RVs
  <2>. QED
    BY <1>1, <2>1, EmptyMsg DEF Good, ResInv
<1>. QED
  BY <1>3, <1>4

(* sign_final and verify_final as actions of the session.                 *)
LEMMA DoSignFinalGood ==
  ASSUME IInv, op # NoOp, NEW siglen, NEW ok \in BOOLEAN
  PROVE  Good(DoSignFinal(op, siglen, ok), NoOut)
<1>1. /\ op \in Ops /\ accepted \in Msgs /\ (op.finalized => op.in_use)
      /\ (~op.finalized => op.inner = accepted)
  BY DEF IInv, TypeOK, FinalizedOnlyAfterUse, InnerIsAccepted
<1> DEFINE r == DoSignFinal(op, siglen, ok)
<1>2. ResInv(r, accepted)
  BY <1>1, SignFinalRes
<1>. QED
  BY <1>2, NoOutAssumption DEF Good, NewAccepted

LEMMA DoVerifyFinalGood ==
  ASSUME IInv, op # NoOp, NEW sig, NEW ok \in BOOLEAN
  PROVE  Good(DoVerifyFinal(op, sig, ok), NoOut)
<1>1. /\ op \in Ops /\ accepted \in Msgs /\ (op.finalized => op.in_use)
      /\ (~op.finalized => op.inner = accepted)
  BY DEF IInv, TypeOK, FinalizedOnlyAfterUse, InnerIsAccepted
<1> DEFINE r == DoVerifyFinal(op, sig, ok)
<1>2. ResInv(r, accepted)
  BY <1>1, VerifyFinalRes
<1>. QED
  BY <1>2, NoOutAssumption DEF Good, NewAccepted

-----------------------------------------------------------------------------
(* Every step of the session preserves IInv.                              *)
LEMMA IInvStep == IInv /\ [Next]_vars => IInv'
<1> SUFFICES ASSUME IInv, [Next]_vars PROVE IInv'
  OBVIOUS
<1>0. /\ Data \cup {NoOut} = Data \cup {NoOut}
      /\ \A d \in Data : d \in Data \cup {NoOut}
  OBVIOUS
<1>1. CASE New
  <2>1. PICK mode \in {"sign", "verify"}, m \in Mechanisms, plen \in ParamLens,
             genlen \in GenLens, key \in KeyObjects, ok \in Outcomes :
          Record(NewOp(mode, m, plen, genlen, key, ok), "New", NoOut, NoOut)
    BY <1>1 DEF New
  <2>2. ok \in BOOLEAN
    BY DEF Outcomes
  <2>3. Good(NewOp(mode, m, plen, genlen, key, ok), NoOut)
    BY <1>1, <2>2, NewOpGood DEF New
  <2>. QED
    BY <2>1, <2>3, RecordIInv DEF Calls
<1>2. CASE Sign
  <2>1. PICK d \in Data, siglen \in OutLens, ok1, ok2 \in Outcomes :
          Record(DoSign(op, d, siglen, ok1, ok2), "Sign", d, NoOut)
    BY <1>2 DEF Sign
  <2>2. ok1 \in BOOLEAN /\ ok2 \in BOOLEAN
    BY DEF Outcomes
  <2>3. Good(DoSign(op, d, siglen, ok1, ok2), d)
    BY <1>2, <2>2, DoSignGood DEF Sign
  <2>. QED
    BY <2>1, <2>3, RecordIInv DEF Calls
<1>3. CASE SignUpdate
  <2>1. PICK d \in Data, ok \in Outcomes :
          Record(DoUpdate(op, d, ok), "SignUpdate", d, NoOut)
    BY <1>3 DEF SignUpdate
  <2>2. ok \in BOOLEAN
    BY DEF Outcomes
  <2>3. Good(DoUpdate(op, d, ok), d)
    BY <1>3, <2>2, DoUpdateGood DEF SignUpdate
  <2>. QED
    BY <2>1, <2>3, RecordIInv DEF Calls
<1>4. CASE SignFinal
  <2>1. PICK siglen \in OutLens, ok \in Outcomes :
          Record(DoSignFinal(op, siglen, ok), "SignFinal", NoOut, NoOut)
    BY <1>4 DEF SignFinal
  <2>2. ok \in BOOLEAN
    BY DEF Outcomes
  <2>3. Good(DoSignFinal(op, siglen, ok), NoOut)
    BY <1>4, <2>2, DoSignFinalGood DEF SignFinal
  <2>. QED
    BY <2>1, <2>3, RecordIInv DEF Calls
<1>5. CASE Verify
  <2>1. PICK d \in Data, sig \in Sigs, ok1, ok2 \in Outcomes :
          Record(DoVerify(op, d, sig, ok1, ok2), "Verify", d, sig)
    BY <1>5 DEF Verify
  <2>2. ok1 \in BOOLEAN /\ ok2 \in BOOLEAN
    BY DEF Outcomes
  <2>3. Good(DoVerify(op, d, sig, ok1, ok2), d)
    BY <1>5, <2>2, DoVerifyGood DEF Verify
  <2>. QED
    BY <2>1, <2>3, RecordIInv DEF Calls
<1>6. CASE VerifyUpdate
  <2>1. PICK d \in Data, ok \in Outcomes :
          Record(DoUpdate(op, d, ok), "VerifyUpdate", d, NoOut)
    BY <1>6 DEF VerifyUpdate
  <2>2. ok \in BOOLEAN
    BY DEF Outcomes
  <2>3. Good(DoUpdate(op, d, ok), d)
    BY <1>6, <2>2, DoUpdateGood DEF VerifyUpdate
  <2>. QED
    BY <2>1, <2>3, RecordIInv DEF Calls
<1>7. CASE VerifyFinal
  <2>1. PICK sig \in Sigs, ok \in Outcomes :
          Record(DoVerifyFinal(op, sig, ok), "VerifyFinal", NoOut, sig)
    BY <1>7 DEF VerifyFinal
  <2>2. ok \in BOOLEAN
    BY DEF Outcomes
  <2>3. Good(DoVerifyFinal(op, sig, ok), NoOut)
    BY <1>7, <2>2, DoVerifyFinalGood DEF VerifyFinal
  <2>. QED
    BY <2>1, <2>3, RecordIInv DEF Calls
<1>8. CASE UNCHANGED vars
  BY <1>8 DEF vars, IInv, TypeOK, FinalizedOnlyAfterUse, InnerIsAccepted,
              NoOpNoHistory, SignatureBindsMessage
<1>. QED
  BY <1>1, <1>2, <1>3, <1>4, <1>5, <1>6, <1>7, <1>8 DEF Next

-----------------------------------------------------------------------------
(* Every reachable state satisfies IInv.                                  *)
THEOREM IInvInvariant == Spec => []IInv
  BY InitIInv, IInvStep, PTL DEF Spec

(* Type correctness of every state of the HMAC operation's session.       *)
THEOREM TypeCorrect == Spec => []TypeOK
  BY IInvInvariant, PTL DEF IInv

(* A finalized HMAC operation is always in_use, the fact on which sign()  *)
(* and verify() rely when they check in_use alone (hmac.rs 399, 445).     *)
THEOREM FinalizedImpliesInUse == Spec => []FinalizedOnlyAfterUse
  BY IInvInvariant, PTL DEF IInv

(* A signature returned with OK by sign() or sign_final() is the MAC,     *)
(* truncated to the output length, of exactly the chunks of the calls     *)
(* that returned OK (hmac.rs 393-436, 348-377).                           *)
THEOREM SignatureBinding == Spec => []SignatureBindsMessage
  BY IInvInvariant, PTL DEF IInv

=============================================================================
