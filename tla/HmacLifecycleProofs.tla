------------------------ MODULE HmacLifecycleProofs ------------------------
(***************************************************************************)
(* Proof that the HMAC operation of HmacOperation (src/src/hmac.rs)        *)
(* implements the abstract lifecycle OperationLifecycle of spec section    *)
(* 4.5 under the refinement mapping Lifecycle (phase from the in_use and   *)
(* finalized flags, kind from the name of the call), for every instance.  *)
(*                                                                         *)
(* Each trait method is shown to make one step of the table Allowed from  *)
(* the phase of the operation it is given; the session's creation of the *)
(* operation is a stutter of the lifecycle.  The steps need the invariant *)
(* of HmacOperationProofs (a finalized operation is in_use, and the       *)
(* absorbed chunks fit the bound) and one more fact: while the session    *)
(* holds no operation, the last call was New or none at all.              *)
(*                                                                         *)
(* The module also proves the verdict of verify() and verify_final()      *)
(* right.  That needs IInv and FreshEmpty: an operation that is not        *)
(* in_use has absorbed nothing, so a one-shot verify() checks the MAC of   *)
(* its own chunk alone.                                                    *)
(***************************************************************************)
EXTENDS HmacOperationProofs

(* The session holds no operation only before the first New returns one. *)
NoOpFresh == op = NoOp => call \in {"None", "New"}

LInv == IInv /\ NoOpFresh

(* The lifecycle step a method makes when it turns operation o into the   *)
(* result r by a call of kind k: a row of Allowed from o's phase to the    *)
(* phase of r's operation, and OK only where the row allows it.           *)
Step(o, r, k) ==
  /\ r.op \in Ops
  /\ \E t \in Lifecycle!Allowed :
       /\ t[1] = PhaseOf(o)
       /\ t[2] = k
       /\ t[3] = PhaseOf(r.op)
       /\ ~t[4] => r.rv # OK

-----------------------------------------------------------------------------
(* The phase of an operation record follows from its two flags.           *)
LEMMA PhaseOfOps ==
  ASSUME NEW o \in Ops
  PROVE  PhaseOf(o) = IF o.finalized THEN "Done"
                      ELSE IF o.in_use THEN "Running" ELSE "Fresh"
  BY NoOpAssumption DEF PhaseOf

(* Setting a flag, or absorbing a chunk into an operation with room for   *)
(* it, gives an operation record.                                         *)
LEMMA OpsUpdates ==
  ASSUME NEW o \in Ops
  PROVE  /\ [o EXCEPT !.in_use = TRUE] \in Ops
         /\ [o EXCEPT !.finalized = TRUE] \in Ops
  BY DEF Ops

LEMMA OpsAbsorb ==
  ASSUME NEW o \in Ops, Len(o.inner) < MaxData, NEW d \in Data
  PROVE  Absorbed(o, d) \in Ops
<1>1. Append(o.inner, d) \in Msgs
  BY MsgsAppend DEF Ops
<1>. QED
  BY <1>1 DEF Absorbed, Started, Ops

(* The rows of Allowed the methods use.                                   *)
LEMMA Rows ==
  /\ <<"Fresh",   "oneshot", "Done",    TRUE>>  \in Lifecycle!Allowed
  /\ <<"Running", "oneshot", "Running", FALSE>> \in Lifecycle!Allowed
  /\ <<"Fresh",   "update",  "Running", TRUE>>  \in Lifecycle!Allowed
  /\ <<"Running", "update",  "Running", TRUE>>  \in Lifecycle!Allowed
  /\ <<"Fresh",   "final",   "Fresh",   FALSE>> \in Lifecycle!Allowed
  /\ <<"Running", "final",   "Done",    TRUE>>  \in Lifecycle!Allowed
  /\ \A k \in {"oneshot", "update", "final"} :
       <<"Done", k, "Done", FALSE>> \in Lifecycle!Allowed
  BY DEF Lifecycle!Allowed, Lifecycle!Kinds

-----------------------------------------------------------------------------
(* sign_update / verify_update: a finalized operation is refused; any     *)
(* other is left Running, whether the digest provider failed or not.      *)
LEMMA UpdateStep ==
  ASSUME NEW o \in Ops, o.finalized => o.in_use, Len(o.inner) < MaxData,
         NEW d \in Data, NEW ok \in BOOLEAN
  PROVE  Step(o, DoUpdate(o, d, ok), "update")
<1> DEFINE r == DoUpdate(o, d, ok)
<1>1. CASE o.finalized
  <2>1. r.op = o /\ r.rv = NotInitialized
    BY <1>1 DEF DoUpdate, Res
  <2>. QED
    BY <1>1, <2>1, Rows, PhaseOfOps DEF Step, NotInitialized, OK
<1>2. CASE ~o.finalized
  <2>1. r.op \in {Started(o), Absorbed(o, d)}
    BY <1>2 DEF DoUpdate, Update, Res, Started, Absorbed
  <2>2. Started(o) \in Ops /\ Absorbed(o, d) \in Ops
    BY OpsUpdates, OpsAbsorb DEF Started
  <2>3. r.op.in_use /\ ~r.op.finalized
    BY <1>2, <2>1 DEF Started, Absorbed, Ops
  <2>4. PhaseOf(r.op) = "Running"
    BY <2>1, <2>2, <2>3, PhaseOfOps
  <2>5. PhaseOf(o) \in {"Fresh", "Running"}
    BY <1>2, PhaseOfOps
  <2>. QED
    BY <2>1, <2>2, <2>4, <2>5, Rows DEF Step
<1>. QED
  BY <1>1, <1>2

(* sign_final / verify_final share their first check: an operation that  *)
(* is not in_use, or finalized, is refused and left as it is.             *)
LEMMA FinalRefusedStep ==
  ASSUME NEW o \in Ops, o.finalized => o.in_use, ~o.in_use \/ o.finalized,
         NEW r, r.op = o, r.rv = NotInitialized
  PROVE  Step(o, r, "final")
<1>1. PhaseOf(o) \in {"Fresh", "Done"}
  BY PhaseOfOps
<1>. QED
  BY <1>1, Rows, PhaseOfOps DEF Step, NotInitialized, OK

(* A final call that passed the check finishes a Running operation.       *)
LEMMA FinalDoneStep ==
  ASSUME NEW o \in Ops, o.in_use, ~o.finalized,
         NEW r, r.op = [o EXCEPT !.finalized = TRUE]
  PROVE  Step(o, r, "final")
<1>1. r.op \in Ops /\ r.op.finalized
  BY OpsUpdates DEF Ops
<1>2. PhaseOf(o) = "Running" /\ PhaseOf(r.op) = "Done"
  BY <1>1, PhaseOfOps
<1>. QED
  BY <1>1, <1>2, Rows DEF Step

LEMMA SignFinalStep ==
  ASSUME NEW o \in Ops, o.finalized => o.in_use, NEW siglen, NEW ok \in BOOLEAN
  PROVE  Step(o, DoSignFinal(o, siglen, ok), "final")
<1>1. CASE ~o.in_use \/ o.finalized
  <2>1. DoSignFinal(o, siglen, ok) = Res(o, NotInitialized, NoOut)
    BY <1>1 DEF DoSignFinal
  <2>. QED
    BY <1>1, <2>1, FinalRefusedStep DEF Res
<1>2. CASE o.in_use /\ ~o.finalized
  <2>1. DoSignFinal(o, siglen, ok).op = [o EXCEPT !.finalized = TRUE]
    BY <1>2 DEF DoSignFinal, Res
  <2>. QED
    BY <1>2, <2>1, FinalDoneStep
<1>. QED
  BY <1>1, <1>2

LEMMA VerifyFinalStep ==
  ASSUME NEW o \in Ops, o.finalized => o.in_use, NEW sig, NEW ok \in BOOLEAN
  PROVE  Step(o, DoVerifyFinal(o, sig, ok), "final")
<1>1. CASE ~o.in_use \/ o.finalized
  <2>1. DoVerifyFinal(o, sig, ok) = Res(o, NotInitialized, NoOut)
    BY <1>1 DEF DoVerifyFinal
  <2>. QED
    BY <1>1, <2>1, FinalRefusedStep DEF Res
<1>2. CASE o.in_use /\ ~o.finalized
  <2>1. DoVerifyFinal(o, sig, ok).op = [o EXCEPT !.finalized = TRUE]
    BY <1>2 DEF DoVerifyFinal, Res
  <2>. QED
    BY <1>2, <2>1, FinalDoneStep
<1>. QED
  BY <1>1, <1>2

(* The update inside a one-shot call on an operation that is not in_use.  *)
LEMMA OneShotUpdateOps ==
  ASSUME NEW o \in Ops, ~o.in_use, ~o.finalized, Len(o.inner) < MaxData,
         NEW d \in Data, NEW ok \in BOOLEAN
  PROVE  /\ Started(o) \in Ops /\ Absorbed(o, d) \in Ops
         /\ Absorbed(o, d).in_use /\ ~Absorbed(o, d).finalized
         /\ [Started(o) EXCEPT !.finalized = TRUE] \in Ops
         /\ [Started(o) EXCEPT !.finalized = TRUE].finalized
         /\ ok => DoUpdate(o, d, ok) = Res(Absorbed(o, d), OK, NoOut)
         /\ ~ok => DoUpdate(o, d, ok) = Res(Started(o), ProviderError, NoOut)
<1>1. Started(o) \in Ops /\ Absorbed(o, d) \in Ops
  BY OpsUpdates, OpsAbsorb DEF Started
<1>2. [Started(o) EXCEPT !.finalized = TRUE] \in Ops
  BY <1>1, OpsUpdates
<1>. QED
  BY <1>1, <1>2 DEF Started, Absorbed, Ops, DoUpdate, Update

(* sign(): refused when in_use (Running stays Running, Done stays Done);   *)
(* otherwise the Fresh operation is finished whatever the outcome.        *)
LEMMA SignStep ==
  ASSUME NEW o \in Ops, o.finalized => o.in_use, Len(o.inner) < MaxData,
         NEW d \in Data, NEW siglen, NEW ok1 \in BOOLEAN, NEW ok2 \in BOOLEAN
  PROVE  Step(o, DoSign(o, d, siglen, ok1, ok2), "oneshot")
<1> DEFINE r == DoSign(o, d, siglen, ok1, ok2)
<1>1. CASE o.in_use
  <2>1. r.op = o /\ r.rv = NotInitialized
    BY <1>1 DEF DoSign, Res
  <2>2. PhaseOf(o) \in {"Running", "Done"}
    BY <1>1, PhaseOfOps
  <2>. QED
    BY <2>1, <2>2, Rows DEF Step, NotInitialized, OK
<1>2. CASE ~o.in_use
  <2>1. ~o.finalized /\ PhaseOf(o) = "Fresh"
    BY <1>2, PhaseOfOps
  <2>2. r.op \in Ops /\ r.op.finalized
    <3>1. CASE ~ok1
      <4>0. DoUpdate(o, d, ok1) = Res(Started(o), ProviderError, NoOut)
        BY <1>2, <2>1, <3>1, OneShotUpdateOps
      <4>1. r.op = [Started(o) EXCEPT !.finalized = TRUE]
        BY <1>2, <4>0 DEF DoSign, Res, OK, ProviderError
      <4>. QED
        BY <1>2, <2>1, <4>1, OneShotUpdateOps
    <3>2. CASE ok1
      <4>0. /\ DoUpdate(o, d, ok1) = Res(Absorbed(o, d), OK, NoOut)
            /\ Absorbed(o, d).in_use /\ ~Absorbed(o, d).finalized
        BY <1>2, <2>1, <3>2, OneShotUpdateOps
      <4>1. r = DoSignFinal(Absorbed(o, d), siglen, ok2)
        BY <1>2, <4>0 DEF DoSign, Res
      <4>2. r.op = [Absorbed(o, d) EXCEPT !.finalized = TRUE]
        BY <4>0, <4>1 DEF DoSignFinal, Res
      <4>. QED
        BY <1>2, <2>1, <4>2, OneShotUpdateOps, OpsUpdates DEF Ops
    <3>. QED
      BY <3>1, <3>2
  <2>3. PhaseOf(r.op) = "Done"
    BY <2>2, PhaseOfOps
  <2>. QED
    BY <2>1, <2>2, <2>3, Rows DEF Step
<1>. QED
  BY <1>1, <1>2

(* verify(): the same steps as sign().                                     *)
LEMMA VerifyStep ==
  ASSUME NEW o \in Ops, o.finalized => o.in_use, Len(o.inner) < MaxData,
         NEW d \in Data, NEW sig, NEW ok1 \in BOOLEAN, NEW ok2 \in BOOLEAN
  PROVE  Step(o, DoVerify(o, d, sig, ok1, ok2), "oneshot")
<1> DEFINE r == DoVerify(o, d, sig, ok1, ok2)
<1>1. CASE o.in_use
  <2>1. r.op = o /\ r.rv = NotInitialized
    BY <1>1 DEF DoVerify, Res
  <2>2. PhaseOf(o) \in {"Running", "Done"}
    BY <1>1, PhaseOfOps
  <2>. QED
    BY <2>1, <2>2, Rows DEF Step, NotInitialized, OK
<1>2. CASE ~o.in_use
  <2>1. ~o.finalized /\ PhaseOf(o) = "Fresh"
    BY <1>2, PhaseOfOps
  <2>2. r.op \in Ops /\ r.op.finalized
    <3>1. CASE ~ok1
      <4>0. DoUpdate(o, d, ok1) = Res(Started(o), ProviderError, NoOut)
        BY <1>2, <2>1, <3>1, OneShotUpdateOps
      <4>1. r.op = [Started(o) EXCEPT !.finalized = TRUE]
        BY <1>2, <4>0 DEF DoVerify, Res, OK, ProviderError
      <4>. QED
        BY <1>2, <2>1, <4>1, OneShotUpdateOps
    <3>2. CASE ok1
      <4>0. /\ DoUpdate(o, d, ok1) = Res(Absorbed(o, d), OK, NoOut)
            /\ Absorbed(o, d).in_use /\ ~Absorbed(o, d).finalized
        BY <1>2, <2>1, <3>2, OneShotUpdateOps
      <4>1. r = DoVerifyFinal(Absorbed(o, d), sig, ok2)
        BY <1>2, <4>0 DEF DoVerify, Res
      <4>2. r.op = [Absorbed(o, d) EXCEPT !.finalized = TRUE]
        BY <4>0, <4>1 DEF DoVerifyFinal, Res
      <4>. QED
        BY <1>2, <2>1, <4>2, OneShotUpdateOps, OpsUpdates DEF Ops
    <3>. QED
      BY <3>1, <3>2
  <2>3. PhaseOf(r.op) = "Done"
    BY <2>2, PhaseOfOps
  <2>. QED
    BY <2>1, <2>2, <2>3, Rows DEF Step
<1>. QED
  BY <1>1, <1>2

-----------------------------------------------------------------------------
(* A call of a trait method whose result makes a lifecycle step is a step *)
(* Call of the lifecycle once Record has stored it, and leaves the session *)
(* holding an operation.                                                   *)
LEMMA RecordStep ==
  ASSUME NEW r, NEW c, NEW d, NEW s, Record(r, c, d, s),
         KindOf(c) # "none", Step(op, r, KindOf(c))
  PROVE  NoOpFresh' /\ Lifecycle!Next
<1>1. op' = r.op /\ rv' = r.rv /\ call' = c
  BY DEF Record
<1>2. NoOpFresh'
  BY <1>1, NoOpAssumption DEF Step, NoOpFresh
<1>3. PICK t \in Lifecycle!Allowed :
        /\ t[1] = PhaseOf(op)
        /\ t[2] = KindOf(c)
        /\ t[3] = PhaseOf(r.op)
        /\ ~t[4] => r.rv # OK
  BY DEF Step
<1>4. (IF KindOf(call) = "none" \/ rv = OK THEN "OK" ELSE "Err")'
        \in IF t[4] THEN Lifecycle!Results ELSE {"Err"}
  BY <1>1, <1>3 DEF Lifecycle!Results
<1>5. Lifecycle!Call
  BY <1>1, <1>3, <1>4 DEF Lifecycle!Call
<1>. QED
  BY <1>2, <1>5 DEF Lifecycle!Next

(* The session's operation before a trait method: a record whose flags   *)
(* agree, with room for a chunk when the action carries one.              *)
LEMMA LiveOp ==
  ASSUME IInv, op # NoOp
  PROVE  op \in Ops /\ (op.finalized => op.in_use)
  BY DEF IInv, TypeOK, FinalizedOnlyAfterUse

(* Creating the operation is a stutter of the lifecycle: the session goes *)
(* from no operation to a Fresh one, or stays without one.                *)
LEMMA NewStutter ==
  ASSUME LInv, New
  PROVE  NoOpFresh' /\ UNCHANGED Lifecycle!vars
<1>1. PICK mode \in {"sign", "verify"}, m \in Mechanisms, plen \in ParamLens,
           genlen \in GenLens, key \in KeyObjects, ok \in Outcomes :
        Record(NewOp(mode, m, plen, genlen, key, ok), "New", NoOut, NoOut)
  BY DEF New
<1> DEFINE r == NewOp(mode, m, plen, genlen, key, ok)
<1>2. op' = r.op /\ call' = "New"
  BY <1>1 DEF Record
<1>3. r.op = NoOp \/ (~r.op.in_use /\ ~r.op.finalized)
  BY DEF NewOp, Res
<1>4. PhaseOf(op') = "Fresh" /\ PhaseOf(op) = "Fresh"
  BY <1>2, <1>3 DEF PhaseOf, New
<1>5. KindOf(call') = "none" /\ KindOf(call) = "none"
  BY <1>2 DEF KindOf, LInv, NoOpFresh, New
<1>. QED
  BY <1>2, <1>4, <1>5 DEF NoOpFresh, Lifecycle!vars

-----------------------------------------------------------------------------
(* Every step of the session keeps LInv and is a step of the lifecycle or *)
(* leaves the lifecycle's variables unchanged.                             *)
LEMMA LStep ==
  LInv /\ [Next]_vars => LInv' /\ [Lifecycle!Next]_Lifecycle!vars
<1> SUFFICES ASSUME LInv, [Next]_vars
             PROVE  NoOpFresh' /\ [Lifecycle!Next]_Lifecycle!vars
  BY IInvStep DEF LInv
<1>1. CASE New
  BY <1>1, NewStutter
<1>2. CASE Sign
  <2>1. PICK d \in Data, siglen \in OutLens, ok1, ok2 \in Outcomes :
          Record(DoSign(op, d, siglen, ok1, ok2), "Sign", d, NoOut)
    BY <1>2 DEF Sign
  <2>2. ok1 \in BOOLEAN /\ ok2 \in BOOLEAN
    BY DEF Outcomes
  <2>3. Step(op, DoSign(op, d, siglen, ok1, ok2), "oneshot")
    BY <1>2, <2>2, LiveOp, SignStep DEF LInv, Sign
  <2>. QED
    BY <2>1, <2>3, RecordStep DEF KindOf
<1>3. CASE SignUpdate
  <2>1. PICK d \in Data, ok \in Outcomes :
          Record(DoUpdate(op, d, ok), "SignUpdate", d, NoOut)
    BY <1>3 DEF SignUpdate
  <2>2. ok \in BOOLEAN
    BY DEF Outcomes
  <2>3. Step(op, DoUpdate(op, d, ok), "update")
    BY <1>3, <2>2, LiveOp, UpdateStep DEF LInv, SignUpdate
  <2>. QED
    BY <2>1, <2>3, RecordStep DEF KindOf
<1>4. CASE SignFinal
  <2>1. PICK siglen \in OutLens, ok \in Outcomes :
          Record(DoSignFinal(op, siglen, ok), "SignFinal", NoOut, NoOut)
    BY <1>4 DEF SignFinal
  <2>2. ok \in BOOLEAN
    BY DEF Outcomes
  <2>3. Step(op, DoSignFinal(op, siglen, ok), "final")
    BY <1>4, <2>2, LiveOp, SignFinalStep DEF LInv, SignFinal
  <2>. QED
    BY <2>1, <2>3, RecordStep DEF KindOf
<1>5. CASE Verify
  <2>1. PICK d \in Data, sig \in Sigs, ok1, ok2 \in Outcomes :
          Record(DoVerify(op, d, sig, ok1, ok2), "Verify", d, sig)
    BY <1>5 DEF Verify
  <2>2. ok1 \in BOOLEAN /\ ok2 \in BOOLEAN
    BY DEF Outcomes
  <2>3. Step(op, DoVerify(op, d, sig, ok1, ok2), "oneshot")
    BY <1>5, <2>2, LiveOp, VerifyStep DEF LInv, Verify
  <2>. QED
    BY <2>1, <2>3, RecordStep DEF KindOf
<1>6. CASE VerifyUpdate
  <2>1. PICK d \in Data, ok \in Outcomes :
          Record(DoUpdate(op, d, ok), "VerifyUpdate", d, NoOut)
    BY <1>6 DEF VerifyUpdate
  <2>2. ok \in BOOLEAN
    BY DEF Outcomes
  <2>3. Step(op, DoUpdate(op, d, ok), "update")
    BY <1>6, <2>2, LiveOp, UpdateStep DEF LInv, VerifyUpdate
  <2>. QED
    BY <2>1, <2>3, RecordStep DEF KindOf
<1>7. CASE VerifyFinal
  <2>1. PICK sig \in Sigs, ok \in Outcomes :
          Record(DoVerifyFinal(op, sig, ok), "VerifyFinal", NoOut, sig)
    BY <1>7 DEF VerifyFinal
  <2>2. ok \in BOOLEAN
    BY DEF Outcomes
  <2>3. Step(op, DoVerifyFinal(op, sig, ok), "final")
    BY <1>7, <2>2, LiveOp, VerifyFinalStep DEF LInv, VerifyFinal
  <2>. QED
    BY <2>1, <2>3, RecordStep DEF KindOf
<1>8. CASE UNCHANGED vars
  BY <1>8 DEF vars, LInv, NoOpFresh, Lifecycle!vars
<1>. QED
  BY <1>1, <1>2, <1>3, <1>4, <1>5, <1>6, <1>7, <1>8 DEF Next

(* The HMAC operation keeps the promise of spec section 4.5: every call   *)
(* of sign, sign_update, sign_final, verify, verify_update or verify_final *)
(* (hmac.rs 393-483) moves the operation along a row of the lifecycle     *)
(* table (Fresh, Running, Done; Done is terminal) and returns OK only     *)
(* where the row allows it, with digest-provider failures at any call.    *)
THEOREM HmacRefinement == Spec => LifecycleRefinement
<1>1. Init => LInv
  BY InitIInv DEF Init, LInv, NoOpFresh
<1>2. Init => Lifecycle!Init
  BY DEF Init, Lifecycle!Init, PhaseOf, KindOf
<1>. QED
  BY <1>1, <1>2, LStep, PTL DEF Spec, LifecycleRefinement, Lifecycle!Spec

-----------------------------------------------------------------------------
(***************************************************************************)
(* The verdict of verify() and verify_final().  It rests on IInv and one  *)
(* more fact: an operation that is not in_use has absorbed nothing, so    *)
(* the one-shot verify() checks the MAC of its own chunk alone.           *)
(***************************************************************************)
FreshEmpty == op # NoOp /\ ~op.in_use => op.inner = <<>>

VInv == IInv /\ FreshEmpty /\ VerifyVerdictCorrect

(* A method either leaves the operation as it was or marks it in_use.    *)
Touched(o, r) == r.op = o \/ r.op.in_use

LEMMA UpdateTouched ==
  ASSUME NEW o \in Ops, o.finalized => o.in_use, Len(o.inner) < MaxData,
         NEW d \in Data, NEW ok \in BOOLEAN
  PROVE  Touched(o, DoUpdate(o, d, ok))
<1>1. CASE o.finalized
  BY <1>1 DEF Touched, DoUpdate, Res
<1>2. CASE ~o.finalized
  <2>1. DoUpdate(o, d, ok).op \in {Started(o), Absorbed(o, d)}
    BY <1>2 DEF DoUpdate, Update, Res, Started, Absorbed
  <2>. QED
    BY <2>1 DEF Touched, Started, Absorbed, Ops
<1>. QED
  BY <1>1, <1>2

LEMMA FinalTouched ==
  ASSUME NEW o \in Ops, NEW siglen, NEW sig, NEW ok \in BOOLEAN
  PROVE  /\ Touched(o, DoSignFinal(o, siglen, ok))
         /\ Touched(o, DoVerifyFinal(o, sig, ok))
  BY DEF Touched, DoSignFinal, DoVerifyFinal, Res, Ops

(* sign() and verify(): refused when in_use, otherwise the operation     *)
(* they return is marked in_use by their update.                          *)
LEMMA OneShotTouched ==
  ASSUME NEW o \in Ops, o.finalized => o.in_use, Len(o.inner) < MaxData,
         NEW d \in Data, NEW siglen, NEW sig,
         NEW ok1 \in BOOLEAN, NEW ok2 \in BOOLEAN
  PROVE  /\ Touched(o, DoSign(o, d, siglen, ok1, ok2))
         /\ Touched(o, DoVerify(o, d, sig, ok1, ok2))
<1>1. CASE o.in_use
  BY <1>1 DEF Touched, DoSign, DoVerify, Res
<1>2. CASE ~o.in_use /\ ~ok1
  <2>1. DoUpdate(o, d, ok1) = Res(Started(o), ProviderError, NoOut)
    BY <1>2, OneShotUpdateOps
  <2>2. /\ DoSign(o, d, siglen, ok1, ok2).op = [Started(o) EXCEPT !.finalized = TRUE]
        /\ DoVerify(o, d, sig, ok1, ok2).op = [Started(o) EXCEPT !.finalized = TRUE]
    BY <1>2, <2>1 DEF DoSign, DoVerify, Res, OK, ProviderError
  <2>. QED
    BY <2>2 DEF Touched, Started, Ops
<1>3. CASE ~o.in_use /\ ok1
  <2>0. ~o.in_use
    BY <1>3
  <2>1. /\ DoUpdate(o, d, ok1) = Res(Absorbed(o, d), OK, NoOut)
        /\ Absorbed(o, d) \in Ops /\ Absorbed(o, d).in_use
    BY <1>3, OneShotUpdateOps
  <2>2. DoSign(o, d, siglen, ok1, ok2) = DoSignFinal(Absorbed(o, d), siglen, ok2)
    BY <2>0, <2>1 DEF DoSign, Res
  <2>4. DoVerify(o, d, sig, ok1, ok2) = DoVerifyFinal(Absorbed(o, d), sig, ok2)
    BY <2>0, <2>1 DEF DoVerify, Res
  <2>3. /\ Touched(Absorbed(o, d), DoSignFinal(Absorbed(o, d), siglen, ok2))
        /\ Touched(Absorbed(o, d), DoVerifyFinal(Absorbed(o, d), sig, ok2))
    BY <2>1, FinalTouched
  <2>. QED
    BY <2>1, <2>2, <2>3, <2>4 DEF Touched
<1>. QED
  BY <1>1, <1>2, <1>3

(* verify_final on a Running operation: OK exactly when the signature is  *)
(* the MAC of the absorbed chunks, SIGNATURE_INVALID exactly when it is   *)
(* another one of the right length, neither for a signature of another   *)
(* length; the output length is kept.                                     *)
LEMMA FinalVerdict ==
  ASSUME NEW o \in Ops, o.in_use, ~o.finalized, NEW sig, NEW ok \in BOOLEAN
  PROVE  LET r == DoVerifyFinal(o, sig, ok)
         IN  /\ r.op.outputlen = o.outputlen
             /\ r.rv \in {OK, SignatureInvalid} =>
                  /\ sig.len = o.outputlen
                  /\ (r.rv = OK <=> sig = Tag(o.inner, o.outputlen))
<1> DEFINE r == DoVerifyFinal(o, sig, ok)
<1>1. r.op = [o EXCEPT !.finalized = TRUE]
  BY DEF DoVerifyFinal, Res
<1>2. r.op.outputlen = o.outputlen
  BY <1>1 DEF Ops
<1>3. r.rv \in {OK, SignatureInvalid} =>
        /\ sig.len = o.outputlen
        /\ (r.rv = OK <=> sig = Tag(o.inner, o.outputlen))
  BY DEF DoVerifyFinal, Finalize, Res, Tag, OK, SignatureInvalid,
         GeneralError, ProviderError
<1>. QED
  BY <1>2, <1>3

(* verify() on an operation that has absorbed nothing judges the MAC of  *)
(* its own chunk d; refused or failed calls give neither verdict.        *)
LEMMA OneShotVerdict ==
  ASSUME NEW o \in Ops, o.finalized => o.in_use, Len(o.inner) < MaxData,
         ~o.in_use => o.inner = <<>>,
         NEW d \in Data, NEW sig, NEW ok1 \in BOOLEAN, NEW ok2 \in BOOLEAN
  PROVE  LET r == DoVerify(o, d, sig, ok1, ok2)
         IN  r.rv \in {OK, SignatureInvalid} =>
               /\ sig.len = r.op.outputlen
               /\ (r.rv = OK <=> sig = Tag(<<d>>, r.op.outputlen))
<1> DEFINE r == DoVerify(o, d, sig, ok1, ok2)
<1>1. CASE o.in_use
  BY <1>1 DEF DoVerify, Res, OK, SignatureInvalid, NotInitialized
<1>2. CASE ~o.in_use /\ ~ok1
  <2>1. DoUpdate(o, d, ok1) = Res(Started(o), ProviderError, NoOut)
    BY <1>2, OneShotUpdateOps
  <2>. QED
    BY <1>2, <2>1 DEF DoVerify, Res, OK, SignatureInvalid, ProviderError
<1>3. CASE ~o.in_use /\ ok1
  <2>0. ~o.in_use /\ ~o.finalized
    BY <1>3
  <2>1. /\ DoUpdate(o, d, ok1) = Res(Absorbed(o, d), OK, NoOut)
        /\ Absorbed(o, d) \in Ops /\ Absorbed(o, d).in_use
        /\ ~Absorbed(o, d).finalized
    BY <1>3, <2>0, OneShotUpdateOps
  <2>2. r = DoVerifyFinal(Absorbed(o, d), sig, ok2)
    BY <2>0, <2>1 DEF DoVerify, Res
  <2>3. Absorbed(o, d).inner = Append(o.inner, d)
    BY DEF Absorbed, Started, Ops
  <2>5. Append(<<>>, d) = <<d>>
    OBVIOUS
  <2>6. Absorbed(o, d).inner = <<d>>
    BY <1>3, <2>3, <2>5
  <2>. QED
    BY <2>1, <2>2, <2>6, FinalVerdict
<1>. QED
  BY <1>1, <1>2, <1>3

(* verify_final judges the MAC of the caller's message: the chunks of the *)
(* verify_update calls that returned OK.                                   *)
LEMMA VerifyFinalVerdict ==
  ASSUME IInv, op # NoOp, NEW sig, NEW ok \in BOOLEAN
  PROVE  LET r == DoVerifyFinal(op, sig, ok)
         IN  r.rv \in {OK, SignatureInvalid} =>
               /\ sig.len = r.op.outputlen
               /\ (r.rv = OK <=> sig = Tag(accepted, r.op.outputlen))
<1>1. op \in Ops /\ (op.finalized => op.in_use)
  BY LiveOp
<1>2. CASE ~op.in_use \/ op.finalized
  BY <1>2 DEF DoVerifyFinal, Res, OK, SignatureInvalid, NotInitialized
<1>3. CASE op.in_use /\ ~op.finalized
  <2>1. op.inner = accepted
    BY <1>3 DEF IInv, InnerIsAccepted
  <2>. QED
    BY <1>1, <1>3, <2>1, FinalVerdict
<1>. QED
  BY <1>2, <1>3

(* Record keeps FreshEmpty when the method left the operation as it was  *)
(* or marked it in_use.                                                    *)
LEMMA RecordFresh ==
  ASSUME FreshEmpty, NEW r, NEW c, NEW d, NEW s, Record(r, c, d, s),
         Touched(op, r)
  PROVE  FreshEmpty'
  BY DEF Record, Touched, FreshEmpty

(* A call other than verify() or verify_final() gives no verdict.        *)
LEMMA RecordNoVerdict ==
  ASSUME NEW r, NEW c, NEW d, NEW s, Record(r, c, d, s),
         c \notin {"Verify", "VerifyFinal"}
  PROVE  VerifyVerdictCorrect'
  BY DEF Record, VerifyVerdictCorrect

(* Every step of the session keeps VInv.                                  *)
LEMMA VStep == VInv /\ [Next]_vars => VInv'
<1> SUFFICES ASSUME VInv, [Next]_vars
             PROVE  FreshEmpty' /\ VerifyVerdictCorrect'
  BY IInvStep DEF VInv
<1>0. op # NoOp => op \in Ops /\ (op.finalized => op.in_use)
  BY LiveOp DEF VInv
<1>1. CASE New
  <2>1. PICK mode \in {"sign", "verify"}, m \in Mechanisms, plen \in ParamLens,
             genlen \in GenLens, key \in KeyObjects, ok \in Outcomes :
          Record(NewOp(mode, m, plen, genlen, key, ok), "New", NoOut, NoOut)
    BY <1>1 DEF New
  <2>2. LET r == NewOp(mode, m, plen, genlen, key, ok)
        IN  r.op = NoOp \/ r.op.inner = <<>>
    BY DEF NewOp, Res
  <2>3. FreshEmpty'
    BY <2>1, <2>2 DEF Record, FreshEmpty
  <2>. QED
    BY <2>1, <2>3, RecordNoVerdict
<1>2. CASE Sign
  <2>1. PICK d \in Data, siglen \in OutLens, ok1, ok2 \in Outcomes :
          Record(DoSign(op, d, siglen, ok1, ok2), "Sign", d, NoOut)
    BY <1>2 DEF Sign
  <2>2. ok1 \in BOOLEAN /\ ok2 \in BOOLEAN
    BY DEF Outcomes
  <2>3. Touched(op, DoSign(op, d, siglen, ok1, ok2))
    BY <1>2, <1>0, <2>2, OneShotTouched DEF Sign
  <2>. QED
    BY <2>1, <2>3, RecordFresh, RecordNoVerdict DEF VInv
<1>3. CASE SignUpdate
  <2>1. PICK d \in Data, ok \in Outcomes :
          Record(DoUpdate(op, d, ok), "SignUpdate", d, NoOut)
    BY <1>3 DEF SignUpdate
  <2>2. ok \in BOOLEAN
    BY DEF Outcomes
  <2>3. Touched(op, DoUpdate(op, d, ok))
    BY <1>3, <1>0, <2>2, UpdateTouched DEF SignUpdate
  <2>. QED
    BY <2>1, <2>3, RecordFresh, RecordNoVerdict DEF VInv
<1>4. CASE SignFinal
  <2>1. PICK siglen \in OutLens, ok \in Outcomes :
          Record(DoSignFinal(op, siglen, ok), "SignFinal", NoOut, NoOut)
    BY <1>4 DEF SignFinal
  <2>2. ok \in BOOLEAN
    BY DEF Outcomes
  <2>3. Touched(op, DoSignFinal(op, siglen, ok))
    BY <1>4, <1>0, <2>2, FinalTouched DEF SignFinal
  <2>. QED
    BY <2>1, <2>3, RecordFresh, RecordNoVerdict DEF VInv
<1>6. CASE VerifyUpdate
  <2>1. PICK d \in Data, ok \in Outcomes :
          Record(DoUpdate(op, d, ok), "VerifyUpdate", d, NoOut)
    BY <1>6 DEF VerifyUpdate
  <2>2. ok \in BOOLEAN
    BY DEF Outcomes
  <2>3. Touched(op, DoUpdate(op, d, ok))
    BY <1>6, <1>0, <2>2, UpdateTouched DEF VerifyUpdate
  <2>. QED
    BY <2>1, <2>3, RecordFresh, RecordNoVerdict DEF VInv
<1>5. CASE Verify
  <2>1. PICK d \in Data, sig \in Sigs, ok1, ok2 \in Outcomes :
          Record(DoVerify(op, d, sig, ok1, ok2), "Verify", d, sig)
    BY <1>5 DEF Verify
  <2>2. ok1 \in BOOLEAN /\ ok2 \in BOOLEAN
    BY DEF Outcomes
  <2>3. /\ op \in Ops /\ (op.finalized => op.in_use) /\ Len(op.inner) < MaxData
        /\ ~op.in_use => op.inner = <<>>
    BY <1>5, <1>0 DEF Verify, VInv, FreshEmpty
  <2>4. Touched(op, DoVerify(op, d, sig, ok1, ok2))
    BY <2>2, <2>3, OneShotTouched
  <2>5. LET r == DoVerify(op, d, sig, ok1, ok2)
        IN  r.rv \in {OK, SignatureInvalid} =>
              /\ sig.len = r.op.outputlen
              /\ (r.rv = OK <=> sig = Tag(<<d>>, r.op.outputlen))
    BY <2>2, <2>3, OneShotVerdict
  <2>6. VerifyVerdictCorrect'
    BY <2>1, <2>5 DEF Record, VerifyVerdictCorrect, VerifiedMessage
  <2>. QED
    BY <2>1, <2>4, <2>6, RecordFresh DEF VInv
<1>7. CASE VerifyFinal
  <2>1. PICK sig \in Sigs, ok \in Outcomes :
          Record(DoVerifyFinal(op, sig, ok), "VerifyFinal", NoOut, sig)
    BY <1>7 DEF VerifyFinal
  <2>2. ok \in BOOLEAN
    BY DEF Outcomes
  <2>3. Touched(op, DoVerifyFinal(op, sig, ok))
    BY <1>7, <1>0, <2>2, FinalTouched DEF VerifyFinal
  <2>4. LET r == DoVerifyFinal(op, sig, ok)
        IN  r.rv \in {OK, SignatureInvalid} =>
              /\ sig.len = r.op.outputlen
              /\ (r.rv = OK <=> sig = Tag(accepted, r.op.outputlen))
    BY <1>7, <2>2, VerifyFinalVerdict DEF VInv, VerifyFinal
  <2>5. accepted' = accepted
    BY <2>1, NoOutAssumption DEF Record
  <2>6. VerifyVerdictCorrect'
    BY <2>1, <2>4, <2>5 DEF Record, VerifyVerdictCorrect, VerifiedMessage
  <2>. QED
    BY <2>1, <2>3, <2>6, RecordFresh DEF VInv
<1>8. CASE UNCHANGED vars
  BY <1>8 DEF vars, VInv, FreshEmpty, VerifyVerdictCorrect, VerifiedMessage
<1>. QED
  BY <1>1, <1>2, <1>3, <1>4, <1>5, <1>6, <1>7, <1>8 DEF Next

(* The verdict of verify() and verify_final() (hmac.rs 444-483) is right  *)
(* in every reachable state: OK exactly when the signature is the MAC of  *)
(* the message the caller passed (the one-shot chunk, or the chunks of    *)
(* the successful verify_update calls), SIGNATURE_INVALID exactly when it *)
(* is another signature of that length; a signature of another length     *)
(* gets neither verdict (the length check of hmac.rs 474).                *)
THEOREM VerdictCorrect == Spec => []VerifyVerdictCorrect
<1>1. Init => VInv
  BY InitIInv DEF Init, VInv, FreshEmpty, VerifyVerdictCorrect
<1>2. VInv => VerifyVerdictCorrect
  BY DEF VInv
<1>. QED
  BY <1>1, <1>2, VStep, PTL DEF Spec
=============================================================================
