------------------------- MODULE OperationLifecycle -------------------------
(***************************************************************************)
(* Abstract specification of what every cryptographic operation object    *)
(* (Encryption, Decryption, Sign, Verify) promises its session: the        *)
(* lifecycle of spec section 4.5, independent of the mechanism.            *)
(*                                                                         *)
(*   Fresh   = not in_use, not finalized                                   *)
(*   Running = in_use, not finalized                                       *)
(*   Done    = finalized (terminal)                                        *)
(*                                                                         *)
(* A step is one call of the operation's trait methods: a one-shot call    *)
(* (encrypt, decrypt, sign, verify), an update call or a final call.  The  *)
(* table Allowed lists, for each phase and kind of call, the phase the     *)
(* operation may be left in and whether the call may return OK.  Any call  *)
(* may fail; only the listed ones may succeed.                             *)
(***************************************************************************)

VARIABLES
  phase,   \* Fresh, Running or Done
  kind,    \* kind of the last call: none, oneshot, update or final
  result   \* OK or Err: outcome of the last call

vars == <<phase, kind, result>>

Phases == {"Fresh", "Running", "Done"}
Kinds  == {"none", "oneshot", "update", "final"}
Results == {"OK", "Err"}

(***************************************************************************)
(* <<from, kind, to, may succeed>>.                                        *)
(* A one-shot call runs only on a Fresh operation; it either leaves it     *)
(* Fresh (a length query, or a buffer too small) or finishes it.  The      *)
(* first update starts it; a mechanism that is one-shot only rejects the  *)
(* update.  A final call finishes a Running operation.  A Done operation   *)
(* rejects every call.                                                     *)
(***************************************************************************)
Allowed ==
  { <<"Fresh",   "oneshot", "Fresh",   TRUE>>,
    <<"Fresh",   "oneshot", "Done",    TRUE>>,
    <<"Running", "oneshot", "Running", FALSE>>,
    <<"Fresh",   "update",  "Running", TRUE>>,
    <<"Fresh",   "update",  "Fresh",   FALSE>>,
    <<"Fresh",   "update",  "Done",    FALSE>>,
    <<"Running", "update",  "Running", TRUE>>,
    <<"Fresh",   "final",   "Fresh",   FALSE>>,
    <<"Fresh",   "final",   "Done",    FALSE>>,
    <<"Running", "final",   "Done",    TRUE>> }
  \cup { <<"Done", k, "Done", FALSE>> : k \in Kinds \ {"none"} }

Init ==
  /\ phase = "Fresh"
  /\ kind = "none"
  /\ result = "OK"

Call ==
  \E t \in Allowed :
    /\ t[1] = phase
    /\ kind' = t[2]
    /\ phase' = t[3]
    /\ result' \in IF t[4] THEN Results ELSE {"Err"}

Next == Call

Spec == Init /\ [][Next]_vars

TypeOK ==
  /\ phase \in Phases
  /\ kind \in Kinds
  /\ result \in Results

=============================================================================
