---------------------------- MODULE HoldTimelock ----------------------------
(***************************************************************************)
(* The promise of the two-phase clear, over the legal hold's own calls and *)
(* the passing of time: a hold stands for at least the clear delay.        *)
(***************************************************************************)
EXTENDS LegalHold

VARIABLE heldSince        \* history: when the hold was last set, or Absent

timelockVars == <<now, holdVars, heldSince>>

TimelockInit ==
    /\ LedgerInit
    /\ HoldInit
    /\ heldSince = Absent

(* heldSince follows the last call that set the hold. *)
TimelockNext ==
    \/ /\ \/ SetLegalHold(TRUE) /\ heldSince' = now
          \/ SetLegalHold(FALSE) /\ UNCHANGED heldSince
          \/ RequestClearLegalHold /\ UNCHANGED heldSince
          \/ ClearLegalHoldAfterDelay /\ UNCHANGED heldSince
          \/ CancelClearLegalHold /\ UNCHANGED heldSince
       /\ UNCHANGED now
    \/ Tick /\ UNCHANGED <<holdVars, heldSince>>

TimelockSpec == TimelockInit /\ [][TimelockNext]_timelockVars

TimelockTypeOK ==
    /\ now \in Nat
    /\ HoldTypeOK
    /\ heldSince \in OptionalNat

(* A clear request that is pending under a hold was made under that hold:  *)
(* it cannot have matured sooner than the delay after the hold was set.    *)
(* set_legal_hold has to drop older requests for this.                     *)
RequestFollowsHold ==
    /\ legalHold => heldSince \in 0..now
    /\ legalHold /\ clearableAt # Absent => clearableAt >= heldSince + ClearDelay

(* No sequence of the four entrypoints lifts a hold before the delay has   *)
(* passed since it was last set, neither through the timed clear nor       *)
(* through set_legal_hold(false).                                          *)
TimelockServed ==
    [][legalHold /\ ~legalHold' => now >= heldSince + ClearDelay]_timelockVars

=============================================================================
