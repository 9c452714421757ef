----------------------------- MODULE LegalHold ------------------------------
(***************************************************************************)
(* The compliance hold and its two-phase clear: DataKey::LegalHold and     *)
(* DataKey::LegalHoldClearableAt.  The clear delay is written by init and  *)
(* by nothing else.  All entrypoints here take the admin's authorization.  *)
(***************************************************************************)
EXTENDS LedgerClock

CONSTANT ClearDelay       \* DataKey::LegalHoldClearDelay, 0 when unset

ASSUME ClearDelayAssumption == ClearDelay \in Nat

VARIABLES
    legalHold,            \* guard_not_legal_hold reads this flag
    clearableAt           \* earliest clear time, or Absent: no request

holdVars == <<legalHold, clearableAt>>

HoldInit ==
    /\ legalHold = FALSE
    /\ clearableAt = Absent

(* Both clearing paths wait for this: a request was made and has matured. *)
ClearIsDue ==
    /\ clearableAt # Absent
    /\ now >= clearableAt

\* Mutant: setting the hold leaves an older request pending.
SetLegalHoldKeeping(active) ==
    /\ (~active /\ legalHold /\ ClearDelay > 0) => ClearIsDue
    /\ legalHold' = active
    /\ clearableAt' = IF active THEN clearableAt ELSE Absent

(* set_legal_hold; clear_legal_hold is SetLegalHold(FALSE).  Any pending   *)
(* clear request is dropped, whichever way the flag is set.                *)
SetLegalHold(active) ==
    /\ (~active /\ legalHold /\ ClearDelay > 0) => ClearIsDue
    /\ legalHold' = active
    /\ clearableAt' = Absent

(* request_clear_legal_hold: accepted with or without an active hold, and  *)
(* a repeated request restarts the delay.                                  *)
RequestClearLegalHold ==
    /\ clearableAt' = now + ClearDelay
    /\ UNCHANGED legalHold

ClearLegalHoldAfterDelay ==
    /\ ClearIsDue
    /\ legalHold' = FALSE
    /\ clearableAt' = Absent

CancelClearLegalHold ==
    /\ clearableAt # Absent
    /\ clearableAt' = Absent
    /\ UNCHANGED legalHold

HoldNext ==
    \/ \E active \in BOOLEAN : SetLegalHold(active)
    \/ RequestClearLegalHold
    \/ ClearLegalHoldAfterDelay
    \/ CancelClearLegalHold

HoldTypeOK ==
    /\ legalHold \in BOOLEAN
    /\ clearableAt \in OptionalNat

=============================================================================
