------------------------------ MODULE Dispute -------------------------------
(***************************************************************************)
(* The dispute freeze: DataKey::DisputeActive and DataKey::DisputeRecord.  *)
(* Both entrypoints take the admin's authorization.                        *)
(***************************************************************************)
EXTENDS LedgerClock

VARIABLES
    disputeActive,        \* guard_not_disputed reads this flag
    disputeRecord         \* the last record written

disputeVars == <<disputeActive, disputeRecord>>

NoDispute == [state |-> "none", openedAt |-> Absent, resolvedAt |-> Absent]

DisputeRecords ==
    [state : {"none", "open", "resolved"},
     openedAt : OptionalNat, resolvedAt : OptionalNat]

DisputeInit ==
    /\ disputeActive = FALSE
    /\ disputeRecord = NoDispute

(* open_dispute writes a fresh record over whatever was there. *)
OpenDispute ==
    /\ ~disputeActive
    /\ disputeActive' = TRUE
    /\ disputeRecord' = [state |-> "open", openedAt |-> now, resolvedAt |-> Absent]

(* close_dispute(resolved = true).  With resolved = false the entrypoint   *)
(* returns without writing anything.                                       *)
CloseDispute ==
    /\ disputeActive
    /\ disputeActive' = FALSE
    /\ disputeRecord' = [disputeRecord EXCEPT !.state = "resolved", !.resolvedAt = now]

DisputeNext == OpenDispute \/ CloseDispute

DisputeTypeOK ==
    /\ disputeActive \in BOOLEAN
    /\ disputeRecord \in DisputeRecords

=============================================================================
