--------------------------- MODULE AdminHandover ----------------------------
(***************************************************************************)
(* The two-step transfer of the admin role: InvoiceEscrow.admin and the    *)
(* pending proposal (DataKey::PendingAdmin, PendingAdminExpiry).  Which    *)
(* signature an entrypoint takes is its parameter, since here it matters.  *)
(***************************************************************************)
EXTENDS LedgerClock

CONSTANTS
    Addresses,            \* addresses that sign as admin or as nominee
    Nobody,               \* no proposal is pending
    FirstAdmin,           \* init's admin argument
    Windows               \* validity windows proposals are made with

ASSUME HandoverAssumption ==
    /\ FirstAdmin \in Addresses
    /\ Nobody \notin Addresses
    /\ Windows \subseteq Nat

VARIABLES
    admin,                \* InvoiceEscrow.admin
    pendingAdmin,         \* DataKey::PendingAdmin, or Nobody
    pendingExpiry,        \* DataKey::PendingAdminExpiry, or Absent
    grant                 \* history: the last proposal that was made

roleVars == <<admin, pendingAdmin, pendingExpiry>>
handoverVars == <<now, roleVars, grant>>

Grants == [by : Addresses, to : Addresses, until : Nat]

NoGrant == [by |-> FirstAdmin, to |-> FirstAdmin, until |-> 0]

HandoverInit ==
    /\ LedgerInit
    /\ admin = FirstAdmin
    /\ pendingAdmin = Nobody
    /\ pendingExpiry = Absent
    /\ grant = NoGrant

\* Mutant: a proposal that replaces another keeps the older expiry.
ProposeAdminKeepingExpiry(signer, nominee, window) ==
    /\ signer = admin
    /\ nominee # admin /\ nominee # pendingAdmin
    /\ pendingAdmin' = nominee
    /\ pendingExpiry' = IF pendingExpiry = Absent THEN now + window ELSE pendingExpiry
    /\ grant' = [by |-> signer, to |-> nominee, until |-> now + window]
    /\ UNCHANGED admin

(* propose_admin; transfer_admin is the same with the default window.  A   *)
(* pending proposal to somebody else is replaced, with a new expiry; one   *)
(* to the same address is refused, even when it has expired.               *)
ProposeAdmin(signer, nominee, window) ==
    /\ signer = admin
    /\ nominee # admin
    /\ nominee # pendingAdmin
    /\ pendingAdmin' = nominee
    /\ pendingExpiry' = now + window
    /\ grant' = [by |-> signer, to |-> nominee, until |-> now + window]
    /\ UNCHANGED admin

DropProposal ==
    /\ pendingAdmin' = Nobody
    /\ pendingExpiry' = Absent

AcceptAdmin(signer) ==
    /\ pendingAdmin # Nobody
    /\ now <= pendingExpiry
    /\ signer = pendingAdmin
    /\ admin' = pendingAdmin
    /\ DropProposal
    /\ UNCHANGED grant

CancelPendingAdmin(signer) ==
    /\ signer = admin
    /\ pendingAdmin # Nobody
    /\ DropProposal
    /\ UNCHANGED <<admin, grant>>

(* recover_admin: only once the nominee can no longer accept. *)
RecoverAdmin(signer) ==
    /\ signer = admin
    /\ pendingAdmin # Nobody
    /\ now > pendingExpiry
    /\ DropProposal
    /\ UNCHANGED <<admin, grant>>

HandoverNext ==
    \/ /\ \E signer \in Addresses :
            \/ \E nominee \in Addresses, window \in Windows :
                  ProposeAdmin(signer, nominee, window)
            \/ AcceptAdmin(signer)
            \/ CancelPendingAdmin(signer)
            \/ RecoverAdmin(signer)
       /\ UNCHANGED now
    \/ Tick /\ UNCHANGED <<roleVars, grant>>

HandoverSpec == HandoverInit /\ [][HandoverNext]_handoverVars

-----------------------------------------------------------------------------
HandoverTypeOK ==
    /\ now \in Nat
    /\ admin \in Addresses
    /\ pendingAdmin \in Addresses \cup {Nobody}
    /\ pendingExpiry \in OptionalNat
    /\ grant \in Grants

(* A pending proposal is the last one the present admin made, to somebody  *)
(* else, with the expiry it was given: proposals that were superseded,     *)
(* cancelled, recovered or made by a former admin leave nothing behind.    *)
PendingIsCurrent ==
    pendingAdmin # Nobody =>
        grant = [by |-> admin, to |-> pendingAdmin, until |-> pendingExpiry]
        /\ pendingAdmin # admin

(* The role changes hands only to whom its holder last proposed, within    *)
(* the window of that proposal.                                            *)
HandoverByConsent ==
    [][admin' # admin =>
          grant.by = admin /\ grant.to = admin' /\ now <= grant.until]_handoverVars

=============================================================================
