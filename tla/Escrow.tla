------------------------------- MODULE Escrow -------------------------------
(***************************************************************************)
(* One LiquifactEscrow instance from init on.  Every invocation is one     *)
(* Soroban transaction: it takes effect as a whole or not at all, so an    *)
(* entrypoint is one action and a panic is a disabled one.  Who may call   *)
(* is settled by require_auth; the actions stand for authorized calls.     *)
(***************************************************************************)
EXTENDS Funding, FundingTerms, Disbursement

CONSTANT Families         \* the entrypoint families this instance exercises

ASSUME FamiliesAssumption ==
    Families \subseteq {"hold", "dispute", "pause", "allowlist", "terms", "transfer"}

Init ==
    /\ LedgerInit
    /\ HoldInit
    /\ DisputeInit
    /\ PauseInit
    /\ AllowInit
    /\ EscrowInit

(* A token transfer to the contract's address outside its entrypoints: the *)
(* SME's repayment arrives this way, and so does any stray token.          *)
ReceiveTransfer(amount) ==
    /\ balance + amount <= MaxBalance
    /\ balance' = balance + amount
    /\ UNCHANGED <<status, fundedAmount, termVars, positionVars, flowVars,
                   fundingCloseSnapshot, settledAt, closed>>

EscrowNext ==
    \/ FundingNext
    \/ "terms" \in Families /\ TermsNext
    \/ DisbursementNext
    \/ "transfer" \in Families /\ \E amount \in Amounts : ReceiveTransfer(amount)

GateNext ==
    \/ "hold" \in Families /\ HoldNext /\ UNCHANGED <<disputeVars, pauseVars, allowVars>>
    \/ "dispute" \in Families /\ DisputeNext /\ UNCHANGED <<holdVars, pauseVars, allowVars>>
    \/ "pause" \in Families /\ PauseNext /\ UNCHANGED <<holdVars, disputeVars, allowVars>>
    \/ "allowlist" \in Families /\ AllowNext /\ UNCHANGED <<holdVars, disputeVars, pauseVars>>

Next ==
    \/ EscrowNext /\ UNCHANGED <<now, gateVars>>
    \/ GateNext /\ UNCHANGED <<now, escrowVars>>
    \/ Tick /\ UNCHANGED <<gateVars, escrowVars>>

Spec == Init /\ [][Next]_vars

-----------------------------------------------------------------------------
GateTypeOK ==
    /\ now \in Nat
    /\ HoldTypeOK /\ DisputeTypeOK /\ PauseTypeOK
    /\ allowlistActive \in BOOLEAN /\ allowlisted \subseteq Investors

EscrowTypeOK ==
    /\ status \in 0..4
    /\ fundedAmount \in Int /\ fundingTarget \in Nat
    /\ yieldBps \in Bps /\ maturity \in Nat
    /\ fundingDeadline \in OptionalNat /\ minContributionFloor \in Nat
    /\ maxPerInvestor \in OptionalNat /\ maxUniqueInvestors \in OptionalNat
    /\ maturityMaxHorizon \in Nat /\ protocolFeeBps \in Bps
    /\ contribution \in [Investors -> Nat]
    /\ effectiveYield \in [Investors -> Bps \cup {Absent}]
    /\ claimNotBefore \in [Investors -> Nat]
    /\ claimed \in [Investors -> BOOLEAN] /\ refunded \in [Investors -> BOOLEAN]
    /\ uniqueFunderCount \in Nat
    /\ investorIndex \in Seq(Investors)
    /\ fundingCloseSnapshot \in Snapshots \cup {NoSnapshot}
    /\ releasedAmount \in Int /\ distributedPrincipal \in Int
    /\ settledAt \in OptionalNat /\ closed \in BOOLEAN
    /\ balance \in Nat
    /\ principal \in Int /\ paid \in [Investors -> Nat]

(* The amounts are i128 in the code, hence integers; what the token        *)
(* contract keeps is never negative.  The allowlist index is left out.     *)
TypeOK == GateTypeOK /\ EscrowTypeOK

=============================================================================
