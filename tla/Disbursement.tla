---------------------------- MODULE Disbursement ----------------------------
(***************************************************************************)
(* The ways out of the funding round: settlement and investor claims,      *)
(* release and withdrawal to the SME, cancellation and refunds, the        *)
(* treasury's dust sweep, and the final close.                             *)
(***************************************************************************)
EXTENDS EscrowState

(* settle: the SME finalizes a funded escrow at or after maturity. *)
Settle ==
    /\ ~PausedBlocks("settlement")
    /\ ~legalHold
    /\ ~disputeActive
    /\ status = 1
    /\ MaturityReached
    /\ status' = 2
    /\ settledAt' = now
    /\ UNCHANGED <<fundedAmount, termVars, positionVars, flowVars,
                   fundingCloseSnapshot, closed, balance>>

\* Mutant: instalments already released are not deducted.
RemainingGross == fundedAmount

(* What release and withdraw still owe the SME. *)
Remaining == fundedAmount - releasedAmount

(* release: the admin pays the SME in instalments, the last of which       *)
(* withdraws the escrow.  Any active pause blocks it, whatever its scope;  *)
(* a dispute does not.                                                     *)
Release(amount) ==
    /\ amount \in 1..Remaining
    /\ ~PausedActive
    /\ ~legalHold
    /\ status = 1
    /\ releasedAmount' = releasedAmount + amount
    /\ distributedPrincipal' = distributedPrincipal + amount
    /\ status' = IF amount = Remaining THEN 3 ELSE 1
    /\ PayOut(amount)
    /\ UNCHANGED <<fundedAmount, termVars, positionVars, fundingCloseSnapshot,
                   settledAt, closed>>

(* withdraw: the SME takes what is left, the protocol fee going to the     *)
(* treasury out of the same amount.  releasedAmount stays as it was.       *)
Withdraw ==
    /\ ~PausedBlocks("withdrawal")
    /\ ~legalHold
    /\ ~disputeActive
    /\ status = 1
    /\ balance >= Remaining
    /\ status' = 3
    /\ distributedPrincipal' = distributedPrincipal + Remaining
    /\ LET fee == ProtocolFee(Remaining, protocolFeeBps)
           net == Remaining - fee
       IN  balance' = balance - (fee + net)
    /\ UNCHANGED <<fundedAmount, termVars, positionVars, releasedAmount,
                   fundingCloseSnapshot, settledAt, closed>>

\* Mutant: a repeated claim goes through.
ClaimableAgain(i) ==
    /\ ~PausedBlocks("claims") /\ ~legalHold /\ ~disputeActive
    /\ contribution[i] > 0 /\ status = 2 /\ now >= claimNotBefore[i]

(* The gates of a claim.  A repeated claim returns without effect. *)
Claimable(i) ==
    /\ ~PausedBlocks("claims")
    /\ ~legalHold
    /\ ~disputeActive
    /\ contribution[i] > 0
    /\ status = 2
    /\ now >= claimNotBefore[i]
    /\ ~claimed[i]

(* claim_investor_payout *)
Claim(i) ==
    /\ Claimable(i)
    /\ PayOut(InvestorPayout(i))
    /\ claimed' = [claimed EXCEPT ![i] = TRUE]
    /\ paid' = [paid EXCEPT ![i] = @ + InvestorPayout(i)]
    /\ UNCHANGED <<status, fundedAmount, termVars, contribution, yieldVars, refunded,
                   funderVars, principal, flowVars, fundingCloseSnapshot, settledAt, closed>>

\* Mutant: a funded escrow may be cancelled too.
CancelFundingLate ==
    /\ ~legalHold
    /\ status \in {0, 1}
    /\ status' = 4
    /\ UNCHANGED <<fundedAmount, termVars, positionVars, flowVars,
                   fundingCloseSnapshot, settledAt, closed, balance>>

(* cancel_funding: a dispute does not block it. *)
CancelFunding ==
    /\ ~legalHold
    /\ status = 0
    /\ status' = 4
    /\ UNCHANGED <<fundedAmount, termVars, positionVars, flowVars,
                   fundingCloseSnapshot, settledAt, closed, balance>>

\* Mutants: any terminal status will do; a dispute will do.
RefundOpenTerminal == ~disputeActive /\ IsTerminal(status)

RefundOpenDisputed == status = 4

(* A dispute blocks refunds, a legal hold does not. *)
RefundOpen == ~disputeActive /\ status = 4

(* What refund_impl does for the investors of S, who are owed amount. *)
ReturnPrincipal(S, amount) ==
    /\ RefundOpen
    /\ \A i \in S : contribution[i] > 0
    /\ contribution' = [i \in Investors |-> IF i \in S THEN 0 ELSE contribution[i]]
    /\ refunded' = [i \in Investors |-> i \in S \/ refunded[i]]
    /\ distributedPrincipal' = distributedPrincipal + amount
    /\ PayOut(amount)
    /\ principal' = principal - amount
    /\ UNCHANGED <<status, fundedAmount, termVars, yieldVars, claimed, paid, funderVars,
                   releasedAmount, fundingCloseSnapshot, settledAt, closed>>

Refund(i) == ReturnPrincipal({i}, contribution[i])

\* Mutant: an entry that comes twice is paid twice.
RefundBatchRepeated(i, j) ==
    /\ ~refunded[i] /\ ~refunded[j]
    /\ ReturnPrincipal({i, j}, contribution[i] + contribution[j])

(* refund_batch with two entries.  Entries already refunded are skipped,   *)
(* which leaves a shorter batch; any other failing entry reverts all.      *)
RefundBatch(i, j) ==
    /\ i # j
    /\ ~refunded[i] /\ ~refunded[j]
    /\ ReturnPrincipal({i, j}, contribution[i] + contribution[j])

\* Mutant: instalments and refunds already made still count as owed.
SurplusGross == balance - fundedAmount

(* The surplus get_reconciliation reports, negative in a deficit. *)
Surplus ==
    LET outstanding == fundedAmount - distributedPrincipal
    IN  balance - (IF outstanding > 0 THEN outstanding ELSE 0)

(* What a sweep of amount takes: no more than there is.                    *)
Swept(amount) == IF amount < balance THEN amount ELSE balance

\* Mutant: a cancelled escrow is exempt from the hold, as its refunds are.
SweepableUnderHold(amount) ==
    /\ legalHold => status = 4
    /\ ~disputeActive
    /\ amount \in 1..MaxDustSweep
    /\ IsTerminal(status)
    /\ Swept(amount) > 0
    /\ status = 4 => balance - Swept(amount) >= fundedAmount - distributedPrincipal

(* The conditions of a sweep.  A cancelled escrow keeps a liability floor. *)
Sweepable(amount) ==
    /\ ~legalHold
    /\ ~disputeActive
    /\ amount \in 1..MaxDustSweep
    /\ IsTerminal(status)
    /\ Swept(amount) > 0
    /\ status = 4 => balance - Swept(amount) >= fundedAmount - distributedPrincipal

(* sweep_terminal_dust: the treasury takes what lies in a terminal escrow. *)
(* The last write sets the status to settled, whichever terminal status it *)
(* was.                                                                    *)
SweepTerminalDust(amount) ==
    /\ Sweepable(amount)
    /\ PayOut(Swept(amount))
    /\ status' = 2
    /\ UNCHANGED <<fundedAmount, termVars, positionVars, flowVars,
                   fundingCloseSnapshot, settledAt, closed>>

(* close_escrow: the flag is written and never read by another entrypoint. *)
CloseEscrow ==
    /\ ~closed
    /\ balance = 0
    /\ ~legalHold
    /\ closed' = TRUE
    /\ UNCHANGED <<status, fundedAmount, termVars, positionVars, flowVars,
                   fundingCloseSnapshot, settledAt, balance>>

DisbursementNext ==
    \/ Settle
    \/ \E amount \in 1..Remaining : Release(amount)
    \/ Withdraw
    \/ \E i \in Investors : Claim(i) \/ Refund(i)
    \/ \E i, j \in Investors : RefundBatch(i, j)
    \/ CancelFunding
    \/ \E amount \in 1..MaxDustSweep : SweepTerminalDust(amount)
    \/ CloseEscrow

=============================================================================
