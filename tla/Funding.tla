------------------------------ MODULE Funding -------------------------------
(***************************************************************************)
(* Principal in, and principal back out while the escrow is open: fund,    *)
(* fund_with_commitment, fund_batch, unfund, and partial_settle, which     *)
(* closes funding early.                                                   *)
(***************************************************************************)
EXTENDS EscrowState

\* Mutant: the amount is added once.
CreditOnce(amount) == amount

(* What one deposit adds to funded_amount: fund_impl adds the amount once  *)
(* before the authorization checks and once more with the storage writes.  *)
Credit(amount) == 2 * amount

\* Mutants: deposits into a funded escrow; deposits under a pause.
FundingOpenLate ==
    /\ ~PausedBlocks("funding") /\ ~legalHold /\ status \in {0, 1}
    /\ fundingDeadline # Absent => now <= fundingDeadline

FundingOpenPaused ==
    /\ ~legalHold /\ status = 0
    /\ fundingDeadline # Absent => now <= fundingDeadline

(* The conditions of fund_impl that do not depend on the entry. *)
FundingOpen ==
    /\ ~PausedBlocks("funding")
    /\ ~legalHold
    /\ status = 0
    /\ fundingDeadline # Absent => now <= fundingDeadline

(* prev == 0 in the code: a deposit on a contribution of 0 counts as a     *)
(* first one, even when the investor has been in before.                   *)
IsFirst(i) == contribution[i] = 0

\* Mutant: the cap is applied to the deposit, not to the position.
AdmissibleDeposit(i, amount, count) ==
    /\ amount > 0 /\ amount >= minContributionFloor /\ MayFund(i)
    /\ maxPerInvestor # Absent => amount <= maxPerInvestor
    /\ IsFirst(i) /\ maxUniqueInvestors # Absent => count < maxUniqueInvestors

(* The conditions on one entry, when count funders are already recorded. *)
Admissible(i, amount, count) ==
    /\ amount > 0
    /\ amount >= minContributionFloor
    /\ MayFund(i)
    /\ maxPerInvestor # Absent => contribution[i] + amount <= maxPerInvestor
    /\ IsFirst(i) /\ maxUniqueInvestors # Absent => count < maxUniqueInvestors

(* What the deposit of i adds to the count and to the index. *)
FunderIncrement(i) == IF IsFirst(i) THEN 1 ELSE 0

IndexEntry(i) == IF IsFirst(i) THEN <<i>> ELSE <<>>

(* funded_amount after a deposit, and the close it may bring about. *)
CreditFunding(newFunded) ==
    /\ fundedAmount' = newFunded
    /\ IF newFunded >= fundingTarget
       THEN CloseFunding(newFunded, fundingTarget)
       ELSE UNCHANGED <<status, fundingCloseSnapshot>>

\* Mutant: a later deposit rewrites the commitment.
RecordFundersAlways(S, yield, notBefore) ==
    /\ effectiveYield' = [i \in Investors |-> IF i \in S THEN yield ELSE effectiveYield[i]]
    /\ claimNotBefore' = [i \in Investors |->
          IF i \in S THEN notBefore ELSE claimNotBefore[i]]

(* The per-investor writes: yield and claim lock are fixed by the first    *)
(* deposit.                                                                *)
RecordFunders(S, yield, notBefore) ==
    /\ effectiveYield' = [i \in Investors |->
          IF i \in S /\ IsFirst(i) THEN yield ELSE effectiveYield[i]]
    /\ claimNotBefore' = [i \in Investors |->
          IF i \in S /\ IsFirst(i) THEN notBefore ELSE claimNotBefore[i]]

Deposit(i, amount, yield, notBefore) ==
    /\ FundingOpen
    /\ Admissible(i, amount, uniqueFunderCount)
    /\ CreditFunding(fundedAmount + Credit(amount))
    /\ contribution' = [contribution EXCEPT ![i] = @ + amount]
    /\ RecordFunders({i}, yield, notBefore)
    /\ uniqueFunderCount' = uniqueFunderCount + FunderIncrement(i)
    /\ investorIndex' = investorIndex \o IndexEntry(i)
    /\ PayIn(amount)
    /\ principal' = principal + amount
    /\ UNCHANGED <<termVars, exitVars, flowVars, settledAt, closed>>

Fund(i, amount) == Deposit(i, amount, yieldBps, 0)

(* First deposit only; the committed lock may not outlast the maturity the *)
(* escrow has at this moment.                                              *)
FundWithCommitment(i, amount, lock) ==
    LET notBefore == IF lock = 0 THEN 0 ELSE now + lock
    IN  /\ IsFirst(i)
        /\ notBefore > 0 /\ maturity > 0 => notBefore <= maturity
        /\ \E y \in QualifyingYields(YieldTiers, yieldBps, lock) :
              /\ IsBestYield(y, YieldTiers, yieldBps, lock)
              /\ Deposit(i, amount, y, notBefore)

(* fund_batch with two entries.  Each entry is a fund call on the state    *)
(* the one before left, and one failing entry reverts all: in particular   *)
(* the target may be reached by the last entry only.  A longer batch ends  *)
(* where a sequence of such calls ends, so two entries are enough.         *)
FundBatch(i, a, j, b) ==
    /\ i # j
    /\ FundingOpen
    /\ Admissible(i, a, uniqueFunderCount)
    /\ Admissible(j, b, uniqueFunderCount + FunderIncrement(i))
    /\ fundedAmount + Credit(a) < fundingTarget
    /\ CreditFunding(fundedAmount + Credit(a) + Credit(b))
    /\ contribution' = [contribution EXCEPT ![i] = contribution[i] + a,
                                               ![j] = contribution[j] + b]
    /\ RecordFunders({i, j}, yieldBps, 0)
    /\ uniqueFunderCount' = uniqueFunderCount + FunderIncrement(i) + FunderIncrement(j)
    /\ investorIndex' = investorIndex \o IndexEntry(i) \o IndexEntry(j)
    /\ PayIn(a + b)
    /\ principal' = principal + a + b
    /\ UNCHANGED <<termVars, exitVars, flowVars, settledAt, closed>>

\* Mutant: the counter is never decremented.
OneFewerForgotten(count) == count

(* The saturating decrement of UniqueFunderCount. *)
OneFewer(count) == IF count > 0 THEN count - 1 ELSE 0

(* unfund: the investor index and the recorded yield stay behind. *)
Unfund(i, amount) ==
    /\ status = 0
    /\ ~legalHold
    /\ ~disputeActive
    /\ amount \in 1..contribution[i]
    /\ fundedAmount' = fundedAmount - amount
    /\ contribution' = [contribution EXCEPT ![i] = @ - amount]
    /\ uniqueFunderCount' =
          IF contribution[i] = amount THEN OneFewer(uniqueFunderCount) ELSE uniqueFunderCount
    /\ PayOut(amount)
    /\ principal' = principal - amount
    /\ UNCHANGED <<status, termVars, yieldVars, exitVars, investorIndex, flowVars,
                   fundingCloseSnapshot, settledAt, closed>>

(* partial_settle, by the SME or the admin: nothing needs to be funded. *)
PartialSettle ==
    /\ ~legalHold
    /\ ~disputeActive
    /\ status = 0
    /\ CloseFunding(fundedAmount, fundingTarget)
    /\ UNCHANGED <<fundedAmount, termVars, positionVars, flowVars, settledAt, closed, balance>>

FundingNext ==
    \/ \E i \in Investors, a \in Amounts : Fund(i, a) \/ Unfund(i, a)
    \/ \E i \in Investors, a \in Amounts, lock \in Times : FundWithCommitment(i, a, lock)
    \/ \E i, j \in Investors, a, b \in Amounts : FundBatch(i, a, j, b)
    \/ PartialSettle

=============================================================================
