-------------------------- MODULE EscrowProperties --------------------------
(***************************************************************************)
(* What must hold of an escrow instance, over every order of calls.        *)
(***************************************************************************)
EXTENDS Escrow

Funders == {i \in Investors : contribution[i] > 0}

Closed == fundingCloseSnapshot # NoSnapshot

-----------------------------------------------------------------------------
(* Safety invariants *)

(* The funding-close snapshot tells how funding ended: absent while the    *)
(* escrow is open or cancelled, present once it is funded or withdrawn,    *)
(* and present whenever settle has run.  Every writer of the status and    *)
(* every closing path (deposit, batch, lowered target, early close) has to *)
(* agree on it.                                                            *)
SnapshotTracksStatus ==
    /\ status \in {0, 4} => ~Closed
    /\ status \in {1, 3} => Closed
    /\ settledAt # Absent => Closed /\ status = 2

(* The denominator of every payout is the funded amount and stays it: no   *)
(* deposit, refund or target change after the close moves either number.   *)
SnapshotPinsFunding ==
    Closed => /\ fundingCloseSnapshot.totalPrincipal = fundedAmount
              /\ fundingCloseSnapshot.fundingTarget = fundingTarget

(* Custody: until the round ends in settlement or withdrawal, the tokens   *)
(* the escrow holds and those released to the SME cover every investor's   *)
(* recorded contribution.                                                  *)
PrincipalBacked ==
    status \in {0, 1, 4} => balance + releasedAmount >= principal

(* The liability accounting the sweep floor relies on: nothing is counted  *)
(* as distributed that was not funded, a funded escrow has distributed     *)
(* what it released, a withdrawn one everything, and a cancelled one still *)
(* has room for every refund it owes.                                      *)
DistributionAccounted ==
    /\ releasedAmount <= distributedPrincipal
    /\ distributedPrincipal <= fundedAmount
    /\ status = 1 => distributedPrincipal = releasedAmount
    /\ status = 3 => distributedPrincipal = fundedAmount
    /\ status \in {0, 4} => distributedPrincipal + principal <= fundedAmount

(* UniqueFunderCount, kept by increments and a saturating decrement, is    *)
(* the number of investors that are in the round; a refund leaves it.      *)
FunderCountExact ==
    uniqueFunderCount = Cardinality({i \in Investors : contribution[i] > 0 \/ refunded[i]})

(* The investor index, which the paginated views and the rent plan read,   *)
(* serves them: every funder is found through it, and it does not outgrow  *)
(* the round.  Leaving and coming back adds an entry each time and nothing *)
(* ever shortens it, but each entry has cost its investor a unit of the    *)
(* funding still possible.                                                 *)
InvestorIndexSound ==
    /\ \A i \in Funders : \E k \in DOMAIN investorIndex : investorIndex[k] = i
    /\ Len(investorIndex) <= fundedAmount
    /\ status = 0 => Len(investorIndex) <= fundingTarget

(* The caps hold for the recorded positions at all times, though they are  *)
(* checked on deposits only and moved while the round is open.             *)
CapsRespected ==
    /\ maxUniqueInvestors # Absent => Cardinality(Funders) <= maxUniqueInvestors
    /\ maxPerInvestor # Absent => \A i \in Investors : contribution[i] <= maxPerInvestor

(* An investor who claimed was paid exactly what compute_investor_payout   *)
(* still answers, and nobody else was paid: no double payment, and no      *)
(* later change of the payout already made.                                *)
PaidExactlyOnce ==
    \A i \in Investors : paid[i] = IF claimed[i] THEN InvestorPayout(i) ELSE 0

(* No investor leaves through both doors: a refund of a cancelled round    *)
(* and a payout of a settled one exclude each other.                       *)
NoRefundAndPayout == \A i \in Investors : ~(claimed[i] /\ refunded[i])

(* The payouts a settled round still owes and has made stay within the     *)
(* settlement pool, though the pool is computed at the base yield and the  *)
(* payouts at the yields of the tiers.                                     *)
PayoutsWithinPool ==
    Closed => SumFunction([i \in Investors |-> InvestorPayout(i)]) <= SettlementPool

(* What the reconciliation view calls surplus is what a sweep of a         *)
(* cancelled escrow can take, though either works it out by itself: a      *)
(* sweep goes through if and only if what it takes is within the surplus.  *)
ReconciliationMatchesSweep ==
    status = 4 /\ ~legalHold /\ ~disputeActive =>
        \A amount \in 1..MaxDustSweep :
            Sweepable(amount) <=> Swept(amount) \in 1..Surplus

(* The history variable principal is the sum it stands for. *)
PrincipalIsSum == principal = SumFunction(contribution)

-----------------------------------------------------------------------------
(* Action properties *)

(* From the close on, no call moves what an investor is entitled to: not   *)
(* the snapshot, the contribution, the yield or the base yield behind it.  *)
EntitlementFrozen ==
    [][Closed => /\ fundingCloseSnapshot' = fundingCloseSnapshot
                 /\ \A i \in Investors : InvestorPayout(i)' = InvestorPayout(i)]_vars

(* A pause stops every entry its scope names: no deposit lands under       *)
(* "funding", no settlement under "settlement", no claim under "claims",   *)
(* and the SME gets nothing under "withdrawal", instalments included.      *)
PauseStopsEntries ==
    [][/\ PausedBlocks("funding") => principal' <= principal
       /\ PausedBlocks("settlement") => settledAt' = settledAt
       /\ PausedBlocks("claims") => paid' = paid
       /\ PausedBlocks("withdrawal") /\ status = 1 =>
             distributedPrincipal' = distributedPrincipal]_vars

(* While a dispute is open no token leaves the escrow, save what release   *)
(* pays, which does not look at the dispute.                               *)
DisputeFreezesExits ==
    [][disputeActive => balance' >= balance \/ releasedAmount' > releasedAmount]_vars

(* While the allowlist is active, only listed investors add principal, by  *)
(* whichever of the three deposit entrypoints.                             *)
AllowlistGatesDeposits ==
    [][allowlistActive =>
          \A i \in Investors : contribution'[i] > contribution[i] => i \in allowlisted]_vars

(* While a legal hold is active no token leaves the escrow, save refunds   *)
(* of a cancelled round, which the code leaves open.  The treasury's sweep *)
(* of a cancelled round is stopped like every other exit.                  *)
HoldFreezesFunds ==
    [][legalHold => balance' >= balance \/ refunded' # refunded]_vars

(* A commitment is kept by both sides: while an investor stays in, no      *)
(* top-up or change of terms touches the lock and the yield of the first   *)
(* deposit, and no claim is paid before that lock has expired.             *)
CommitmentKept ==
    [][\A i \in Funders :
          /\ contribution'[i] > 0 => /\ claimNotBefore'[i] = claimNotBefore[i]
                                     /\ effectiveYield'[i] = effectiveYield[i]
          /\ paid'[i] # paid[i] => now >= claimNotBefore[i]]_vars

(* The claimable-payout view repeats status, hold, lock and single payment *)
(* in code of its own, and looks at neither the claims pause nor the       *)
(* dispute.  A claim pays what the view answered just before; and while    *)
(* neither of the two stands, the view answers the entitlement when the    *)
(* gates of the claim let the investor pass, and 0 when they do not.       *)
ClaimPaysTheView ==
    [][\A i \in Investors :
          /\ paid'[i] # paid[i] => paid'[i] - paid[i] = ClaimablePayout(i)
          /\ ~disputeActive /\ ~PausedBlocks("claims") =>
                ClaimablePayout(i) = IF Claimable(i) THEN InvestorPayout(i) ELSE 0]_vars

(* A funding window that has lapsed stays lapsed: nothing is deposited and *)
(* no extension revives it.                                                *)
LapsedStaysLapsed ==
    [][fundingDeadline # Absent /\ now > fundingDeadline =>
          principal' <= principal /\ fundingDeadline' = fundingDeadline]_vars

-----------------------------------------------------------------------------
(* Liveness, for callers who keep calling *)

Unobstructed == ~legalHold /\ ~disputeActive /\ ~PausedActive

(* Investors keep asking for their refund or claim, the SME keeps trying   *)
(* to settle, and ledgers keep closing.                                    *)
Diligence ==
    /\ WF_vars(Tick /\ UNCHANGED <<gateVars, escrowVars>>)
    /\ WF_vars(Settle /\ UNCHANGED <<now, gateVars>>)
    /\ \A i \in Investors :
          /\ WF_vars(Refund(i) /\ UNCHANGED <<now, gateVars>>)
          /\ WF_vars(Claim(i) /\ UNCHANGED <<now, gateVars>>)

FairSpec == Spec /\ Diligence

(* A round that stays cancelled with no dispute in the way pays back all   *)
(* principal: the balance never falls short of a refund.                   *)
RefundsComplete ==
    <>[](status = 4 /\ ~disputeActive) => <>[](principal = 0)

(* A funded escrow that nothing obstructs does not stay funded: maturity   *)
(* comes, and then settlement is possible.                                 *)
FundedEventuallyLeaves ==
    <>[]Unobstructed => (status = 1 ~> status # 1)

(* What the unclaimed payouts of the round add up to. *)
Owed == SumFunction([i \in Investors |-> IF claimed[i] THEN 0 ELSE InvestorPayout(i)])

(* A settled round that stays unobstructed and solvent pays every funder:  *)
(* those whose lock runs on after the settlement wait no longer than for   *)
(* it, and no payout is too small to be made.                              *)
ClaimsComplete ==
    <>[](status = 2 /\ Closed /\ Unobstructed /\ balance >= Owed)
        => <>[](\A i \in Funders : claimed[i])

=============================================================================
