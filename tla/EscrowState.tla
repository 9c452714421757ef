---------------------------- MODULE EscrowState -----------------------------
(***************************************************************************)
(* The storage of one escrow instance, what init writes into it, and the   *)
(* predicates and views several entrypoints share.  Status codes are the   *)
(* contract's: 0 open, 1 funded, 2 settled, 3 withdrawn, 4 cancelled.      *)
(***************************************************************************)
EXTENDS LegalHold, Dispute, OperationalPause, Allowlist, Payout, Functions

CONSTANTS
    Terms,                \* records of init arguments an instance starts from
    YieldTiers,           \* DataKey::YieldTierTable, immutable after init
    NoSnapshot,           \* the funding-close snapshot is not written
    Amounts,              \* token amounts callers deposit, take back or transfer
    Targets,              \* funding targets update_funding_target is called with
    Caps,                 \* values the investor caps and the floor are moved to
    Times,                \* timestamps and durations callers pass
    Yields,               \* base yields update_yield_bps is called with
    MaxDustSweep,         \* MAX_DUST_SWEEP_AMOUNT, scaled down
    MaxBalance            \* bound on stray transfers, for model checking only

(* The arguments of init; an optional one that is not given is Absent. *)
InitTerms ==
    [target : Nat, yieldBps : Int, feeBps : Int, maturity : Nat, horizon : Nat,
     floor : Nat, deadline : OptionalNat, maxPer : OptionalNat, maxUnique : OptionalNat]

Snapshots == [totalPrincipal : Int, fundingTarget : Nat]

ASSUME EscrowAssumption ==
    /\ Terms \subseteq InitTerms
    /\ YieldTiers \in Seq([minLock : Nat, yieldBps : Bps])
    /\ NoSnapshot \notin Snapshots
    /\ Amounts \subseteq Nat \ {0}
    /\ Targets \subseteq Nat /\ Caps \subseteq Nat
    /\ Times \subseteq Nat
    /\ Yields \subseteq Bps
    /\ MaxDustSweep \in Nat \ {0}

VARIABLES
    \* InvoiceEscrow
    status, fundedAmount, fundingTarget, yieldBps, maturity,
    \* limits written by init and moved by admin calls
    fundingDeadline, minContributionFloor, maxPerInvestor, maxUniqueInvestors,
    maturityMaxHorizon, protocolFeeBps,
    \* per-investor entries
    contribution, effectiveYield, claimNotBefore, claimed, refunded,
    uniqueFunderCount, investorIndex,
    \* close, release and settlement records
    fundingCloseSnapshot, releasedAmount, distributedPrincipal, settledAt, closed,
    \* the escrow's funding-token balance, kept by the token contract
    balance,
    \* history: the sum of contributions, and what claims have paid out
    principal, paid

limitVars == <<fundingDeadline, minContributionFloor, maxPerInvestor,
               maxUniqueInvestors, maturityMaxHorizon, protocolFeeBps>>
termVars == <<fundingTarget, yieldBps, maturity, limitVars>>
yieldVars == <<effectiveYield, claimNotBefore>>
funderVars == <<uniqueFunderCount, investorIndex>>
exitVars == <<claimed, refunded, paid>>
flowVars == <<releasedAmount, distributedPrincipal>>
positionVars == <<contribution, yieldVars, exitVars, funderVars, principal>>
escrowVars == <<status, fundedAmount, termVars, positionVars, flowVars,
                fundingCloseSnapshot, settledAt, closed, balance>>
gateVars == <<holdVars, disputeVars, pauseVars, allowVars>>
vars == <<now, gateVars, escrowVars>>

(* validate_maturity_bounds *)
MaturityInBounds(time, horizon) ==
    time = 0 \/ (now <= time /\ time <= now + horizon)

(* The checks of init on its arguments. *)
ValidTerms(t) ==
    /\ t.target > 0
    /\ t.yieldBps \in Bps
    /\ t.feeBps \in Bps
    /\ ValidTiers(YieldTiers, t.yieldBps)
    /\ MaturityInBounds(t.maturity, t.horizon)
    /\ t.floor \in 0..t.target
    /\ t.maxPer # Absent => t.maxPer > 0
    /\ t.maxUnique # Absent => t.maxUnique > 0
    /\ t.deadline # Absent => /\ t.deadline > now
                              /\ t.maturity > 0 => t.deadline < t.maturity

(* What init stores. *)
EscrowInit ==
    /\ \E t \in Terms :
        /\ ValidTerms(t)
        /\ fundingTarget = t.target
        /\ yieldBps = t.yieldBps
        /\ maturity = t.maturity
        /\ fundingDeadline = t.deadline
        /\ minContributionFloor = t.floor
        /\ maxPerInvestor = t.maxPer
        /\ maxUniqueInvestors = t.maxUnique
        /\ maturityMaxHorizon = t.horizon
        /\ protocolFeeBps = t.feeBps
    /\ status = 0
    /\ fundedAmount = 0
    /\ contribution = [i \in Investors |-> 0]
    /\ effectiveYield = [i \in Investors |-> Absent]
    /\ claimNotBefore = [i \in Investors |-> 0]
    /\ claimed = [i \in Investors |-> FALSE]
    /\ refunded = [i \in Investors |-> FALSE]
    /\ uniqueFunderCount = 0
    /\ investorIndex = <<>>
    /\ fundingCloseSnapshot = NoSnapshot
    /\ releasedAmount = 0
    /\ distributedPrincipal = 0
    /\ settledAt = Absent
    /\ closed = FALSE
    /\ balance = 0
    /\ principal = 0
    /\ paid = [i \in Investors |-> 0]

(* is_terminal_status *)
IsTerminal(s) == s \in 2..4

\* Mutant: no maturity counts as a maturity that never comes.
MaturityReachedStrict == maturity > 0 /\ now >= maturity

(* is_maturity_reached; settle inlines the same test. *)
MaturityReached == maturity = 0 \/ now >= maturity

\* Mutant: no snapshot below the target.
CloseFundingBare(amount, target) ==
    /\ status' = 1
    /\ fundingCloseSnapshot' =
          IF amount < target THEN fundingCloseSnapshot
          ELSE [totalPrincipal |-> amount, fundingTarget |-> target]

(* The snapshot is written when funding closes, unless it already exists.  *)
(* Its timestamp and sequence are recorded for indexers only.              *)
CloseFunding(amount, target) ==
    /\ status' = 1
    /\ fundingCloseSnapshot' =
          IF fundingCloseSnapshot # NoSnapshot THEN fundingCloseSnapshot
          ELSE [totalPrincipal |-> amount, fundingTarget |-> target]

(* compute_investor_payout: on the snapshot's principal, at the yield the  *)
(* investor was given on the first deposit.                                *)
InvestorPayout(i) ==
    IF fundingCloseSnapshot = NoSnapshot THEN 0
    ELSE GrossPayout(contribution[i], fundingCloseSnapshot.totalPrincipal,
                     IF effectiveYield[i] = Absent THEN yieldBps ELSE effectiveYield[i])

(* get_settlement_pool: at the escrow's base yield. *)
SettlementPool ==
    IF fundingCloseSnapshot = NoSnapshot \/ fundingCloseSnapshot.totalPrincipal <= 0 THEN 0
    ELSE SettlePool(fundingCloseSnapshot.totalPrincipal, yieldBps)

\* Mutant: the lock is taken to expire a second later.
ClaimablePayoutLate(i) ==
    IF status = 2 /\ ~legalHold /\ ~claimed[i] /\ now > claimNotBefore[i]
    THEN InvestorPayout(i)
    ELSE 0

(* get_claimable_payout *)
ClaimablePayout(i) ==
    IF status = 2 /\ ~legalHold /\ ~claimed[i] /\ now >= claimNotBefore[i]
    THEN InvestorPayout(i)
    ELSE 0

\* Mutants: the balance is not checked; the transfer costs a token more.
PayOutUnchecked(amount) ==
    /\ amount > 0
    /\ balance' = balance - amount

PayOutWithToll(amount) ==
    /\ amount > 0
    /\ balance >= amount
    /\ balance' = balance - amount - 1

(* Leaving tokens: the outbound transfer verifies that the escrow holds    *)
(* the amount and that exactly it has moved.                               *)
PayOut(amount) ==
    /\ amount > 0
    /\ balance >= amount
    /\ balance' = balance - amount

(* Arriving tokens: the inbound transfer verifies that exactly the amount  *)
(* has moved.  What the investor holds is the investor's business.         *)
PayIn(amount) ==
    /\ amount > 0
    /\ balance' = balance + amount

=============================================================================
