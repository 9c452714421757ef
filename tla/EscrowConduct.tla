---------------------------- MODULE EscrowConduct ----------------------------
(***************************************************************************)
(* The action properties of the escrow: what a call may not do while a     *)
(* gate is shut, a window has lapsed or a commitment runs; and that every  *)
(* call is a step of the abstract funding round and of the two reduced     *)
(* escrows.  For all investors, amounts, terms and clocks.                 *)
(***************************************************************************)
EXTENDS EscrowSafety, EscrowRefinement

-----------------------------------------------------------------------------
(* What deposits do, in the terms of the properties below. *)

(* The step is a deposit call: the round takes deposits, whoever gains is  *)
(* let in, and nothing but the position of the round moves.                *)
DepositCall ==
    /\ FundingOpen
    /\ \A i \in Investors : contribution'[i] > contribution[i] => MayFund(i)
    /\ balance' >= balance
    /\ UNCHANGED <<termVars, exitVars, flowVars, settledAt>>

(* The recorded commitment of those who are in is not touched.             *)
CommitmentsStay ==
    \A i \in Funders : effectiveYield'[i] = effectiveYield[i]
                       /\ claimNotBefore'[i] = claimNotBefore[i]

(* Yield and lock are written on a first deposit only.                     *)
LEMMA RecordedOnce ==
    ASSUME NEW S, NEW yield, NEW notBefore, RecordFunders(S, yield, notBefore)
    PROVE  CommitmentsStay
<1> SUFFICES ASSUME NEW i \in Investors, contribution[i] > 0
             PROVE  effectiveYield'[i] = effectiveYield[i]
                    /\ claimNotBefore'[i] = claimNotBefore[i]
  BY DEF CommitmentsStay, Funders
<1>1. ~IsFirst(i)
  BY DEF IsFirst
<1> QED
  BY <1>1 DEF RecordFunders

(* A single deposit.                                                       *)
LEMMA DepositConduct ==
    ASSUME AllTypesOK, NEW i \in Investors, NEW a \in Nat, NEW y, NEW n, Deposit(i, a, y, n)
    PROVE  DepositCall /\ CommitmentsStay
<1>1. contribution \in [Investors -> Nat] /\ balance \in Nat
  BY DEF AllTypesOK, PositionTypeOK, RecordTypeOK
<1>2. /\ FundingOpen /\ MayFund(i)
      /\ contribution' = [contribution EXCEPT ![i] = contribution[i] + a]
      /\ balance' = balance + a
      /\ UNCHANGED <<termVars, exitVars, flowVars, settledAt>>
  BY DEF Deposit, Admissible, PayIn
<1>3. \A j \in Investors : contribution'[j] > contribution[j] => j = i
  BY <1>1, <1>2
<1>4. CommitmentsStay
  BY RecordedOnce DEF Deposit
<1> QED
  BY <1>1, <1>2, <1>3, <1>4 DEF DepositCall

(* A batch of two.                                                         *)
LEMMA FundBatchConduct ==
    ASSUME AllTypesOK, NEW i \in Investors, NEW j \in Investors, NEW a \in Nat, NEW b \in Nat,
           FundBatch(i, a, j, b)
    PROVE  DepositCall /\ CommitmentsStay
<1>1. contribution \in [Investors -> Nat] /\ balance \in Nat
  BY DEF AllTypesOK, PositionTypeOK, RecordTypeOK
<1>2. /\ FundingOpen /\ MayFund(i) /\ MayFund(j)
      /\ balance' = balance + (a + b)
      /\ UNCHANGED <<termVars, exitVars, flowVars, settledAt>>
  BY DEF FundBatch, Admissible, PayIn
<1>3. \A k \in Investors : k # i /\ k # j => contribution'[k] = contribution[k]
  <2>1. contribution' = [contribution EXCEPT ![i] = contribution[i] + a,
                                             ![j] = contribution[j] + b]
    BY DEF FundBatch
  <2> QED
    BY <1>1, <2>1
<1>4. \A k \in Investors : contribution'[k] > contribution[k] => k = i \/ k = j
  BY <1>1, <1>3
<1>5. CommitmentsStay
  BY RecordedOnce DEF FundBatch
<1> QED
  BY <1>1, <1>2, <1>4, <1>5 DEF DepositCall

(* The funding phase: a deposit, or investors leaving, or the early close. *)
LEMMA FundingConduct ==
    ASSUME AllTypesOK, FundingNext
    PROVE  /\ CommitmentsStay
           /\ \/ DepositCall
              \/ \E i \in Investors, a \in Amounts : Unfund(i, a)
              \/ PartialSettle
<1>0. Amounts \subseteq Nat
  BY EscrowAssumption
<1>1. ASSUME NEW i \in Investors, NEW a \in Amounts, Fund(i, a)
      PROVE  DepositCall /\ CommitmentsStay
  BY <1>0, <1>1, DepositConduct DEF Fund
<1>2. ASSUME NEW i \in Investors, NEW a \in Amounts, NEW lock \in Times,
             FundWithCommitment(i, a, lock)
      PROVE  DepositCall /\ CommitmentsStay
  <2>1. PICK y, n : Deposit(i, a, y, n)
    BY <1>2, Zenon DEF FundWithCommitment
  <2> QED
    BY <1>0, <2>1, DepositConduct
<1>3. ASSUME NEW i \in Investors, NEW j \in Investors, NEW a \in Amounts, NEW b \in Amounts,
             FundBatch(i, a, j, b)
      PROVE  DepositCall /\ CommitmentsStay
  BY <1>0, <1>3, FundBatchConduct
<1>4. ASSUME NEW i \in Investors, NEW a \in Amounts, Unfund(i, a)
      PROVE  CommitmentsStay
  BY <1>4 DEF Unfund, yieldVars, CommitmentsStay
<1>5. CASE PartialSettle
  BY <1>5 DEF PartialSettle, positionVars, yieldVars, CommitmentsStay
<1> QED
  BY <1>1, <1>2, <1>3, <1>4, <1>5 DEF FundingNext

-----------------------------------------------------------------------------
(* Who may add principal, and when *)

(* Every step outside the funding phase leaves contributions as they are   *)
(* or lower, and the recorded commitments as they are.                     *)
LEMMA OutsideFunding ==
    ASSUME AllTypesOK, [Next]_vars, ~FundingNext
    PROVE  /\ CommitmentsStay
           /\ principal' <= principal
           /\ \A i \in Investors : contribution'[i] <= contribution[i]
<1>1. contribution \in [Investors -> Nat] /\ principal \in Int
  BY DEF AllTypesOK, PositionTypeOK
<1>2. CASE UNCHANGED <<contribution, principal, yieldVars>>
  BY <1>1, <1>2 DEF CommitmentsStay, yieldVars
<1>3. CASE TermsNext
  BY <1>2, <1>3, TermsFrame DEF nonTermVars, positionVars
<1>4. CASE DisbursementNext
  <2>1. ASSUME NEW S \in SUBSET Investors, NEW amount \in Nat, ReturnPrincipal(S, amount)
        PROVE  /\ CommitmentsStay
               /\ principal' <= principal
               /\ \A i \in Investors : contribution'[i] <= contribution[i]
    <3>1. /\ contribution' = [i \in Investors |-> IF i \in S THEN 0 ELSE contribution[i]]
          /\ principal' = principal - amount
          /\ UNCHANGED yieldVars
      BY <2>1 DEF ReturnPrincipal
    <3>2. CommitmentsStay
      BY <3>1 DEF CommitmentsStay, yieldVars
    <3> QED
      BY <1>1, <3>1, <3>2
  <2>2. ASSUME NEW i \in Investors, Refund(i)
        PROVE  \E S \in SUBSET Investors, amount \in Nat : ReturnPrincipal(S, amount)
    BY <1>1, <2>2 DEF Refund
  <2>3. ASSUME NEW i \in Investors, NEW j \in Investors, RefundBatch(i, j)
        PROVE  \E S \in SUBSET Investors, amount \in Nat : ReturnPrincipal(S, amount)
    <3>1. contribution[i] + contribution[j] \in Nat /\ {i, j} \in SUBSET Investors
      BY <1>1
    <3> QED
      BY <2>3, <3>1 DEF RefundBatch
  <2>4. \/ UNCHANGED <<contribution, principal, yieldVars>>
        \/ \E i \in Investors : Refund(i)
        \/ \E i, j \in Investors : RefundBatch(i, j)
    BY <1>4 DEF DisbursementNext, Settle, Release, Withdraw, Claim, CancelFunding,
                SweepTerminalDust, CloseEscrow, positionVars
  <2> QED
    BY <1>2, <2>1, <2>2, <2>3, <2>4
<1>5. CASE \E amount \in Amounts : ReceiveTransfer(amount)
  BY <1>2, <1>5 DEF ReceiveTransfer, positionVars
<1>6. CASE UNCHANGED escrowVars
  BY <1>2, <1>6 DEF escrowVars, positionVars
<1> QED
  BY <1>3, <1>4, <1>5, <1>6, StepKinds

(* A step that is no deposit call adds no principal to anybody.            *)
LEMMA OnlyDepositsAdd ==
    ASSUME AllTypesOK, [Next]_vars, ~DepositCall
    PROVE  /\ principal' <= principal
           /\ \A i \in Investors : contribution'[i] <= contribution[i]
<1>1. contribution \in [Investors -> Nat] /\ principal \in Int
  BY DEF AllTypesOK, PositionTypeOK
<1>2. ASSUME NEW i \in Investors, NEW a \in Amounts, Unfund(i, a)
      PROVE  /\ principal' <= principal
             /\ \A j \in Investors : contribution'[j] <= contribution[j]
  <2>1. /\ a \in Nat
        /\ contribution' = [contribution EXCEPT ![i] = contribution[i] - a]
        /\ principal' = principal - a
    BY <1>2, EscrowAssumption DEF Unfund
  <2> QED
    BY <1>1, <2>1
<1>3. CASE PartialSettle
  BY <1>1, <1>3 DEF PartialSettle, positionVars
<1>4. CASE ~FundingNext
  BY <1>4, OutsideFunding
<1> QED
  BY <1>2, <1>3, <1>4, FundingConduct

(* While the allowlist is active, only listed investors add principal, by  *)
(* whichever of the three deposit entrypoints.                             *)
THEOREM AllowlistGates == Spec => AllowlistGatesDeposits
<1>1. BaseInv /\ [Next]_vars =>
        [allowlistActive =>
           \A i \in Investors : contribution'[i] > contribution[i] => i \in allowlisted]_vars
  <2> SUFFICES ASSUME BaseInv, [Next]_vars, allowlistActive,
                      NEW i \in Investors, contribution'[i] > contribution[i]
               PROVE  i \in allowlisted
    OBVIOUS
  <2>1. CASE DepositCall
    BY <2>1 DEF DepositCall, MayFund
  <2>2. CASE ~DepositCall
    <3>1. contribution'[i] <= contribution[i] /\ contribution[i] \in Nat
      BY <2>2, OnlyDepositsAdd DEF BaseInv, AllTypesOK, PositionTypeOK
    <3>2. contribution'[i] \in Nat
      BY TypesKept DEF BaseInv, AllTypesOK, PositionTypeOK
    <3> QED
      BY <3>1, <3>2
  <2> QED
    BY <2>1, <2>2
<1> QED
  BY <1>1, BaseInvariant, PTL DEF Spec, AllowlistGatesDeposits

(* Only an extension made in time moves the deadline.                      *)
LEMMA DeadlineMoves ==
    ASSUME [Next]_vars, fundingDeadline # Absent, ~(now <= fundingDeadline)
    PROVE  fundingDeadline' = fundingDeadline
<1>1. CASE FundingNext
  <2>1. \A i, a, y, n : Deposit(i, a, y, n) => fundingDeadline' = fundingDeadline
    BY DEF Deposit, termVars, limitVars
  <2> QED
    BY <1>1, <2>1, Zenon
       DEF FundingNext, Fund, Unfund, FundWithCommitment, FundBatch, PartialSettle,
           termVars, limitVars
<1>2. CASE TermsNext
  BY <1>2 DEF TermsNext, UpdateFundingTarget, UpdateMaturity, UpdateYieldBps, LimitsNext,
              LowerMaxUniqueInvestors, RaiseMaxUniqueInvestors, LowerMinContributionFloor,
              RaiseMaxPerInvestor, ExtendFundingDeadline, UpdateMaturityMaxHorizon,
              SetProtocolFeeBps, limitVars
<1>3. CASE DisbursementNext
  BY <1>3, DisbursementFrame DEF DisbursementEffect, termVars, limitVars
<1>4. CASE \E amount \in Amounts : ReceiveTransfer(amount)
  BY <1>4 DEF ReceiveTransfer, termVars, limitVars
<1>5. CASE UNCHANGED escrowVars
  BY <1>5 DEF escrowVars, termVars, limitVars
<1> QED
  BY <1>1, <1>2, <1>3, <1>4, <1>5, StepKinds

(* A funding window that has lapsed stays lapsed: nothing is deposited and *)
(* no extension revives it.                                                *)
THEOREM WindowStaysLapsed == Spec => LapsedStaysLapsed
<1>1. BaseInv /\ [Next]_vars =>
        [fundingDeadline # Absent /\ now > fundingDeadline =>
           principal' <= principal /\ fundingDeadline' = fundingDeadline]_vars
  <2> SUFFICES ASSUME BaseInv, [Next]_vars, fundingDeadline # Absent, now > fundingDeadline
               PROVE  principal' <= principal /\ fundingDeadline' = fundingDeadline
    OBVIOUS
  <2>1. now \in Int /\ fundingDeadline \in Int
    BY DEF BaseInv, AllTypesOK, TermTypeOK, OptionalNat, Absent
  <2>2. ~(now <= fundingDeadline)
    BY <2>1
  <2>3. ~DepositCall
    BY <2>2 DEF DepositCall, FundingOpen
  <2> QED
    BY <2>2, <2>3, DeadlineMoves, OnlyDepositsAdd DEF BaseInv
<1> QED
  BY <1>1, BaseInvariant, PTL DEF Spec, LapsedStaysLapsed

-----------------------------------------------------------------------------
(* Claims *)

(* Only a claim pays, and it pays the entitlement to its investor alone.   *)
LEMMA OnlyClaimsPay ==
    ASSUME BaseInv, [Next]_vars, NEW i \in Investors, paid'[i] # paid[i]
    PROVE  /\ Claimable(i)
           /\ paid'[i] = paid[i] + InvestorPayout(i)
<1>1. PICK j \in Investors : Claim(j)
  BY ExitFrame DEF exitVars
<1>2. paid \in [Investors -> Nat] /\ InvestorPayout(j) \in Int
  BY PayoutType DEF BaseInv, AllTypesOK, PositionTypeOK
<1>3. Claimable(j) /\ paid' = [paid EXCEPT ![j] = paid[j] + InvestorPayout(j)]
  BY <1>1 DEF Claim
<1>4. j = i
  BY <1>2, <1>3
<1> QED
  BY <1>2, <1>3, <1>4

(* Where neither the claims pause nor a dispute stands, the view answers   *)
(* as the gates of the claim do.  Whoever has no position is owed nothing. *)
LEMMA ViewFollowsGates ==
    ASSUME BaseInv, ~disputeActive, ~PausedBlocks("claims"), NEW i \in Investors
    PROVE  ClaimablePayout(i) = IF Claimable(i) THEN InvestorPayout(i) ELSE 0
<1>1. contribution[i] \in Nat
  BY DEF BaseInv, AllTypesOK, PositionTypeOK
<1>2. CASE contribution[i] > 0
  BY <1>2 DEF ClaimablePayout, Claimable
<1>3. CASE contribution[i] = 0
  <2>1. InvestorPayout(i) = 0
    BY <1>3 DEF InvestorPayout, GrossPayout
  <2> QED
    BY <1>3, <2>1 DEF ClaimablePayout, Claimable
<1> QED
  BY <1>1, <1>2, <1>3

(* A claim pays what the claimable-payout view answered just before, and   *)
(* the view answers as the gates of the claim do, save for the pause and   *)
(* the dispute, which it does not look at.                                 *)
THEOREM ViewIsPaid == Spec => ClaimPaysTheView
<1>1. ASSUME BaseInv, [Next]_vars, NEW i \in Investors, paid'[i] # paid[i]
      PROVE  paid'[i] - paid[i] = ClaimablePayout(i)
  <2>1. Claimable(i) /\ paid'[i] = paid[i] + InvestorPayout(i)
    BY <1>1, OnlyClaimsPay
  <2>2. ClaimablePayout(i) = InvestorPayout(i)
    BY <2>1 DEF Claimable, ClaimablePayout
  <2>3. paid[i] \in Nat /\ InvestorPayout(i) \in Int
    BY <1>1, PayoutType DEF BaseInv, AllTypesOK, PositionTypeOK
  <2> QED
    BY <2>1, <2>2, <2>3
<1>2. BaseInv /\ [Next]_vars =>
        [\A i \in Investors :
           /\ paid'[i] # paid[i] => paid'[i] - paid[i] = ClaimablePayout(i)
           /\ ~disputeActive /\ ~PausedBlocks("claims") =>
                 ClaimablePayout(i) = IF Claimable(i) THEN InvestorPayout(i) ELSE 0]_vars
  BY <1>1, ViewFollowsGates
<1> QED
  BY <1>2, BaseInvariant, PTL DEF Spec, ClaimPaysTheView

(* While an investor stays in, no call touches the lock and the yield of   *)
(* the first deposit, and no claim is paid before the lock has expired.    *)
THEOREM CommitmentIsKept == Spec => CommitmentKept
<1>1. BaseInv /\ [Next]_vars =>
        [\A i \in Funders :
           /\ contribution'[i] > 0 => /\ claimNotBefore'[i] = claimNotBefore[i]
                                      /\ effectiveYield'[i] = effectiveYield[i]
           /\ paid'[i] # paid[i] => now >= claimNotBefore[i]]_vars
  <2> SUFFICES ASSUME BaseInv, [Next]_vars, NEW i \in Funders
               PROVE  /\ claimNotBefore'[i] = claimNotBefore[i]
                      /\ effectiveYield'[i] = effectiveYield[i]
                      /\ paid'[i] # paid[i] => now >= claimNotBefore[i]
    OBVIOUS
  <2>1. CommitmentsStay
    BY FundingConduct, OutsideFunding DEF BaseInv
  <2>2. i \in Investors
    BY DEF Funders
  <2>3. paid'[i] # paid[i] => now >= claimNotBefore[i]
    BY <2>2, OnlyClaimsPay DEF Claimable
  <2> QED
    BY <2>1, <2>3 DEF CommitmentsStay
<1> QED
  BY <1>1, BaseInvariant, PTL DEF Spec, CommitmentKept

-----------------------------------------------------------------------------
(* Refunds *)

(* Whoever was refunded is out.                                            *)
RefundedAreOut == \A i \in Investors : refunded[i] => contribution[i] = 0

RoundInv == BaseInv /\ ExitsSplit /\ RefundedAreOut

(* A refund marks those it empties.                                        *)
LEMMA NewlyRefunded ==
    ASSUME [Next]_vars, NEW i \in Investors, refunded'[i], ~refunded[i]
    PROVE  contribution'[i] = 0
<1>1. CASE \E S, amount : ReturnPrincipal(S, amount)
  BY <1>1 DEF ReturnPrincipal
<1>2. CASE FundingNext
  <2>1. \A j, a, y, n : Deposit(j, a, y, n) => UNCHANGED exitVars
    BY DEF Deposit
  <2> QED
    BY <1>2, <2>1, Zenon DEF FundingNext, Fund, Unfund, FundWithCommitment, FundBatch,
                             PartialSettle, positionVars, exitVars
<1>3. CASE TermsNext
  BY <1>3, TermsFrame DEF nonTermVars, positionVars, exitVars
<1>4. CASE DisbursementNext
  BY <1>1, <1>4 DEF DisbursementNext, Settle, Release, Withdraw, Claim, Refund, RefundBatch,
              CancelFunding, SweepTerminalDust, CloseEscrow, positionVars, exitVars
<1>5. CASE \E amount \in Amounts : ReceiveTransfer(amount)
  BY <1>5 DEF ReceiveTransfer, positionVars, exitVars
<1>6. CASE UNCHANGED escrowVars
  BY <1>6 DEF escrowVars, positionVars, exitVars
<1> QED
  BY <1>2, <1>3, <1>4, <1>5, <1>6, StepKinds

(* Nobody comes back after a refund: the round is not open any more.       *)
LEMMA RefundedStayOut == RoundInv /\ [Next]_vars => RefundedAreOut'
<1> SUFFICES ASSUME RoundInv, [Next]_vars, NEW i \in Investors, refunded'[i]
             PROVE  contribution'[i] = 0
  BY DEF RefundedAreOut
<1>1. CASE ~refunded[i]
  BY <1>1, NewlyRefunded
<1>2. CASE refunded[i]
  <2>1. status # 0 /\ contribution[i] = 0
    BY <1>2 DEF RoundInv, ExitsSplit, RefundedAreOut
  <2>2. ~FundingNext
    BY <2>1, FundingFrame DEF RoundInv, BaseInv, FundingEffect
  <2>3. contribution'[i] <= contribution[i]
    BY <2>2, OutsideFunding DEF RoundInv, BaseInv
  <2>4. contribution'[i] \in Nat
    BY TypesKept DEF RoundInv, BaseInv, AllTypesOK, PositionTypeOK
  <2> QED
    BY <2>1, <2>3, <2>4
<1> QED
  BY <1>1, <1>2

(* The invariant of the refinement holds in every reachable state.         *)
LEMMA RoundInvariant == Spec => []RoundInv
<1>1. Init => RefundedAreOut
  BY DEF Init, EscrowInit, RefundedAreOut
<1>2. ExitInv => ExitsSplit
  BY DEF ExitInv
<1> QED
  BY <1>1, <1>2, BaseInvariant, ExitInvariant, RefundedStayOut, PTL DEF Spec, RoundInv

-----------------------------------------------------------------------------
(* The gates on tokens and on the flows *)

(* A payment out of the escrow passes one of these doors.                  *)
LEMMA TokensLeave ==
    ASSUME RoundInv, [Next]_vars, ~(balance' >= balance)
    PROVE  \/ ~legalHold /\ ~disputeActive
           \/ ~disputeActive /\ refunded' # refunded
           \/ ~legalHold /\ releasedAmount' > releasedAmount
<1> BaseInv
  BY DEF RoundInv
<1>1. balance \in Nat
  BY DEF BaseInv, AllTypesOK, RecordTypeOK
<1>2. balance' # balance
  BY <1>1
<1>3. CASE FundingNext
  <2>1. \E i \in Investors, a \in Amounts : Unfund(i, a)
    BY <1>2, <1>3, FundingConduct DEF DepositCall, PartialSettle, BaseInv
  <2> QED
    BY <2>1 DEF Unfund
<1>4. CASE TermsNext
  BY <1>2, <1>4, TermsFrame DEF nonTermVars
<1>5. CASE DisbursementNext
  <2>1. ASSUME NEW amount \in 1..Remaining, Release(amount)
        PROVE  ~legalHold /\ releasedAmount' > releasedAmount
    <3>1. releasedAmount \in Int /\ fundedAmount \in Int
      BY DEF BaseInv, AllTypesOK, RecordTypeOK
    <3>2. releasedAmount' = releasedAmount + amount /\ amount > 0 /\ amount \in Int /\ ~legalHold
      BY <2>1, <3>1 DEF Release, Remaining
    <3> QED
      BY <3>1, <3>2
  <2>2. ASSUME NEW i \in Investors, NEW j \in Investors, Refund(i) \/ RefundBatch(i, j)
        PROVE  ~disputeActive /\ refunded' # refunded
    <3>1. PICK S \in SUBSET Investors : i \in S /\ \E amount : ReturnPrincipal(S, amount)
      BY <2>2 DEF Refund, RefundBatch
    <3>2. ~disputeActive /\ contribution[i] > 0 /\ refunded'[i]
      BY <3>1 DEF ReturnPrincipal, RefundOpen
    <3>3. ~refunded[i]
      BY <3>2 DEF RoundInv, RefundedAreOut
    <3> QED
      BY <3>2, <3>3
  <2>3. ASSUME NEW i \in Investors, Claim(i)
        PROVE  ~legalHold /\ ~disputeActive
    BY <2>3 DEF Claim, Claimable
  <2>4. CASE Withdraw
    BY <2>4 DEF Withdraw
  <2>5. ASSUME NEW amount \in 1..MaxDustSweep, SweepTerminalDust(amount)
        PROVE  ~legalHold /\ ~disputeActive
    BY <2>5 DEF SweepTerminalDust, Sweepable
  <2>6. ~Settle /\ ~CancelFunding /\ ~CloseEscrow
    BY <1>2 DEF Settle, CancelFunding, CloseEscrow
  <2> QED
    BY <1>5, <2>1, <2>2, <2>3, <2>4, <2>5, <2>6 DEF DisbursementNext
<1>6. ASSUME NEW amount \in Amounts, ReceiveTransfer(amount)
      PROVE  FALSE
  <2>1. balance' = balance + amount /\ amount \in Nat
    BY <1>6, EscrowAssumption DEF ReceiveTransfer
  <2> QED
    BY <1>1, <2>1
<1>7. CASE UNCHANGED escrowVars
  BY <1>2, <1>7 DEF escrowVars
<1> QED
  BY <1>3, <1>4, <1>5, <1>6, <1>7, StepKinds

(* While a legal hold is active no token leaves the escrow, save refunds   *)
(* of a cancelled round: a sweep of one is stopped, too.                   *)
THEOREM HoldFreezes == Spec => HoldFreezesFunds
<1>1. RoundInv /\ [Next]_vars =>
        [legalHold => balance' >= balance \/ refunded' # refunded]_vars
  BY TokensLeave
<1> QED
  BY <1>1, RoundInvariant, PTL DEF Spec, HoldFreezesFunds

(* While a dispute is open no token leaves the escrow, save what release   *)
(* pays.                                                                   *)
THEOREM DisputeFreezes == Spec => DisputeFreezesExits
<1>1. RoundInv /\ [Next]_vars =>
        [disputeActive => balance' >= balance \/ releasedAmount' > releasedAmount]_vars
  BY TokensLeave
<1> QED
  BY <1>1, RoundInvariant, PTL DEF Spec, DisputeFreezesExits

(* Only settle writes the settlement time.                                 *)
LEMMA OnlySettleSettles ==
    ASSUME [Next]_vars, settledAt' # settledAt
    PROVE  Settle
<1>1. CASE FundingNext
  <2>1. \A i, a, y, n : Deposit(i, a, y, n) => UNCHANGED settledAt
    BY DEF Deposit
  <2> QED
    BY <1>1, <2>1 DEF FundingNext, Fund, Unfund, FundWithCommitment, FundBatch, PartialSettle
<1>2. CASE TermsNext
  BY <1>2, TermsFrame DEF nonTermVars
<1>3. CASE DisbursementNext
  BY <1>3 DEF DisbursementNext, Release, Withdraw, Claim, Refund, RefundBatch, ReturnPrincipal,
              CancelFunding, SweepTerminalDust, CloseEscrow
<1>4. CASE \E amount \in Amounts : ReceiveTransfer(amount)
  BY <1>4 DEF ReceiveTransfer
<1>5. CASE UNCHANGED escrowVars
  BY <1>5 DEF escrowVars
<1> QED
  BY <1>1, <1>2, <1>3, <1>4, <1>5, StepKinds

(* In a funded round, only releases and withdrawals distribute principal.  *)
LEMMA OnlySmeIsPaid ==
    ASSUME [Next]_vars, status = 1, distributedPrincipal' # distributedPrincipal
    PROVE  ~PausedBlocks("withdrawal")
<1>1. CASE FundingNext
  BY <1>1, FundingFrame DEF FundingNext, Fund, Unfund, FundWithCommitment, FundBatch,
                            PartialSettle, Deposit, FundingOpen
<1>2. CASE TermsNext
  BY <1>2, TermsFrame DEF nonTermVars, flowVars
<1>3. CASE DisbursementNext
  <2>1. \A S, amount : ~ReturnPrincipal(S, amount)
    BY DEF ReturnPrincipal, RefundOpen
  <2>2. (\E amount \in 1..Remaining : Release(amount)) \/ Withdraw
    BY <1>3, <2>1 DEF DisbursementNext, Settle, Claim, Refund, RefundBatch,
              CancelFunding, SweepTerminalDust, CloseEscrow, flowVars
  <2> QED
    BY <2>2 DEF Release, Withdraw, PausedBlocks
<1>4. CASE \E amount \in Amounts : ReceiveTransfer(amount)
  BY <1>4 DEF ReceiveTransfer, flowVars
<1>5. CASE UNCHANGED escrowVars
  BY <1>5 DEF escrowVars, flowVars
<1> QED
  BY <1>1, <1>2, <1>3, <1>4, <1>5, StepKinds

(* A pause stops every entry its scope names: deposits, settlement,        *)
(* claims, and in a funded round whatever pays the SME.                    *)
THEOREM PauseStops == Spec => PauseStopsEntries
<1>1. BaseInv /\ [Next]_vars =>
        [/\ PausedBlocks("funding") => principal' <= principal
         /\ PausedBlocks("settlement") => settledAt' = settledAt
         /\ PausedBlocks("claims") => paid' = paid
         /\ PausedBlocks("withdrawal") /\ status = 1 =>
               distributedPrincipal' = distributedPrincipal]_vars
  <2> SUFFICES ASSUME BaseInv, [Next]_vars
               PROVE  /\ PausedBlocks("funding") => principal' <= principal
                      /\ PausedBlocks("settlement") => settledAt' = settledAt
                      /\ PausedBlocks("claims") => paid' = paid
                      /\ PausedBlocks("withdrawal") /\ status = 1 =>
                            distributedPrincipal' = distributedPrincipal
    OBVIOUS
  <2>1. PausedBlocks("funding") => principal' <= principal
    BY OnlyDepositsAdd DEF DepositCall, FundingOpen, BaseInv
  <2>2. PausedBlocks("settlement") => settledAt' = settledAt
    BY OnlySettleSettles DEF Settle
  <2>3. PausedBlocks("claims") => paid' = paid
    BY ExitFrame DEF exitVars, Claim, Claimable
  <2>4. PausedBlocks("withdrawal") /\ status = 1 =>
           distributedPrincipal' = distributedPrincipal
    BY OnlySmeIsPaid
  <2> QED
    BY <2>1, <2>2, <2>3, <2>4
<1> QED
  BY <1>1, BaseInvariant, PTL DEF Spec, PauseStopsEntries

-----------------------------------------------------------------------------
(* The escrow implements the funding round *)

(* While the round is open, nobody has left through an exit.               *)
LEMMA OpenRound ==
    ASSUME RoundInv, status = 0
    PROVE  /\ roundPhase = "open"
           /\ roundStanding = [i \in Investors |-> IF contribution[i] > 0 THEN "in" ELSE "out"]
<1>1. ~Closed
  BY DEF RoundInv, BaseInv, SnapshotInv, SnapshotTracksStatus
<1>2. \A i \in Investors : ~claimed[i] /\ ~refunded[i]
  BY <1>1 DEF RoundInv, ExitsSplit
<1> QED
  BY <1>1, <1>2 DEF roundPhase, roundStanding, Closed

(* What leaves positions, exits and the close alone leaves the round.      *)
LEMMA QuietStep ==
    ASSUME UNCHANGED <<contribution, exitVars, fundingCloseSnapshot>>,
           status = 0 <=> status' = 0
    PROVE  UNCHANGED Round!roundVars
<1>1. UNCHANGED <<claimed, refunded>>
  BY DEF exitVars
<1> QED
  BY <1>1 DEF Round!roundVars, roundPhase, roundStanding

(* Whatever adds to positions in an open round, and perhaps closes it, is  *)
(* a step of those who are new.                                            *)
LEMMA JoinStep ==
    ASSUME RoundInv, RoundInv', status = 0, UNCHANGED exitVars,
           ClosesOn(fundedAmount', fundingTarget'),
           \A i \in Investors : contribution[i] > 0 => contribution'[i] > 0
    PROVE  Round!Join({i \in Investors : ~(contribution[i] > 0) /\ contribution'[i] > 0})
<1> DEFINE S == {i \in Investors : ~(contribution[i] > 0) /\ contribution'[i] > 0}
<1>1. /\ roundPhase = "open"
      /\ roundStanding = [i \in Investors |-> IF contribution[i] > 0 THEN "in" ELSE "out"]
  BY OpenRound
<1>2. \A i \in Investors : ~claimed'[i] /\ ~refunded'[i]
  BY DEF RoundInv, BaseInv, SnapshotInv, SnapshotTracksStatus, ExitsSplit, exitVars
<1>3. roundStanding' = [i \in Investors |-> IF contribution'[i] > 0 THEN "in" ELSE "out"]
  BY <1>2 DEF roundStanding
<1>4. roundStanding' = [i \in Investors |-> IF i \in S THEN "in" ELSE roundStanding[i]]
  BY <1>1, <1>3
<1>5. roundPhase' \in {"open", "closed"}
  <2>1. CASE UNCHANGED <<status, fundingCloseSnapshot>>
    BY <1>1, <2>1 DEF roundPhase
  <2>2. CASE status' = 1
    <3>1. Closed'
      BY <2>2 DEF RoundInv, BaseInv, SnapshotInv, SnapshotTracksStatus
    <3> QED
      BY <3>1 DEF roundPhase, Closed
  <2> QED
    BY <2>1, <2>2 DEF ClosesOn, CloseFunding
<1>6. \A i \in S : roundStanding[i] = "out"
  BY <1>1
<1> QED
  BY <1>1, <1>4, <1>5, <1>6 DEF Round!Join, Round!Move

(* Nobody is emptied by a deposit.                                         *)
LEMMA DepositsKeepIn ==
    ASSUME AllTypesOK, FundingNext, ~\E i \in Investors, a \in Amounts : Unfund(i, a)
    PROVE  \A i \in Investors : contribution[i] > 0 => contribution'[i] > 0
<1>0. contribution \in [Investors -> Nat] /\ Amounts \subseteq Nat
  BY EscrowAssumption DEF AllTypesOK, PositionTypeOK
<1>1. ASSUME NEW i \in Investors, NEW a \in Amounts, NEW y, NEW n, Deposit(i, a, y, n)
      PROVE  \A j \in Investors : contribution[j] > 0 => contribution'[j] > 0
  <2>1. a \in Nat /\ contribution' = [contribution EXCEPT ![i] = contribution[i] + a]
    BY <1>0, <1>1 DEF Deposit
  <2> QED
    BY <1>0, <2>1
<1>2. ASSUME NEW i \in Investors, NEW j \in Investors, NEW a \in Amounts, NEW b \in Amounts,
             FundBatch(i, a, j, b)
      PROVE  \A k \in Investors : contribution[k] > 0 => contribution'[k] > 0
  <2>1. /\ a \in Nat /\ b \in Nat /\ i # j
        /\ contribution' = [contribution EXCEPT ![i] = contribution[i] + a,
                                               ![j] = contribution[j] + b]
    BY <1>0, <1>2 DEF FundBatch
  <2> QED
    BY <1>0, <2>1
<1>3. CASE PartialSettle
  BY <1>3 DEF PartialSettle, positionVars
<1>4. ASSUME NEW i \in Investors, NEW a \in Amounts, Fund(i, a)
      PROVE  \A j \in Investors : contribution[j] > 0 => contribution'[j] > 0
  BY <1>1, <1>4 DEF Fund
<1>5. ASSUME NEW i \in Investors, NEW a \in Amounts, NEW lock \in Times,
             FundWithCommitment(i, a, lock)
      PROVE  \A j \in Investors : contribution[j] > 0 => contribution'[j] > 0
  <2>1. PICK y, n : Deposit(i, a, y, n)
    BY <1>5, Zenon DEF FundWithCommitment
  <2> QED
    BY <1>1, <2>1
<1> QED
  BY <1>2, <1>3, <1>4, <1>5 DEF FundingNext

(* An investor who takes all principal back leaves the round.              *)
LEMMA LeaveStep ==
    ASSUME RoundInv, RoundInv', NEW i \in Investors, NEW a \in Amounts, Unfund(i, a)
    PROVE  Round!Leave(i) \/ UNCHANGED Round!roundVars
<1>1. /\ contribution \in [Investors -> Nat] /\ a \in Nat
      /\ contribution' = [contribution EXCEPT ![i] = contribution[i] - a]
      /\ a <= contribution[i] /\ a > 0
      /\ status = 0 /\ status' = 0 /\ UNCHANGED exitVars
  BY EscrowAssumption
     DEF Unfund, PayOut, RoundInv, BaseInv, AllTypesOK, PositionTypeOK
<1>2. /\ roundPhase = "open" /\ roundPhase' = "open"
      /\ roundStanding = [j \in Investors |-> IF contribution[j] > 0 THEN "in" ELSE "out"]
  BY <1>1, OpenRound DEF Unfund, roundPhase
<1>3. \A j \in Investors : ~claimed'[j] /\ ~refunded'[j]
  BY <1>1 DEF RoundInv, BaseInv, SnapshotInv, SnapshotTracksStatus, ExitsSplit
<1>4. roundStanding' = [j \in Investors |-> IF contribution'[j] > 0 THEN "in" ELSE "out"]
  BY <1>3 DEF roundStanding
<1>5. \A j \in Investors : j # i => contribution'[j] = contribution[j]
  BY <1>1
<1>6. contribution'[i] = contribution[i] - a /\ contribution[i] > 0
  BY <1>1
<1>7. CASE contribution[i] - a > 0
  <2>1. roundStanding' = roundStanding
    BY <1>2, <1>4, <1>5, <1>6, <1>7
  <2> QED
    BY <1>2, <2>1 DEF Round!roundVars
<1>8. CASE ~(contribution[i] - a > 0)
  <2>1. roundStanding' = [j \in Investors |-> IF j \in {i} THEN "out" ELSE roundStanding[j]]
    BY <1>2, <1>4, <1>5, <1>6, <1>8
  <2>2. roundStanding[i] = "in"
    BY <1>2, <1>6
  <2> QED
    BY <1>2, <2>1, <2>2 DEF Round!Leave, Round!Move
<1> QED
  BY <1>7, <1>8

(* A claim pays an investor who is in, out of a closed round.              *)
LEMMA PayStep ==
    ASSUME RoundInv, NEW i \in Investors, Claim(i)
    PROVE  Round!Pay(i)
<1>1. /\ Closed /\ ~claimed[i] /\ claimed' = [claimed EXCEPT ![i] = TRUE]
      /\ UNCHANGED <<refunded, status, fundingCloseSnapshot>>
      /\ claimed \in [Investors -> BOOLEAN]
  BY ClaimedWhenClosed DEF RoundInv, BaseInv, AllTypesOK, PositionTypeOK
<1>2. contribution[i] > 0 /\ contribution' = contribution
  BY DEF Claim, Claimable
<1>3. \A j \in Investors : ~refunded[j]
  BY <1>1 DEF RoundInv, ExitsSplit
<1>4. roundPhase = "closed" /\ roundPhase' = roundPhase
  BY <1>1 DEF roundPhase, Closed
<1>5. roundStanding[i] = "in"
  BY <1>1, <1>2, <1>3 DEF roundStanding
<1>6. \A j \in Investors : claimed'[j] = IF j = i THEN TRUE ELSE claimed[j]
  BY <1>1
<1>7. roundStanding' = [j \in Investors |-> IF j \in {i} THEN "paid" ELSE roundStanding[j]]
  BY <1>1, <1>2, <1>6 DEF roundStanding
<1> QED
  BY <1>4, <1>5, <1>7 DEF Round!Pay, Round!Move

(* A refund repays investors who are in, out of a cancelled round.         *)
LEMMA RepayStep ==
    ASSUME RoundInv, NEW S \in SUBSET Investors, NEW amount, ReturnPrincipal(S, amount)
    PROVE  Round!Repay(S)
<1>1. /\ status = 4 /\ UNCHANGED <<status, fundingCloseSnapshot, claimed>>
      /\ \A i \in S : contribution[i] > 0
      /\ contribution' = [i \in Investors |-> IF i \in S THEN 0 ELSE contribution[i]]
      /\ refunded' = [i \in Investors |-> i \in S \/ refunded[i]]
  BY DEF ReturnPrincipal, RefundOpen
<1>2. ~Closed
  BY <1>1 DEF RoundInv, BaseInv, SnapshotInv, SnapshotTracksStatus
<1>3. \A i \in Investors : ~claimed[i] /\ ~claimed'[i]
  BY <1>1, <1>2 DEF RoundInv, ExitsSplit
<1>4. roundPhase = "cancelled" /\ roundPhase' = roundPhase
  BY <1>1, <1>2 DEF roundPhase, Closed
<1>5. \A i \in S : ~refunded[i]
  BY <1>1 DEF RoundInv, RefundedAreOut
<1>6. \A i \in S : roundStanding[i] = "in"
  BY <1>1, <1>3, <1>5 DEF roundStanding
<1>7. roundStanding' = [i \in Investors |-> IF i \in S THEN "repaid" ELSE roundStanding[i]]
  <2>1. roundStanding' = [i \in Investors |->
            IF refunded'[i] THEN "repaid" ELSE IF contribution'[i] > 0 THEN "in" ELSE "out"]
    BY <1>3 DEF roundStanding
  <2>2. roundStanding = [i \in Investors |->
            IF refunded[i] THEN "repaid" ELSE IF contribution[i] > 0 THEN "in" ELSE "out"]
    BY <1>3 DEF roundStanding
  <2> QED
    BY <1>1, <2>1, <2>2
<1> QED
  BY <1>4, <1>6, <1>7 DEF Round!Repay, Round!Move

(* A cancellation ends an open round.                                      *)
LEMMA CancelStep ==
    ASSUME RoundInv, CancelFunding
    PROVE  Round!Cancel
<1>1. /\ status = 0 /\ status' = 4
      /\ UNCHANGED <<contribution, claimed, refunded, fundingCloseSnapshot>>
  BY DEF CancelFunding, positionVars, exitVars
<1>2. ~Closed
  BY <1>1 DEF RoundInv, BaseInv, SnapshotInv, SnapshotTracksStatus
<1> QED
  BY <1>1, <1>2 DEF Round!Cancel, roundPhase, roundStanding, Closed

(* A call of the funding phase is a step of the round.                     *)
LEMMA FundingRounds ==
    ASSUME RoundInv, RoundInv', FundingNext
    PROVE  [Round!Next]_(Round!roundVars)
<1>1. CASE \E i \in Investors, a \in Amounts : Unfund(i, a)
  BY <1>1, LeaveStep DEF Round!Next
<1>2. CASE ~\E i \in Investors, a \in Amounts : Unfund(i, a)
  <2>1. /\ status = 0 /\ UNCHANGED <<termVars, exitVars>>
        /\ ClosesOn(fundedAmount', fundingTarget)
    BY FundingFrame DEF FundingEffect, RoundInv, BaseInv
  <2>2. ClosesOn(fundedAmount', fundingTarget')
    BY <2>1 DEF termVars
  <2>3. \A i \in Investors : contribution[i] > 0 => contribution'[i] > 0
    BY <1>2, DepositsKeepIn DEF RoundInv, BaseInv
  <2> QED
    BY <2>1, <2>2, <2>3, JoinStep DEF Round!Next
<1> QED
  BY <1>1, <1>2

(* A change of terms at most closes the round.                             *)
LEMMA TermsRounds ==
    ASSUME RoundInv, RoundInv', TermsNext
    PROVE  [Round!Next]_(Round!roundVars)
<1>1. /\ UNCHANGED <<contribution, exitVars>>
      /\ status # 0 => UNCHANGED <<status, fundingCloseSnapshot>>
      /\ ClosesOn(fundedAmount', fundingTarget')
  BY TermsFrame DEF nonTermVars, positionVars
<1>2. CASE status = 0
  <2>1. \A i \in Investors : contribution[i] > 0 => contribution'[i] > 0
    BY <1>1
  <2> QED
    BY <1>1, <1>2, <2>1, JoinStep DEF Round!Next
<1>3. CASE status # 0
  BY <1>1, <1>3, QuietStep
<1> QED
  BY <1>2, <1>3

(* A way out pays, repays or cancels, or is no matter of the round.        *)
LEMMA DisbursementRounds ==
    ASSUME RoundInv, DisbursementNext
    PROVE  [Round!Next]_(Round!roundVars)
<1>1. ASSUME NEW i \in Investors, Claim(i)
      PROVE  Round!Next
  BY <1>1, PayStep DEF Round!Next
<1>2. ASSUME NEW S \in SUBSET Investors, NEW amount, ReturnPrincipal(S, amount)
      PROVE  Round!Next
  BY <1>2, RepayStep DEF Round!Next
<1>3. ASSUME NEW i \in Investors, NEW j \in Investors, Refund(i) \/ RefundBatch(i, j)
      PROVE  Round!Next
  BY <1>2, <1>3 DEF Refund, RefundBatch
<1>4. CASE CancelFunding
  BY <1>4, CancelStep DEF Round!Next
<1>5. CASE Settle
  BY <1>5, QuietStep DEF Settle, positionVars
<1>6. CASE \E amount \in 1..Remaining : Release(amount)
  <2>1. /\ UNCHANGED <<contribution, exitVars, fundingCloseSnapshot>>
        /\ status = 1 /\ status' \in {1, 3}
    BY <1>6 DEF Release, positionVars
  <2> QED
    BY <2>1, QuietStep
<1>7. CASE Withdraw
  BY <1>7, QuietStep DEF Withdraw, positionVars
<1>8. CASE \E amount \in 1..MaxDustSweep : SweepTerminalDust(amount)
  <2>1. /\ UNCHANGED <<contribution, exitVars, fundingCloseSnapshot>>
        /\ status \in 2..4 /\ status' = 2
    BY <1>8 DEF SweepTerminalDust, Sweepable, IsTerminal, positionVars
  <2> QED
    BY <2>1, QuietStep
<1>9. CASE CloseEscrow
  BY <1>9, QuietStep DEF CloseEscrow, positionVars
<1> QED
  BY <1>1, <1>3, <1>4, <1>5, <1>6, <1>7, <1>8, <1>9 DEF DisbursementNext

(* Every call of the escrow is a step of the abstract funding round or     *)
(* leaves the round alone: nobody is paid and repaid, or either of them    *)
(* twice, nobody joins late, and the way the round ended is never revised. *)
THEOREM EscrowImplementsRound == Spec => ImplementsFundingRound
<1>1. Init => Round!Init
  BY DEF Init, EscrowInit, Round!Init, roundPhase, roundStanding
<1>2. RoundInv /\ RoundInv' /\ [Next]_vars => [Round!Next]_(Round!roundVars)
  <2> SUFFICES ASSUME RoundInv, RoundInv', [Next]_vars
               PROVE  [Round!Next]_(Round!roundVars)
    OBVIOUS
  <2>1. CASE \E amount \in Amounts : ReceiveTransfer(amount)
    BY <2>1, QuietStep DEF ReceiveTransfer, positionVars
  <2>2. CASE UNCHANGED escrowVars
    BY <2>2, QuietStep DEF escrowVars, positionVars
  <2> QED
    BY <2>1, <2>2, FundingRounds, TermsRounds, DisbursementRounds, StepKinds
<1> QED
  BY <1>1, <1>2, RoundInvariant, PTL DEF Spec, ImplementsFundingRound, Round!Spec

(* What the round promises its investors holds of the escrow: after the    *)
(* close every funder can only be paid, and once; after a cancellation     *)
(* only be repaid, and once, whatever sweeps and status writes come after. *)
THEOREM EndOfRoundIsFinal == Spec => Round!EndIsFinal
<1> DEFINE Final ==
        roundPhase # "open" =>
           /\ roundPhase' = roundPhase
           /\ \A i \in Investors :
                 roundStanding'[i] # roundStanding[i] =>
                    /\ roundStanding[i] = "in"
                    /\ roundStanding'[i] = IF roundPhase = "closed" THEN "paid" ELSE "repaid"
<1>1. Round!Next => Final
  <2> SUFFICES ASSUME Round!Next, roundPhase # "open"
               PROVE  Final
    OBVIOUS
  <2>1. ASSUME NEW S \in SUBSET Investors, NEW exit, NEW i \in Investors,
               Round!Move(S, "in", exit), roundStanding'[i] # roundStanding[i]
        PROVE  roundStanding[i] = "in" /\ roundStanding'[i] = exit
    BY <2>1 DEF Round!Move
  <2>2. CASE \E S \in SUBSET Investors : Round!Repay(S)
    BY <2>1, <2>2 DEF Round!Repay
  <2>3. CASE \E i \in Investors : Round!Pay(i)
    <3>1. PICK i \in Investors : Round!Pay(i)
      BY <2>3
    <3>2. {i} \in SUBSET Investors /\ Round!Move({i}, "in", "paid")
      BY <3>1 DEF Round!Pay
    <3> QED
      BY <2>1, <3>1, <3>2 DEF Round!Pay
  <2> QED
    BY <2>2, <2>3 DEF Round!Next, Round!Join, Round!Leave, Round!Cancel
<1> QED
  BY <1>1, EscrowImplementsRound, PTL DEF ImplementsFundingRound, Round!Spec, Round!EndIsFinal

-----------------------------------------------------------------------------
(* The escrow as its reduced copies show it *)

(* What a call does to the part of the escrow that settle looks at.        *)
EntryMove ==
    \/ UNCHANGED <<status, maturity, settledAt>>
    \/ /\ ~PausedBlocks("settlement") /\ ~legalHold /\ ~disputeActive
       /\ status = 1 /\ MaturityReached
       /\ status' = 2 /\ settledAt' = now /\ UNCHANGED maturity
    \/ status = 0 /\ status' \in {1, 4} /\ UNCHANGED <<maturity, settledAt>>
    \/ status = 0 /\ maturity' \in Times /\ UNCHANGED <<status, settledAt>>
    \/ status = 1 /\ status' = 3 /\ UNCHANGED <<maturity, settledAt>>
    \/ status \in 2..4 /\ status' = 2 /\ UNCHANGED <<maturity, settledAt>>

(* A change of terms moves the maturity of an open escrow, or closes it.   *)
LEMMA TermsEntry == TermsNext => EntryMove
<1> SUFFICES ASSUME TermsNext
             PROVE  EntryMove
  OBVIOUS
<1> USE DEF EntryMove, nonTermVars
<1>1. ASSUME NEW target \in Targets, UpdateFundingTarget(target)
      PROVE  EntryMove
  BY <1>1 DEF UpdateFundingTarget, CloseFunding
<1>2. ASSUME NEW time \in Times, UpdateMaturity(time), UNCHANGED <<status, nonTermVars>>
      PROVE  EntryMove
  BY <1>2 DEF UpdateMaturity
<1>3. ASSUME NEW yield \in Yields, UpdateYieldBps(yield), UNCHANGED <<status, nonTermVars>>
      PROVE  EntryMove
  BY <1>3 DEF UpdateYieldBps
<1>4. CASE UNCHANGED <<maturity, status, nonTermVars>>
  BY <1>4
<1> HIDE DEF EntryMove, nonTermVars
<1> QED
  BY <1>1, <1>2, <1>3, <1>4 DEF TermsNext

(* Every call of the escrow makes one of these moves.                      *)
LEMMA EntryMoves == BaseInv /\ EscrowNext => EntryMove
<1> SUFFICES ASSUME BaseInv, EscrowNext
             PROVE  EntryMove
  OBVIOUS
<1>1. CASE FundingNext
  <2>1. /\ status = 0 /\ UNCHANGED <<maturity, settledAt>>
        /\ UNCHANGED status \/ status' = 1
    BY <1>1, FundingFrame DEF BaseInv, FundingEffect, termVars, ClosesOn, CloseFunding
  <2> QED
    BY <2>1 DEF EntryMove
<1>2. CASE DisbursementNext
  <2>1. CASE Settle
    BY <2>1 DEF Settle, EntryMove, termVars
  <2>2. CASE ~Settle
    <3>1. /\ UNCHANGED <<maturity, settledAt>>
          /\ \/ UNCHANGED status
             \/ status = 1 /\ status' = 3
             \/ status = 0 /\ status' = 4
             \/ status \in 2..4 /\ status' = 2
      <4>1. UNCHANGED settledAt
        BY <1>2, <2>2 DEF DisbursementNext, Release, Withdraw, Claim, Refund, RefundBatch,
                          ReturnPrincipal, CancelFunding, SweepTerminalDust, CloseEscrow
      <4>2. ~(status = 1 /\ status' = 2)
        BY <1>2, <2>2 DEF DisbursementNext, Release, Withdraw, Claim, Refund, RefundBatch,
                          ReturnPrincipal, CancelFunding, SweepTerminalDust, Sweepable,
                          IsTerminal, CloseEscrow
      <4> QED
        BY <1>2, <4>1, <4>2, DisbursementFrame DEF DisbursementEffect, IsTerminal, termVars
    <3> QED
      BY <3>1 DEF EntryMove
  <2> QED
    BY <2>1, <2>2
<1>3. CASE \E amount \in Amounts : ReceiveTransfer(amount)
  BY <1>3 DEF ReceiveTransfer, EntryMove, termVars
<1> QED
  BY <1>1, <1>2, <1>3, TermsEntry DEF EscrowNext

(* One instance, before and after.                                         *)
Solo(entry) == [e \in {"escrow"} |-> entry]

(* Writing the one entry there is, a field of it or the whole.             *)
LEMMA SoloWrites ==
    ASSUME NEW entry
    PROVE  /\ Solo(entry)["escrow"] = entry
           /\ \A v : [Solo(entry) EXCEPT !["escrow"].status = v] =
                     Solo([entry EXCEPT !.status = v])
           /\ \A v : [Solo(entry) EXCEPT !["escrow"].maturity = v] =
                     Solo([entry EXCEPT !.maturity = v])
           /\ [Solo(entry) EXCEPT !["escrow"].blocked = ~@] =
                     Solo([entry EXCEPT !.blocked = ~entry.blocked])
           /\ [Solo(entry) EXCEPT !["escrow"] = Batch!Settled(@)] = Solo(Batch!Settled(entry))
<1>1. Solo(entry)["escrow"] = entry
  BY DEF Solo
<1>2. \A new : [Solo(entry) EXCEPT !["escrow"] = new] = Solo(new)
  BY DEF Solo
<1> HIDE DEF Solo
<1> QED
  BY <1>1, <1>2, Zenon

Entries == [status : Int, maturity : Int, settledAt : Int, blocked : BOOLEAN]

(* An entry that differs in one field, or in those a settlement writes, is *)
(* what those writes make of it.                                           *)
LEMMA EntryWrites ==
    ASSUME NEW old \in Entries, NEW new \in Entries, now \in Int
    PROVE  /\ /\ new.maturity = old.maturity /\ new.settledAt = old.settledAt
              /\ new.blocked = old.blocked
              => new = [old EXCEPT !.status = new.status]
           /\ /\ new.status = old.status /\ new.settledAt = old.settledAt
              /\ new.blocked = old.blocked
              => new = [old EXCEPT !.maturity = new.maturity]
           /\ /\ new.status = old.status /\ new.maturity = old.maturity
              /\ new.settledAt = old.settledAt
              => new = [old EXCEPT !.blocked = new.blocked]
           /\ /\ new.status = 2 /\ new.maturity = old.maturity
              /\ new.settledAt = now /\ new.blocked = old.blocked
              => new = Batch!Settled(old)
<1>1. ASSUME NEW e \in Entries, e.status = new.status, e.maturity = new.maturity,
             e.settledAt = new.settledAt, e.blocked = new.blocked
      PROVE  new = e
  BY <1>1 DEF Entries
<1>2. ASSUME new.maturity = old.maturity, new.settledAt = old.settledAt,
             new.blocked = old.blocked
      PROVE  new = [old EXCEPT !.status = new.status]
  <2> DEFINE e == [old EXCEPT !.status = new.status]
  <2>1. e \in Entries
    BY DEF Entries
  <2>2. /\ e.status = new.status /\ e.maturity = old.maturity
        /\ e.settledAt = old.settledAt /\ e.blocked = old.blocked
    BY DEF Entries
  <2> HIDE DEF e
  <2>3. new = e
    BY <1>1, <1>2, <2>1, <2>2
  <2> QED
    BY <2>3, Zenon DEF e
<1>3. ASSUME new.status = old.status, new.settledAt = old.settledAt,
             new.blocked = old.blocked
      PROVE  new = [old EXCEPT !.maturity = new.maturity]
  <2> DEFINE e == [old EXCEPT !.maturity = new.maturity]
  <2>1. e \in Entries
    BY DEF Entries
  <2>2. /\ e.status = old.status /\ e.maturity = new.maturity
        /\ e.settledAt = old.settledAt /\ e.blocked = old.blocked
    BY DEF Entries
  <2> HIDE DEF e
  <2>3. new = e
    BY <1>1, <1>3, <2>1, <2>2
  <2> QED
    BY <2>3, Zenon DEF e
<1>4. ASSUME new.status = old.status, new.maturity = old.maturity,
             new.settledAt = old.settledAt
      PROVE  new = [old EXCEPT !.blocked = new.blocked]
  <2> DEFINE e == [old EXCEPT !.blocked = new.blocked]
  <2>1. e \in Entries
    BY DEF Entries
  <2>2. /\ e.status = old.status /\ e.maturity = old.maturity
        /\ e.settledAt = old.settledAt /\ e.blocked = new.blocked
    BY DEF Entries
  <2> HIDE DEF e
  <2>3. new = e
    BY <1>1, <1>4, <2>1, <2>2
  <2> QED
    BY <2>3, Zenon DEF e
<1>5. ASSUME new.status = 2, new.maturity = old.maturity,
             new.settledAt = now, new.blocked = old.blocked
      PROVE  new = Batch!Settled(old)
  <2> DEFINE d == [old EXCEPT !.status = 2]
             e == [d EXCEPT !.settledAt = now]
  <2>1. /\ d \in Entries
        /\ d.status = 2 /\ d.maturity = old.maturity /\ d.blocked = old.blocked
    BY DEF Entries
  <2> HIDE DEF d
  <2>2. /\ e \in Entries
        /\ e.status = d.status /\ e.maturity = d.maturity
        /\ e.settledAt = now /\ e.blocked = d.blocked
    BY <2>1 DEF Entries
  <2> HIDE DEF e
  <2>3. new = e
    BY <1>1, <1>5, <2>1, <2>2
  <2> QED
    BY <2>3, Zenon DEF d, e, Batch!Settled
<1> QED
  BY <1>2, <1>3, <1>4, <1>5, Zenon

(* The fields of the copy are the escrow's.                                *)
EntryShows ==
    /\ batchEntry \in Entries
    /\ batchEntry.status = status /\ batchEntry.maturity = maturity
    /\ batchEntry.settledAt = settledAt
    /\ batchEntry.blocked <=> legalHold \/ disputeActive \/ PausedBlocks("settlement")

(* With the types of the escrow the copy has the types of an entry.        *)
LEMMA EntryFields == BaseInv => EntryShows
<1> SUFFICES ASSUME BaseInv PROVE EntryShows
  OBVIOUS
<1>1. status \in Int /\ maturity \in Int /\ settledAt \in Int
  BY DEF BaseInv, AllTypesOK, RecordTypeOK, TermTypeOK, OptionalNat, Absent
<1> DEFINE blocked == legalHold \/ disputeActive \/ PausedBlocks("settlement")
<1>2. blocked \in BOOLEAN
  BY Zenon
<1>3. batchEntry = [status |-> status, maturity |-> maturity, settledAt |-> settledAt,
                    blocked |-> blocked]
  BY DEF batchEntry
<1> HIDE DEF blocked
<1>4. batchEntry \in Entries
  BY <1>1, <1>2, <1>3 DEF Entries
<1>5. /\ batchEntry.status = status /\ batchEntry.maturity = maturity
      /\ batchEntry.settledAt = settledAt /\ batchEntry.blocked = blocked
  BY <1>3
<1> QED
  BY <1>4, <1>5 DEF blocked, EntryShows

(* The copy in the batch makes a step of its own for each of these moves.  *)
LEMMA EntryAlone ==
    ASSUME BaseInv, BaseInv', EntryMove, UNCHANGED <<now, gateVars>>
    PROVE  [Batch!BatchNext]_<<now, Batch!batchVars>>
<1> DEFINE old == batchEntry
           new == batchEntry'
<1>1. EntryShows /\ EntryShows'
  BY EntryFields, PTL
<1>2. /\ old \in Entries /\ new \in Entries
      /\ old.status = status /\ old.maturity = maturity /\ old.settledAt = settledAt
      /\ new.status = status' /\ new.maturity = maturity' /\ new.settledAt = settledAt'
  BY <1>1 DEF EntryShows
<1>3. new.blocked = old.blocked
  <2>1. UNCHANGED <<legalHold, disputeActive, now, paused, pausedAt, pauseMaxDuration, pauseScope>>
    BY DEF gateVars, holdVars, disputeVars, pauseVars, flagVars
  <2>2. PausedBlocks("settlement")' <=> PausedBlocks("settlement")
    BY <2>1 DEF PausedBlocks, PausedActive
  <2>3. old.blocked \in BOOLEAN /\ new.blocked \in BOOLEAN
    BY <1>2 DEF Entries
  <2> QED
    BY <1>1, <2>1, <2>2, <2>3 DEF EntryShows
<1>4. CASE UNCHANGED <<status, maturity, settledAt>>
  <2>1. old = new
    BY <1>2, <1>3, <1>4 DEF Entries
  <2> QED
    BY <2>1 DEF Batch!batchVars
<1>5. now \in Int
  BY DEF BaseInv
<1>6. ASSUME \/ Batch!CanSettle(old) /\ new = Batch!Settled(old)
             \/ old.status = 0 /\ \E v \in {1, 4} : new = [old EXCEPT !.status = v]
             \/ old.status = 0 /\ \E v \in Times : new = [old EXCEPT !.maturity = v]
             \/ old.status = 1 /\ new = [old EXCEPT !.status = 3]
             \/ old.status \in 2..4 /\ new = [old EXCEPT !.status = 2]
      PROVE  [Batch!BatchNext]_<<now, Batch!batchVars>>
  <2>1. /\ Solo(old)["escrow"] = old
        /\ \A v : [Solo(old) EXCEPT !["escrow"].status = v] = Solo([old EXCEPT !.status = v])
        /\ \A v : [Solo(old) EXCEPT !["escrow"].maturity = v] = Solo([old EXCEPT !.maturity = v])
    BY SoloWrites, Zenon
  <2>2. ASSUME Batch!CanSettle(old), new = Batch!Settled(old)
        PROVE  Batch!AloneStep("escrow")
    <3>1. Solo(new) = [Solo(old) EXCEPT !["escrow"] = Batch!Settled(@)]
      BY <2>2, SoloWrites, Zenon
    <3> QED
      BY <2>1, <2>2, <3>1, Zenon DEF Batch!AloneStep, Solo
  <2>3. ASSUME NEW v \in {1, 4}, old.status = 0, new = [old EXCEPT !.status = v]
        PROVE  Batch!AloneStep("escrow")
    <3>1. Solo(new) = [Solo(old) EXCEPT !["escrow"].status = v]
      BY <2>1, <2>3
    <3> QED
      BY <2>1, <2>3, <3>1, Zenon DEF Batch!AloneStep, Solo
  <2>4. ASSUME NEW v \in Times, old.status = 0, new = [old EXCEPT !.maturity = v]
        PROVE  Batch!AloneStep("escrow")
    <3>1. Solo(new) = [Solo(old) EXCEPT !["escrow"].maturity = v]
      BY <2>1, <2>4
    <3>2. v \in {t.maturity : t \in Terms} \cup Times
      OBVIOUS
    <3> QED
      BY <2>1, <2>4, <3>1, <3>2, Zenon DEF Batch!AloneStep, Solo
  <2>5. ASSUME old.status = 1, new = [old EXCEPT !.status = 3]
        PROVE  Batch!AloneStep("escrow")
    <3>1. Solo(new) = [Solo(old) EXCEPT !["escrow"].status = 3]
      BY <2>1, <2>5
    <3> QED
      BY <2>1, <2>5, <3>1, Zenon DEF Batch!AloneStep, Solo
  <2>6. ASSUME old.status \in 2..4, new = [old EXCEPT !.status = 2]
        PROVE  Batch!AloneStep("escrow")
    <3>1. Solo(new) = [Solo(old) EXCEPT !["escrow"].status = 2]
      BY <2>1, <2>6
    <3> QED
      BY <2>1, <2>6, <3>1, Zenon DEF Batch!AloneStep, Solo
  <2>7. Batch!AloneStep("escrow")
    BY <1>6, <2>2, <2>3, <2>4, <2>5, <2>6
  <2> QED
    BY <2>7, Zenon DEF Batch!BatchNext, Batch!batchVars
<1>7. /\ UNCHANGED <<maturity, settledAt>> => new = [old EXCEPT !.status = status']
      /\ UNCHANGED <<status, settledAt>> => new = [old EXCEPT !.maturity = maturity']
      /\ status' = 2 /\ settledAt' = now /\ UNCHANGED maturity => new = Batch!Settled(old)
  BY <1>2, <1>3, <1>5, EntryWrites, Zenon
<1>8. CASE /\ ~PausedBlocks("settlement") /\ ~legalHold /\ ~disputeActive
           /\ status = 1 /\ MaturityReached
           /\ status' = 2 /\ settledAt' = now /\ UNCHANGED maturity
  <2>1. ~old.blocked
    BY <1>1, <1>8 DEF EntryShows
  <2>2. now >= maturity
    BY <1>8 DEF MaturityReached, BaseInv
  <2>3. Batch!CanSettle(old)
    BY <1>2, <1>8, <2>1, <2>2 DEF Batch!CanSettle
  <2> QED
    BY <1>6, <1>7, <1>8, <2>3, Zenon
<1>9. CASE status = 0 /\ status' \in {1, 4} /\ UNCHANGED <<maturity, settledAt>>
  BY <1>2, <1>6, <1>7, <1>9, Zenon
<1>10. CASE status = 0 /\ maturity' \in Times /\ UNCHANGED <<status, settledAt>>
  BY <1>2, <1>6, <1>7, <1>10, Zenon
<1>11. CASE status = 1 /\ status' = 3 /\ UNCHANGED <<maturity, settledAt>>
  BY <1>2, <1>6, <1>7, <1>11, Zenon
<1>12. CASE status \in 2..4 /\ status' = 2 /\ UNCHANGED <<maturity, settledAt>>
  BY <1>2, <1>6, <1>7, <1>12, Zenon
<1> QED
  BY <1>4, <1>8, <1>9, <1>10, <1>11, <1>12 DEF EntryMove

(* A hold, a dispute or a pause that begins or ends moves the gate of the  *)
(* copy, or leaves it as it is when another one blocks anyway.             *)
LEMMA EntryGated ==
    ASSUME BaseInv, BaseInv', UNCHANGED <<now, escrowVars>>
    PROVE  [Batch!BatchNext]_<<now, Batch!batchVars>>
<1> DEFINE old == batchEntry
           new == batchEntry'
<1>1. EntryShows /\ EntryShows'
  BY EntryFields, PTL
<1>2. /\ old \in Entries /\ new \in Entries
      /\ new.status = old.status /\ new.maturity = old.maturity
      /\ new.settledAt = old.settledAt
  BY <1>1 DEF EntryShows, escrowVars, termVars
<1>3. CASE new.blocked = old.blocked
  <2>1. old = new
    BY <1>2, <1>3 DEF Entries
  <2> QED
    BY <2>1 DEF Batch!batchVars
<1>4. CASE new.blocked # old.blocked
  <2>1. new.blocked = ~old.blocked
    BY <1>2, <1>4 DEF Entries
  <2>2. now \in Int
    BY DEF BaseInv
  <2>3. new = [old EXCEPT !.blocked = new.blocked]
    BY <1>2, <2>2, EntryWrites, Zenon
  <2>4. new = [old EXCEPT !.blocked = ~old.blocked]
    BY <2>1, <2>3, Zenon
  <2>5. Solo(new) = [Solo(old) EXCEPT !["escrow"].blocked = ~@]
    BY <2>4, SoloWrites, Zenon
  <2>6. Batch!GateMoves("escrow")
    BY <2>5, Zenon DEF Batch!GateMoves, Solo
  <2> QED
    BY <2>6, Zenon DEF Batch!BatchNext, Batch!batchVars
<1> QED
  BY <1>3, <1>4

(* Time may end a pause, and begins none.                                  *)
LEMMA EntryTicks ==
    ASSUME BaseInv, BaseInv', GateTypeOK, Tick, UNCHANGED <<gateVars, escrowVars>>
    PROVE  [Batch!BatchNext]_<<now, Batch!batchVars>>
<1> DEFINE old == batchEntry
           new == batchEntry'
<1>1. EntryShows /\ EntryShows'
  BY EntryFields, PTL
<1>2. /\ old \in Entries /\ new \in Entries
      /\ new.status = old.status /\ new.maturity = old.maturity
      /\ new.settledAt = old.settledAt
  BY <1>1 DEF EntryShows, escrowVars, termVars
<1>3. PausedBlocks("settlement")' => PausedBlocks("settlement")
  <2>1. /\ now \in Nat /\ pausedAt \in Int /\ pauseMaxDuration \in Nat
        /\ now' = now + 1
    BY DEF GateTypeOK, PauseTypeOK, OptionalNat, Absent, Tick
  <2>2. UNCHANGED <<paused, pausedAt, pauseMaxDuration, pauseScope>>
    BY DEF gateVars, pauseVars, flagVars
  <2> QED
    BY <2>1, <2>2 DEF PausedBlocks, PausedActive
<1>4. new.blocked => old.blocked
  <2>1. UNCHANGED <<legalHold, disputeActive>>
    BY DEF gateVars, holdVars, disputeVars
  <2> QED
    BY <1>1, <1>3, <2>1 DEF EntryShows
<1>5. ASSUME NEW S \in SUBSET {"escrow"},
             Solo(new) = [e \in {"escrow"} |-> IF e \in S THEN [old EXCEPT !.blocked = FALSE]
                                                        ELSE old]
      PROVE  [Batch!BatchNext]_<<now, Batch!batchVars>>
  <2>1. Solo(old)["escrow"] = old
    BY SoloWrites, Zenon
  <2>2. Batch!PausesLapse
    BY <1>5, <2>1, Zenon DEF Batch!PausesLapse, Solo
  <2>3. Batch!Tick
    BY DEF Tick, Batch!Tick
  <2> QED
    BY <2>2, <2>3, Zenon DEF Batch!BatchNext
<1>6. CASE new.blocked = old.blocked
  <2>1. old = new
    BY <1>2, <1>6 DEF Entries
  <2>2. Solo(new) = [e \in {"escrow"} |-> IF e \in {} THEN [old EXCEPT !.blocked = FALSE]
                                                  ELSE old]
    BY <2>1, Zenon DEF Solo
  <2>3. {} \in SUBSET {"escrow"}
    OBVIOUS
  <2> QED
    BY <1>5, <2>2, <2>3, Zenon
<1>7. CASE new.blocked # old.blocked
  <2>1. new.blocked = FALSE
    BY <1>2, <1>4, <1>7 DEF Entries
  <2>2. now \in Int
    BY DEF BaseInv
  <2>3. new = [old EXCEPT !.blocked = new.blocked]
    BY <1>2, <2>2, EntryWrites, Zenon
  <2>4. new = [old EXCEPT !.blocked = FALSE]
    BY <2>1, <2>3, Zenon
  <2> QED
    BY <1>5, <2>4, Zenon DEF Solo
<1> QED
  BY <1>6, <1>7

(* Every step of the escrow is one of its copy in the batch, or none.      *)
LEMMA EntrySteps ==
    BaseInv /\ BaseInv' /\ GateTypeOK /\ [Next]_vars => [Batch!BatchNext]_<<now, Batch!batchVars>>
<1> SUFFICES ASSUME BaseInv, BaseInv', GateTypeOK, [Next]_vars
             PROVE  [Batch!BatchNext]_<<now, Batch!batchVars>>
  OBVIOUS
<1>1. CASE EscrowNext /\ UNCHANGED <<now, gateVars>>
  BY <1>1, EntryMoves, EntryAlone
<1>2. CASE UNCHANGED <<now, escrowVars>>
  BY <1>2, EntryGated
<1>3. CASE Tick /\ UNCHANGED <<gateVars, escrowVars>>
  BY <1>3, EntryTicks
<1> QED
  BY <1>1, <1>2, <1>3 DEF Next, vars

(* The snapshot is written with the close and not touched after.           *)
LEMMA SnapshotStays ==
    ASSUME BaseInv, EscrowNext, status # 0
    PROVE  UNCHANGED fundingCloseSnapshot
<1>1. CASE FundingNext
  BY <1>1, FundingFrame DEF BaseInv, FundingEffect
<1>2. CASE DisbursementNext
  BY <1>2, DisbursementFrame DEF DisbursementEffect
<1>3. CASE \E amount \in Amounts : ReceiveTransfer(amount)
  BY <1>3 DEF ReceiveTransfer
<1> QED
  BY <1>1, <1>2, <1>3, TermsFrame DEF EscrowNext

(* Every step of the escrow is one of the stage the callbacks see, or none. *)
LEMMA StageSteps ==
    BaseInv /\ BaseInv' /\ [Next]_vars => [Stage!CallbackNext]_(Stage!callbackVars)
<1> SUFFICES ASSUME BaseInv, BaseInv', [Next]_vars
             PROVE  [Stage!CallbackNext]_(Stage!callbackVars)
  OBVIOUS
<1> DEFINE bare == fundingCloseSnapshot = NoSnapshot
<1>1. /\ status \in {0, 4} => bare
      /\ status \in {1, 3} => ~bare
  BY DEF BaseInv, SnapshotInv, SnapshotTracksStatus, Closed
<1>2. CASE UNCHANGED callbackStage
  BY <1>2 DEF Stage!callbackVars, Stage!contextVars
<1>3. CASE callbackStage = "live" /\ callbackStage' = "cancelled"
  BY <1>3 DEF Stage!CallbackNext, Stage!CancelRound, Stage!contextVars
<1>4. CASE callbackStage = "cancelled" /\ callbackStage' = "swept"
  BY <1>4 DEF Stage!CallbackNext, Stage!SweepRound, Stage!contextVars
<1>5. CASE EscrowNext
  <2>1. EntryMove /\ (status # 0 => UNCHANGED fundingCloseSnapshot)
    BY <1>5, EntryMoves, SnapshotStays
  <2>2. /\ status' \in {0, 4} => bare'
        /\ status' \in {1, 3} => ~bare'
    BY DEF BaseInv, SnapshotInv, SnapshotTracksStatus, Closed
  <2>3. CASE UNCHANGED status
    BY <1>2, <2>1, <2>3 DEF callbackStage
  <2>4. CASE status = 0 /\ status' = 1
    BY <1>2, <2>4 DEF callbackStage
  <2>5. CASE status = 0 /\ status' = 4
    BY <1>3, <2>5 DEF callbackStage
  <2>6. CASE status = 1 /\ status' \in {2, 3}
    BY <1>1, <1>2, <2>1, <2>6 DEF callbackStage
  <2>7. CASE status = 3 /\ status' = 2
    BY <1>1, <1>2, <2>1, <2>7 DEF callbackStage
  <2>8. CASE status = 4 /\ status' = 2
    BY <1>1, <1>4, <2>1, <2>8 DEF callbackStage
  <2> QED
    BY <2>1, <2>3, <2>4, <2>5, <2>6, <2>7, <2>8 DEF EntryMove
<1>6. CASE UNCHANGED escrowVars
  BY <1>2, <1>6 DEF escrowVars, callbackStage
<1> QED
  BY <1>5, <1>6 DEF Next, vars

(* The copies start as an escrow of these terms starts.                    *)
LEMMA CopiesStart == Init => LedgerInit /\ Batch!BatchInit /\ Stage!CallbackInit
<1> SUFFICES ASSUME Init
             PROVE  Batch!BatchInit /\ Stage!CallbackInit
  BY DEF Init
<1>1. PICK t \in Terms : maturity = t.maturity
  BY Zenon DEF Init, EscrowInit
<1>2. batchEntry = Batch!Instance(maturity)
  BY DEF Init, EscrowInit, HoldInit, DisputeInit, PauseInit, PausedBlocks, PausedActive,
         batchEntry, Batch!Instance, Absent, Batch!Absent
<1>3. Batch!BatchInit
  <2>1. batchEntry \in {Batch!Instance(m) : m \in {u.maturity : u \in Terms} \cup Times}
    BY <1>1, <1>2, Zenon
  <2>2. Solo(batchEntry) \in
            [{"escrow"} -> {Batch!Instance(m) : m \in {u.maturity : u \in Terms} \cup Times}]
    BY <2>1, Zenon DEF Solo
  <2> QED
    BY <2>2, Zenon DEF Batch!BatchInit, Solo, Absent, Batch!Absent
<1>4. Stage!CallbackInit
  BY DEF Init, EscrowInit, callbackStage, Stage!CallbackInit
<1> QED
  BY <1>3, <1>4

(* Whatever happens to an escrow happens to the reduced copies of it that  *)
(* the settlement batch and the callbacks are modelled over.               *)
THEOREM EscrowHasItsCopies == Spec => StandsInForEscrow
<1>1. Init => Batch!LedgerInit
  BY DEF Init, LedgerInit, Batch!LedgerInit
<1> QED
  BY <1>1, CopiesStart, EntrySteps, StageSteps, BaseInvariant, GateTypes, PTL
     DEF Spec, StandsInForEscrow, Batch!BatchSpec, Stage!CallbackSpec

=============================================================================
