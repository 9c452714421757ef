----------------------------- MODULE EscrowTypes -----------------------------
(***************************************************************************)
(* Type correctness of the escrow, for all investors, amounts, terms and   *)
(* clocks.  The gates and the escrow proper are separate inductions, since *)
(* no call writes both.                                                    *)
(***************************************************************************)
EXTENDS EscrowProperties, SequenceTheorems, TLAPS

(* The calls on the legal hold keep its type. *)
LEMMA HoldTypeKept == now \in Nat /\ HoldTypeOK /\ HoldNext => HoldTypeOK'
<1> SUFFICES ASSUME now \in Nat, HoldTypeOK, HoldNext
             PROVE  HoldTypeOK'
  OBVIOUS
<1> USE ClearDelayAssumption DEF HoldTypeOK, OptionalNat, Absent
<1>1. ASSUME NEW active \in BOOLEAN, SetLegalHold(active)
      PROVE  HoldTypeOK'
  BY <1>1 DEF SetLegalHold
<1>2. CASE RequestClearLegalHold
  BY <1>2 DEF RequestClearLegalHold
<1>3. CASE ClearLegalHoldAfterDelay
  BY <1>3 DEF ClearLegalHoldAfterDelay
<1>4. CASE CancelClearLegalHold
  BY <1>4 DEF CancelClearLegalHold
<1> QED
  BY <1>1, <1>2, <1>3, <1>4 DEF HoldNext

(* The calls on the dispute keep its type. *)
LEMMA DisputeTypeKept == now \in Nat /\ DisputeTypeOK /\ DisputeNext => DisputeTypeOK'
<1> SUFFICES ASSUME now \in Nat, DisputeTypeOK, DisputeNext
             PROVE  DisputeTypeOK'
  OBVIOUS
<1> USE DEF DisputeTypeOK, DisputeRecords, OptionalNat, Absent
<1>1. CASE OpenDispute
  BY <1>1 DEF OpenDispute
<1>2. CASE CloseDispute
  BY <1>2 DEF CloseDispute
<1> QED
  BY <1>1, <1>2 DEF DisputeNext

(* The calls on the pause keep its type. *)
LEMMA PauseTypeKept == now \in Nat /\ PauseTypeOK /\ PauseNext => PauseTypeOK'
<1> SUFFICES ASSUME now \in Nat, PauseTypeOK, PauseNext
             PROVE  PauseTypeOK'
  OBVIOUS
<1> USE PauseArgsAssumption DEF PauseTypeOK, OptionalNat, Absent, PauseScopes, PauseEntries
<1>1. ASSUME CountToggle
      PROVE  /\ toggleLimit' \in Nat /\ toggleWindow' \in Nat
             /\ windowStart' \in OptionalNat /\ windowCount' \in Nat
  BY <1>1 DEF CountToggle, SpentToggles
<1>2. ASSUME NEW scope \in PauseScopeArgs, Pause(scope)
      PROVE  PauseTypeOK'
  BY <1>1, <1>2 DEF Pause
<1>3. ASSUME NEW scope \in PauseScopeArgs, Unpause(scope)
      PROVE  PauseTypeOK'
  BY <1>1, <1>3 DEF Unpause
<1>4. ASSUME NEW secs \in PauseDurationArgs, SetPauseMaxDuration(secs)
      PROVE  PauseTypeOK'
  BY <1>4 DEF SetPauseMaxDuration, flagVars, rateVars
<1>5. ASSUME NEW rate \in PauseRateArgs, SetPauseRateLimit(rate[1], rate[2])
      PROVE  PauseTypeOK'
  BY <1>5 DEF SetPauseRateLimit, flagVars
<1> QED
  BY <1>2, <1>3, <1>4, <1>5 DEF PauseNext

(* The calls on the allowlist keep the type of the flags. *)
LEMMA AllowTypeKept ==
    ASSUME allowlistActive \in BOOLEAN, allowlisted \subseteq Investors, AllowNext
    PROVE  allowlistActive' \in BOOLEAN /\ allowlisted' \subseteq Investors
<1>1. ASSUME NEW active \in BOOLEAN, SetAllowlistActive(active)
      PROVE  allowlistActive' \in BOOLEAN /\ allowlisted' \subseteq Investors
  BY <1>1 DEF SetAllowlistActive
<1>2. ASSUME NEW i \in Investors, NEW allowed \in BOOLEAN, SetInvestorAllowlisted(i, allowed)
      PROVE  allowlistActive' \in BOOLEAN /\ allowlisted' \subseteq Investors
  BY <1>2 DEF SetInvestorAllowlisted, SetFlags
<1>3. ASSUME NEW S \in SUBSET Investors, NEW allowed \in BOOLEAN,
             SetInvestorsAllowlisted(S, allowed)
      PROVE  allowlistActive' \in BOOLEAN /\ allowlisted' \subseteq Investors
  BY <1>3 DEF SetInvestorsAllowlisted, SetFlags
<1> QED
  BY <1>1, <1>2, <1>3 DEF AllowNext

(* Every gate and the clock have their types in every reachable state. *)
THEOREM GateTypes == Spec => []GateTypeOK
<1>1. Init => GateTypeOK
  <2> SUFFICES ASSUME Init PROVE GateTypeOK
    OBVIOUS
  <2>1. legalHold \in BOOLEAN /\ disputeActive \in BOOLEAN /\ paused \in BOOLEAN
    BY Zenon DEF Init, HoldInit, DisputeInit, PauseInit
  <2>2. now \in Nat /\ HoldTypeOK
    BY <2>1 DEF Init, LedgerInit, HoldInit, HoldTypeOK, OptionalNat, Absent
  <2>3. DisputeTypeOK
    BY <2>1 DEF Init, DisputeInit, DisputeTypeOK, DisputeRecords, NoDispute, OptionalNat, Absent
  <2>4. PauseTypeOK
    BY <2>1 DEF Init, PauseInit, PauseTypeOK, OptionalNat, Absent
  <2>5. allowlistActive \in BOOLEAN /\ allowlisted \subseteq Investors
    BY AllowlistAssumption DEF Init, AllowInit
  <2> QED
    BY <2>2, <2>3, <2>4, <2>5 DEF GateTypeOK
<1>2. GateTypeOK /\ [Next]_vars => GateTypeOK'
  <2> SUFFICES ASSUME GateTypeOK, [Next]_vars
               PROVE  GateTypeOK'
    OBVIOUS
  <2> USE DEF GateTypeOK
  <2>1. HoldTypeOK /\ UNCHANGED holdVars => HoldTypeOK'
    BY DEF HoldTypeOK, holdVars
  <2>2. DisputeTypeOK /\ UNCHANGED disputeVars => DisputeTypeOK'
    BY DEF DisputeTypeOK, disputeVars
  <2>3. PauseTypeOK /\ UNCHANGED pauseVars => PauseTypeOK'
    BY DEF PauseTypeOK, pauseVars, flagVars, rateVars
  <2>4. CASE UNCHANGED gateVars /\ now' \in Nat
    BY <2>1, <2>2, <2>3, <2>4 DEF gateVars, allowVars
  <2>5. CASE GateNext /\ UNCHANGED now
    BY <2>5, <2>1, <2>2, <2>3, HoldTypeKept, DisputeTypeKept, PauseTypeKept, AllowTypeKept
       DEF GateNext, allowVars
  <2>6. CASE Tick /\ UNCHANGED gateVars
    BY <2>4, <2>6 DEF Tick
  <2> QED
    BY <2>4, <2>5, <2>6 DEF Next, vars
<1> QED
  BY <1>1, <1>2, PTL DEF Spec

-----------------------------------------------------------------------------
(* What the terms of the round are, and that they keep their types.        *)
TermTypeOK ==
    /\ fundingTarget \in Nat
    /\ yieldBps \in Bps /\ maturity \in Nat
    /\ fundingDeadline \in OptionalNat /\ minContributionFloor \in Nat
    /\ maxPerInvestor \in OptionalNat /\ maxUniqueInvestors \in OptionalNat
    /\ maturityMaxHorizon \in Nat /\ protocolFeeBps \in Bps

PositionTypeOK ==
    /\ contribution \in [Investors -> Nat]
    /\ effectiveYield \in [Investors -> Bps \cup {Absent}]
    /\ claimNotBefore \in [Investors -> Nat]
    /\ claimed \in [Investors -> BOOLEAN] /\ refunded \in [Investors -> BOOLEAN]
    /\ uniqueFunderCount \in Nat
    /\ investorIndex \in Seq(Investors)
    /\ principal \in Int /\ paid \in [Investors -> Nat]

RecordTypeOK ==
    /\ status \in 0..4
    /\ fundedAmount \in Int
    /\ fundingCloseSnapshot \in Snapshots \cup {NoSnapshot}
    /\ releasedAmount \in Int /\ distributedPrincipal \in Int
    /\ settledAt \in OptionalNat /\ closed \in BOOLEAN
    /\ balance \in Nat

(* The type invariant of the escrow is its three parts.                    *)
LEMMA TypeParts == EscrowTypeOK <=> TermTypeOK /\ PositionTypeOK /\ RecordTypeOK
  BY DEF EscrowTypeOK, TermTypeOK, PositionTypeOK, RecordTypeOK

(* A call that leaves the terms alone keeps their types.                   *)
LEMMA TermsUnchanged == TermTypeOK /\ UNCHANGED termVars => TermTypeOK'
  BY DEF TermTypeOK, termVars, limitVars

(* A call that leaves the positions alone keeps their types.               *)
LEMMA PositionsUnchanged == PositionTypeOK /\ UNCHANGED positionVars => PositionTypeOK'
  BY DEF PositionTypeOK, positionVars, yieldVars, exitVars, funderVars

(* Closing the funding round writes a status and a snapshot of their type. *)
LEMMA CloseFundingType ==
    ASSUME NEW amount \in Int, NEW target \in Nat, RecordTypeOK, CloseFunding(amount, target)
    PROVE  status' \in 0..4 /\ fundingCloseSnapshot' \in Snapshots \cup {NoSnapshot}
  BY DEF CloseFunding, RecordTypeOK, Snapshots

(* A deposit's effect on the round keeps the types it touches.             *)
LEMMA CreditFundingType ==
    ASSUME NEW newFunded \in Int, RecordTypeOK, TermTypeOK, CreditFunding(newFunded)
    PROVE  /\ status' \in 0..4 /\ fundedAmount' \in Int
           /\ fundingCloseSnapshot' \in Snapshots \cup {NoSnapshot}
  BY CloseFundingType DEF CreditFunding, TermTypeOK, RecordTypeOK

(* Whatever leaves the escrow, its token balance does not become negative. *)
LEMMA PayOutType ==
    ASSUME NEW amount \in Int, balance \in Nat, PayOut(amount)
    PROVE  balance' \in Nat
  BY DEF PayOut

(* Payouts are integers: the divisor is positive where there is a division. *)
LEMMA GrossPayoutType ==
    ASSUME NEW a \in Int, NEW p \in Int, NEW y \in Int
    PROVE  GrossPayout(a, p, y) \in Int
<1>1. SettlePool(p, y) \in Int
  BY DEF SettlePool, Coupon, BpsDenominator
<1>2. a * SettlePool(p, y) \in Int
  BY <1>1
<1> QED
  BY <1>2 DEF GrossPayout

(* A recorded yield is a number, Absent included.                          *)
LEMMA RecordedYieldType ==
    ASSUME NEW y \in Bps \cup {Absent}
    PROVE  y \in Int
  BY DEF Bps, BpsDenominator, Absent

(* The yield a commitment is given is a rate, whatever the table says. *)
LEMMA TierYieldType ==
    ASSUME NEW base \in Bps, NEW lock \in Nat,
           NEW y \in QualifyingYields(YieldTiers, base, lock)
    PROVE  y \in Bps
<1>1. \A k \in DOMAIN YieldTiers : YieldTiers[k].yieldBps \in Bps
  <2>1. YieldTiers \in Seq([minLock : Nat, yieldBps : Bps])
    BY Zenon, EscrowAssumption
  <2>2. \A k \in DOMAIN YieldTiers : YieldTiers[k] \in [minLock : Nat, yieldBps : Bps]
    BY <2>1, ElementOfSeq, LenProperties
  <2> QED
    BY <2>2
<1> QED
  BY <1>1 DEF QualifyingYields

(* compute_investor_payout answers an integer in every typed state.        *)
LEMMA PayoutType ==
    ASSUME TermTypeOK, PositionTypeOK, RecordTypeOK, NEW i \in Investors
    PROVE  InvestorPayout(i) \in Int
<1>1. CASE fundingCloseSnapshot = NoSnapshot
  BY <1>1 DEF InvestorPayout
<1>2. CASE fundingCloseSnapshot # NoSnapshot
  <2>1. yieldBps \in Int
    BY DEF TermTypeOK, Bps, BpsDenominator
  <2>2. effectiveYield[i] \in Int
    <3>1. effectiveYield[i] \in Bps \cup {Absent}
      BY DEF PositionTypeOK
    <3> QED
      BY <3>1, RecordedYieldType
  <2>3. contribution[i] \in Int
    BY DEF PositionTypeOK
  <2>4. fundingCloseSnapshot.totalPrincipal \in Int
    BY <1>2 DEF RecordTypeOK, Snapshots
  <2> QED
    BY <1>2, <2>1, <2>2, <2>3, <2>4, GrossPayoutType DEF InvestorPayout
<1> QED
  BY <1>1, <1>2

-----------------------------------------------------------------------------
(* One lemma per group of entrypoints: the escrow's types are kept. *)
AllTypesOK == TermTypeOK /\ PositionTypeOK /\ RecordTypeOK

(* The per-investor writes of a deposit keep their types.                  *)
LEMMA RecordFundersType ==
    ASSUME PositionTypeOK, NEW S \in SUBSET Investors, NEW yield \in Bps, NEW notBefore \in Nat,
           RecordFunders(S, yield, notBefore)
    PROVE  /\ effectiveYield' \in [Investors -> Bps \cup {Absent}]
           /\ claimNotBefore' \in [Investors -> Nat]
  BY DEF RecordFunders, PositionTypeOK

(* What a deposit adds to the count and to the index has its type.         *)
LEMMA IndexEntryType ==
    ASSUME NEW i \in Investors
    PROVE  FunderIncrement(i) \in Nat /\ IndexEntry(i) \in Seq(Investors)
  BY DEF FunderIncrement, IndexEntry

(* The common part of the deposit entrypoints keeps the types.             *)
LEMMA DepositType ==
    ASSUME AllTypesOK, NEW i \in Investors, NEW amount \in Nat, NEW yield \in Bps,
           NEW notBefore \in Nat, Deposit(i, amount, yield, notBefore)
    PROVE  AllTypesOK'
<1> USE DEF AllTypesOK
<1>1. TermTypeOK'
  BY TermsUnchanged DEF Deposit
<1>2. PositionTypeOK'
  <2>1. contribution' \in [Investors -> Nat] /\ principal' \in Int
    BY DEF Deposit, PositionTypeOK
  <2>2. uniqueFunderCount' \in Nat /\ investorIndex' \in Seq(Investors)
    BY IndexEntryType DEF Deposit, PositionTypeOK
  <2>3. /\ effectiveYield' \in [Investors -> Bps \cup {Absent}]
        /\ claimNotBefore' \in [Investors -> Nat]
    BY RecordFundersType DEF Deposit
  <2> QED
    BY <2>1, <2>2, <2>3 DEF PositionTypeOK, Deposit, exitVars
<1>3. RecordTypeOK'
  <2>1. fundedAmount + Credit(amount) \in Int
    BY DEF RecordTypeOK, Credit
  <2>2. /\ status' \in 0..4 /\ fundedAmount' \in Int
        /\ fundingCloseSnapshot' \in Snapshots \cup {NoSnapshot}
    BY <2>1, CreditFundingType DEF Deposit
  <2> QED
    BY <2>2 DEF RecordTypeOK, Deposit, PayIn, flowVars
<1> QED
  BY <1>1, <1>2, <1>3

(* fund keeps the types.                                                   *)
LEMMA FundType ==
    ASSUME AllTypesOK, NEW i \in Investors, NEW amount \in Nat, Fund(i, amount)
    PROVE  AllTypesOK'
<1>1. yieldBps \in Bps
  BY DEF AllTypesOK, TermTypeOK
<1> QED
  BY <1>1, DepositType DEF Fund

(* fund_with_commitment keeps the types.                                   *)
LEMMA FundWithCommitmentType ==
    ASSUME now \in Nat, AllTypesOK, NEW i \in Investors, NEW amount \in Nat, NEW lock \in Nat,
           FundWithCommitment(i, amount, lock)
    PROVE  AllTypesOK'
<1> DEFINE notBefore == IF lock = 0 THEN 0 ELSE now + lock
<1>1. notBefore \in Nat
  OBVIOUS
<1>2. PICK y \in QualifyingYields(YieldTiers, yieldBps, lock) :
         /\ IsBestYield(y, YieldTiers, yieldBps, lock)
         /\ Deposit(i, amount, y, notBefore)
  BY DEF FundWithCommitment
<1>3. y \in Bps
  BY <1>2, TierYieldType DEF AllTypesOK, TermTypeOK
<1> QED
  BY <1>1, <1>2, <1>3, DepositType

(* fund_batch keeps the types.                                             *)
LEMMA FundBatchType ==
    ASSUME AllTypesOK, NEW i \in Investors, NEW j \in Investors, NEW a \in Nat, NEW b \in Nat,
           FundBatch(i, a, j, b)
    PROVE  AllTypesOK'
<1> USE DEF AllTypesOK
<1>1. TermTypeOK'
  BY TermsUnchanged DEF FundBatch
<1>2. PositionTypeOK'
  <2>1. contribution' \in [Investors -> Nat] /\ principal' \in Int
    <3>1. contribution[i] + a \in Nat /\ contribution[j] + b \in Nat
      BY DEF PositionTypeOK
    <3>2. contribution' = [contribution EXCEPT ![i] = contribution[i] + a,
                                               ![j] = contribution[j] + b]
      BY DEF FundBatch
    <3>3. contribution' \in [Investors -> Nat]
      BY <3>1, <3>2 DEF PositionTypeOK
    <3>4. principal' \in Int
      BY DEF FundBatch, PositionTypeOK
    <3> QED
      BY <3>3, <3>4
  <2>2. uniqueFunderCount' \in Nat /\ investorIndex' \in Seq(Investors)
    <3>1. /\ uniqueFunderCount' = uniqueFunderCount + FunderIncrement(i) + FunderIncrement(j)
          /\ investorIndex' = investorIndex \o IndexEntry(i) \o IndexEntry(j)
      BY Zenon DEF FundBatch
    <3> QED
      BY IndexEntryType, <3>1 DEF PositionTypeOK
  <2>3. /\ effectiveYield' \in [Investors -> Bps \cup {Absent}]
        /\ claimNotBefore' \in [Investors -> Nat]
    BY RecordFundersType DEF FundBatch, TermTypeOK
  <2> QED
    BY <2>1, <2>2, <2>3 DEF PositionTypeOK, FundBatch, exitVars
<1>3. RecordTypeOK'
  <2>1. fundedAmount + Credit(a) + Credit(b) \in Int
    BY DEF RecordTypeOK, Credit
  <2>2. /\ status' \in 0..4 /\ fundedAmount' \in Int
        /\ fundingCloseSnapshot' \in Snapshots \cup {NoSnapshot}
    BY <2>1, CreditFundingType DEF FundBatch
  <2> QED
    BY <2>2 DEF RecordTypeOK, FundBatch, PayIn, flowVars
<1> QED
  BY <1>1, <1>2, <1>3

(* unfund keeps the types.                                                 *)
LEMMA UnfundType ==
    ASSUME AllTypesOK, NEW i \in Investors, NEW amount \in Nat, Unfund(i, amount)
    PROVE  AllTypesOK'
<1> USE DEF AllTypesOK
<1>1. TermTypeOK'
  BY TermsUnchanged DEF Unfund
<1>2. PositionTypeOK'
  <2>1. contribution[i] - amount \in Nat
    BY DEF Unfund, PositionTypeOK
  <2>2. contribution' \in [Investors -> Nat] /\ principal' \in Int
    <3>1. /\ contribution' = [contribution EXCEPT ![i] = contribution[i] - amount]
          /\ principal' = principal - amount
      BY Zenon DEF Unfund
    <3> QED
      BY <2>1, <3>1 DEF PositionTypeOK
  <2>3. OneFewer(uniqueFunderCount) \in Nat
    BY DEF PositionTypeOK, OneFewer
  <2>4. uniqueFunderCount' \in Nat
    <3>1. uniqueFunderCount' \in {OneFewer(uniqueFunderCount), uniqueFunderCount}
      BY Zenon DEF Unfund
    <3> QED
      BY <2>3, <3>1 DEF PositionTypeOK
  <2> QED
    BY <2>2, <2>4 DEF PositionTypeOK, Unfund, yieldVars, exitVars
<1>3. RecordTypeOK'
  BY PayOutType DEF RecordTypeOK, Unfund, flowVars
<1> QED
  BY <1>1, <1>2, <1>3

(* partial_settle keeps the types.                                         *)
LEMMA PartialSettleType ==
    ASSUME AllTypesOK, PartialSettle
    PROVE  AllTypesOK'
<1> USE DEF AllTypesOK
<1>1. status' \in 0..4 /\ fundingCloseSnapshot' \in Snapshots \cup {NoSnapshot}
  BY CloseFundingType DEF PartialSettle, RecordTypeOK, TermTypeOK
<1> QED
  BY <1>1, TermsUnchanged, PositionsUnchanged DEF PartialSettle, RecordTypeOK, flowVars

(* Every entrypoint of the funding phase keeps the types.                  *)
LEMMA FundingTypeKept == now \in Nat /\ AllTypesOK /\ FundingNext => AllTypesOK'
<1> SUFFICES ASSUME now \in Nat, AllTypesOK, FundingNext
             PROVE  AllTypesOK'
  OBVIOUS
<1>1. Amounts \subseteq Nat /\ Times \subseteq Nat
  BY EscrowAssumption
<1>2. ASSUME NEW i \in Investors, NEW a \in Amounts, Fund(i, a) \/ Unfund(i, a)
      PROVE  AllTypesOK'
  BY <1>1, <1>2, FundType, UnfundType
<1>3. ASSUME NEW i \in Investors, NEW a \in Amounts, NEW lock \in Times,
             FundWithCommitment(i, a, lock)
      PROVE  AllTypesOK'
  BY <1>1, <1>3, FundWithCommitmentType
<1>4. ASSUME NEW i \in Investors, NEW j \in Investors, NEW a \in Amounts, NEW b \in Amounts,
             FundBatch(i, a, j, b)
      PROVE  AllTypesOK'
  BY <1>1, <1>4, FundBatchType
<1> QED
  BY <1>2, <1>3, <1>4, PartialSettleType DEF FundingNext

(* Changes of the limits keep their types; the other terms are unchanged. *)
LEMMA LimitsTypeKept ==
    ASSUME TermTypeOK, LimitsNext, UNCHANGED <<fundingTarget, yieldBps, maturity>>
    PROVE  TermTypeOK'
<1> USE EscrowAssumption DEF TermTypeOK
<1>1. ASSUME NEW cap \in Caps, LowerMaxUniqueInvestors(cap) \/ RaiseMaxUniqueInvestors(cap)
      PROVE  TermTypeOK'
  BY <1>1 DEF LowerMaxUniqueInvestors, RaiseMaxUniqueInvestors, OptionalNat
<1>2. ASSUME NEW cap \in Caps, LowerMinContributionFloor(cap) \/ RaiseMaxPerInvestor(cap)
      PROVE  TermTypeOK'
  BY <1>2 DEF LowerMinContributionFloor, RaiseMaxPerInvestor, OptionalNat
<1>3. ASSUME NEW time \in Times, ExtendFundingDeadline(time) \/ UpdateMaturityMaxHorizon(time)
      PROVE  TermTypeOK'
  BY <1>3 DEF ExtendFundingDeadline, UpdateMaturityMaxHorizon, OptionalNat
<1>4. ASSUME NEW bps \in Yields, SetProtocolFeeBps(bps)
      PROVE  TermTypeOK'
  BY <1>4 DEF SetProtocolFeeBps
<1> QED
  BY <1>1, <1>2, <1>3, <1>4 DEF LimitsNext

(* Every change of terms keeps the types.                                  *)
LEMMA TermsTypeKept == AllTypesOK /\ TermsNext => AllTypesOK'
<1> SUFFICES ASSUME AllTypesOK, TermsNext
             PROVE  AllTypesOK'
  OBVIOUS
<1> USE DEF AllTypesOK
<1>1. UNCHANGED nonTermVars => PositionTypeOK'
  BY PositionsUnchanged DEF nonTermVars
<1>2. UNCHANGED <<status, fundingCloseSnapshot, nonTermVars>> => RecordTypeOK'
  BY DEF nonTermVars, RecordTypeOK, flowVars
<1>3. ASSUME NEW target \in Targets, UpdateFundingTarget(target)
      PROVE  AllTypesOK'
  <2>1. target \in Nat
    BY EscrowAssumption
  <2>2. TermTypeOK'
    BY <1>3, <2>1 DEF UpdateFundingTarget, TermTypeOK, limitVars
  <2>3. status' \in 0..4 /\ fundingCloseSnapshot' \in Snapshots \cup {NoSnapshot}
    BY <1>3, <2>1, CloseFundingType DEF UpdateFundingTarget, RecordTypeOK
  <2> QED
    BY <1>1, <1>3, <2>2, <2>3 DEF UpdateFundingTarget, RecordTypeOK, nonTermVars, flowVars
<1>4. ASSUME NEW time \in Times, UpdateMaturity(time)
      PROVE  TermTypeOK'
  BY <1>4, EscrowAssumption DEF UpdateMaturity, TermTypeOK, limitVars
<1>5. ASSUME NEW yield \in Yields, UpdateYieldBps(yield)
      PROVE  TermTypeOK'
  BY <1>5, EscrowAssumption DEF UpdateYieldBps, TermTypeOK, limitVars
<1> QED
  BY <1>1, <1>2, <1>3, <1>4, <1>5, LimitsTypeKept DEF TermsNext

(* settle keeps the types.                                                 *)
LEMMA SettleType ==
    ASSUME now \in Nat, AllTypesOK, Settle
    PROVE  AllTypesOK'
  BY TermsUnchanged, PositionsUnchanged DEF AllTypesOK, Settle, RecordTypeOK, flowVars, OptionalNat

(* release keeps the types.                                                *)
LEMMA ReleaseType ==
    ASSUME AllTypesOK, NEW amount \in Nat, Release(amount)
    PROVE  AllTypesOK'
<1>1. balance' \in Nat
  BY PayOutType DEF AllTypesOK, RecordTypeOK, Release
<1>2. status' \in 0..4 /\ releasedAmount' \in Int /\ distributedPrincipal' \in Int
  BY DEF AllTypesOK, RecordTypeOK, Release
<1> QED
  BY <1>1, <1>2, TermsUnchanged, PositionsUnchanged DEF AllTypesOK, RecordTypeOK, Release

(* withdraw keeps the types.                                               *)
LEMMA WithdrawType ==
    ASSUME AllTypesOK, Withdraw
    PROVE  AllTypesOK'
<1>1. protocolFeeBps \in Int /\ Remaining \in Int
  BY DEF AllTypesOK, TermTypeOK, RecordTypeOK, Remaining, Bps, BpsDenominator
<1>2. ProtocolFee(Remaining, protocolFeeBps) \in Int
  BY <1>1 DEF ProtocolFee, BpsDenominator
<1>3. balance' \in Nat /\ distributedPrincipal' \in Int /\ status' \in 0..4
  BY <1>1, <1>2 DEF AllTypesOK, RecordTypeOK, Withdraw
<1> QED
  BY <1>3, TermsUnchanged, PositionsUnchanged DEF AllTypesOK, RecordTypeOK, Withdraw

(* claim_investor_payout keeps the types.                                  *)
LEMMA ClaimType ==
    ASSUME AllTypesOK, NEW i \in Investors, Claim(i)
    PROVE  AllTypesOK'
<1> USE DEF AllTypesOK
<1>1. InvestorPayout(i) \in Nat
  BY PayoutType DEF Claim, PayOut
<1>2. balance' \in Nat
  BY <1>1, PayOutType DEF Claim, RecordTypeOK
<1>3. PositionTypeOK'
  <2>1. paid[i] + InvestorPayout(i) \in Nat
    BY <1>1 DEF PositionTypeOK
  <2>2. /\ claimed' = [claimed EXCEPT ![i] = TRUE]
        /\ paid' = [paid EXCEPT ![i] = paid[i] + InvestorPayout(i)]
    BY DEF Claim
  <2>3. paid' \in [Investors -> Nat] /\ claimed' \in [Investors -> BOOLEAN]
    BY <2>1, <2>2 DEF PositionTypeOK
  <2> QED
    BY <2>3 DEF Claim, PositionTypeOK, yieldVars, funderVars
<1> QED
  BY <1>2, <1>3, TermsUnchanged DEF Claim, RecordTypeOK, flowVars

(* The refunds keep the types.                                             *)
LEMMA ReturnPrincipalType ==
    ASSUME AllTypesOK, NEW S \in SUBSET Investors, NEW amount \in Nat, ReturnPrincipal(S, amount)
    PROVE  AllTypesOK'
<1> USE DEF AllTypesOK
<1>1. contribution' \in [Investors -> Nat] /\ principal' \in Int
  BY DEF ReturnPrincipal, PositionTypeOK
<1>2. refunded' \in [Investors -> BOOLEAN]
  BY DEF ReturnPrincipal
<1>3. PositionTypeOK'
  BY <1>1, <1>2 DEF ReturnPrincipal, PositionTypeOK, yieldVars, funderVars
<1>4. RecordTypeOK'
  BY PayOutType DEF ReturnPrincipal, RecordTypeOK
<1> QED
  BY <1>3, <1>4, TermsUnchanged DEF ReturnPrincipal

(* sweep_terminal_dust keeps the types.                                    *)
LEMMA SweepType ==
    ASSUME AllTypesOK, NEW amount \in Nat, SweepTerminalDust(amount)
    PROVE  AllTypesOK'
<1>1. Swept(amount) \in Int
  BY DEF AllTypesOK, RecordTypeOK, Swept
<1>2. PayOut(Swept(amount))
  BY DEF SweepTerminalDust
<1>3. balance' \in Nat
  BY <1>1, <1>2, PayOutType DEF AllTypesOK, RecordTypeOK
<1> QED
  BY <1>3, TermsUnchanged, PositionsUnchanged
     DEF AllTypesOK, RecordTypeOK, SweepTerminalDust, flowVars

(* Every way out of the round keeps the types.                             *)
LEMMA DisbursementTypeKept == now \in Nat /\ AllTypesOK /\ DisbursementNext => AllTypesOK'
<1> SUFFICES ASSUME now \in Nat, AllTypesOK, DisbursementNext
             PROVE  AllTypesOK'
  OBVIOUS
<1>1. contribution \in [Investors -> Nat] /\ Remaining \in Int
  BY DEF AllTypesOK, PositionTypeOK, RecordTypeOK, Remaining
<1>2. ASSUME NEW amount \in 1..Remaining, Release(amount)
      PROVE  AllTypesOK'
  BY <1>1, <1>2, ReleaseType
<1>3. ASSUME NEW i \in Investors, Refund(i)
      PROVE  AllTypesOK'
  <2>1. contribution[i] \in Nat
    BY <1>1
  <2> QED
    BY <1>3, <2>1, ReturnPrincipalType DEF Refund
<1>4. ASSUME NEW i \in Investors, NEW j \in Investors, RefundBatch(i, j)
      PROVE  AllTypesOK'
  <2>1. contribution[i] + contribution[j] \in Nat
    BY <1>1
  <2> QED
    BY <1>4, <2>1, ReturnPrincipalType DEF RefundBatch
<1>5. CASE CancelFunding
  BY <1>5, TermsUnchanged, PositionsUnchanged DEF AllTypesOK, CancelFunding, RecordTypeOK, flowVars
<1>6. ASSUME NEW amount \in 1..MaxDustSweep, SweepTerminalDust(amount)
      PROVE  AllTypesOK'
  BY <1>6, EscrowAssumption, SweepType
<1>7. CASE CloseEscrow
  BY <1>7, TermsUnchanged, PositionsUnchanged DEF AllTypesOK, CloseEscrow, RecordTypeOK, flowVars
<1> QED
  BY <1>2, <1>3, <1>4, <1>5, <1>6, <1>7, SettleType, WithdrawType, ClaimType DEF DisbursementNext

(* A stray transfer keeps the types.                                       *)
LEMMA TransferType ==
    ASSUME AllTypesOK, NEW amount \in Nat, ReceiveTransfer(amount)
    PROVE  AllTypesOK'
  BY TermsUnchanged, PositionsUnchanged DEF AllTypesOK, ReceiveTransfer, RecordTypeOK, flowVars

(* init writes values of the declared types.                               *)
LEMMA InitTypes == Init => AllTypesOK
<1> SUFFICES ASSUME EscrowInit PROVE AllTypesOK
  BY DEF Init
<1>1. TermTypeOK
  BY EscrowAssumption DEF EscrowInit, ValidTerms, InitTerms, TermTypeOK
<1>2. PositionTypeOK
  BY DEF EscrowInit, PositionTypeOK, Absent
<1>3. closed \in BOOLEAN
  BY Zenon DEF EscrowInit
<1>4. RecordTypeOK
  BY <1>3 DEF EscrowInit, RecordTypeOK, OptionalNat
<1> QED
  BY <1>1, <1>2, <1>4 DEF AllTypesOK

(* Every step of the escrow keeps the types.                               *)
LEMMA TypesKept == now \in Nat /\ AllTypesOK /\ [Next]_vars => AllTypesOK'
<1> SUFFICES ASSUME now \in Nat, AllTypesOK, [Next]_vars
             PROVE  AllTypesOK'
  OBVIOUS
<1>1. CASE EscrowNext
  BY <1>1, FundingTypeKept, TermsTypeKept, DisbursementTypeKept, TransferType, EscrowAssumption
     DEF EscrowNext
<1>2. CASE UNCHANGED escrowVars
  BY <1>2, TermsUnchanged, PositionsUnchanged DEF AllTypesOK, RecordTypeOK, escrowVars, flowVars
<1> QED
  BY <1>1, <1>2 DEF Next, vars

(* Every variable of the model has its declared type in every reachable    *)
(* state; in particular the escrow's token balance is never negative.      *)
THEOREM TypeCorrect == Spec => []TypeOK
<1>1. Spec => []AllTypesOK
  <2>1. GateTypeOK => now \in Nat
    BY DEF GateTypeOK
  <2> QED
    BY <2>1, InitTypes, TypesKept, GateTypes, PTL DEF Spec
<1>2. AllTypesOK /\ GateTypeOK => TypeOK
  BY TypeParts DEF AllTypesOK, TypeOK
<1> QED
  BY <1>1, <1>2, GateTypes, PTL

=============================================================================
