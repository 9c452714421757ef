---------------------------- MODULE PartiesProofs ----------------------------
(***************************************************************************)
(* Rotations beside the money calls: nobody ends up with a counterparty    *)
(* other than the one they put their money in for.  For all investors,     *)
(* addresses, amounts, terms and clocks.                                   *)
(***************************************************************************)
EXTENDS EscrowParties, EscrowAccounting

(* What is released only grows from zero.                                  *)
ReleasedGrows == releasedAmount >= 0

(* No step takes a release back.                                           *)
LEMMA ReleaseKept == RoundInv /\ ReleasedGrows /\ [Next]_vars => ReleasedGrows'
<1> SUFFICES ASSUME RoundInv, ReleasedGrows, [Next]_vars
             PROVE  releasedAmount' >= 0
  BY DEF ReleasedGrows
<1>0. AllTypesOK /\ releasedAmount \in Int /\ fundedAmount \in Int
  BY DEF RoundInv, BaseInv, AllTypesOK, RecordTypeOK
<1>1. CASE releasedAmount' = releasedAmount
  BY <1>1 DEF ReleasedGrows
<1>2. CASE FundingNext
  BY <1>0, <1>1, <1>2, FundingFrame DEF FundingEffect, flowVars
<1>3. CASE TermsNext
  BY <1>1, <1>3, TermsFrame DEF nonTermVars, flowVars
<1>4. ASSUME NEW amount \in 1..Remaining, Release(amount)
      PROVE  releasedAmount' >= 0
  <2>1. amount \in Int /\ amount >= 1 /\ releasedAmount' = releasedAmount + amount
    BY <1>0, <1>4 DEF Release, Remaining
  <2> QED
    BY <1>0, <2>1 DEF ReleasedGrows
<1>5. CASE DisbursementNext
  <2>1. UNCHANGED releasedAmount \/ \E amount \in 1..Remaining : Release(amount)
    BY <1>5 DEF DisbursementNext, Settle, Withdraw, Claim, Refund, RefundBatch, ReturnPrincipal,
                CancelFunding, SweepTerminalDust, CloseEscrow, flowVars
  <2> QED
    BY <1>1, <1>4, <2>1
<1>6. CASE \E amount \in Amounts : ReceiveTransfer(amount)
  BY <1>1, <1>6 DEF ReceiveTransfer, flowVars
<1>7. CASE UNCHANGED escrowVars
  BY <1>1, <1>7 DEF escrowVars, flowVars
<1> QED
  BY <1>2, <1>3, <1>5, <1>6, <1>7, StepKinds

(* Once the round is not open any more, what was funded is fixed.          *)
LEMMA FundedStays ==
    ASSUME RoundInv, [Next]_vars, status # 0
    PROVE  fundedAmount' = fundedAmount /\ status' # 0
<1>1. CASE FundingNext
  BY <1>1, FundingFrame DEF FundingEffect, RoundInv, BaseInv
<1>2. CASE TermsNext
  BY <1>2, TermsFrame DEF nonTermVars
<1>3. CASE DisbursementNext
  BY <1>3, DisbursementFrame DEF DisbursementEffect
<1>4. CASE \E amount \in Amounts : ReceiveTransfer(amount)
  BY <1>4 DEF ReceiveTransfer
<1>5. CASE UNCHANGED escrowVars
  BY <1>5 DEF escrowVars
<1> QED
  BY <1>1, <1>2, <1>3, <1>4, <1>5, StepKinds

(* A funded escrow pays only when something was funded.                    *)
LEMMA PaysWhatWasFunded ==
    ASSUME RoundInv, ReleasedGrows, [Next]_vars, status = 1, balance' < balance
    PROVE  fundedAmount > 0
<1>0. /\ AllTypesOK /\ releasedAmount \in Int /\ fundedAmount \in Int /\ balance \in Nat
      /\ releasedAmount >= 0
  BY DEF RoundInv, BaseInv, AllTypesOK, RecordTypeOK, ReleasedGrows
<1>1. balance' # balance
  BY <1>0
<1>2. CASE FundingNext
  BY <1>0, <1>2, FundingFrame DEF FundingEffect
<1>3. CASE TermsNext
  BY <1>1, <1>3, TermsFrame DEF nonTermVars
<1>4. ASSUME NEW amount \in 1..Remaining, Release(amount)
      PROVE  fundedAmount > 0
  BY <1>0, <1>4 DEF Remaining
<1>5. CASE Withdraw
  <2> DEFINE fee == ProtocolFee(Remaining, protocolFeeBps)
  <2>1. Remaining \in Int /\ fee \in Int
    BY <1>0 DEF Remaining, ProtocolFee, AllTypesOK, TermTypeOK, Bps, BpsDenominator
  <2>2. balance' = balance - (fee + (Remaining - fee))
    BY <1>5 DEF Withdraw
  <2> HIDE DEF fee
  <2>3. fee + (Remaining - fee) = Remaining
    BY <2>1
  <2>4. PICK left \in Int : left = balance'
    BY <1>0, <2>1, <2>2, <2>3
  <2>5. left = balance - Remaining /\ left < balance
    BY <2>2, <2>3, <2>4
  <2>6. Remaining > 0
    BY <1>0, <2>1, <2>5
  <2> QED
    BY <1>0, <2>6 DEF Remaining
<1>6. CASE DisbursementNext
  <2>1. \/ \E amount \in 1..Remaining : Release(amount)
        \/ Withdraw
        \/ UNCHANGED balance
        \/ status # 1
    BY <1>6 DEF DisbursementNext, Settle, Claim, Claimable, Refund, RefundBatch, ReturnPrincipal,
                RefundOpen, CancelFunding, SweepTerminalDust, Sweepable, IsTerminal, CloseEscrow
  <2> QED
    BY <1>1, <1>4, <1>5, <2>1
<1>7. ASSUME NEW amount \in Amounts, ReceiveTransfer(amount)
      PROVE  FALSE
  <2>1. balance' = balance + amount /\ amount \in Nat
    BY <1>7, EscrowAssumption DEF ReceiveTransfer
  <2> QED
    BY <1>0, <2>1
<1>8. CASE UNCHANGED escrowVars
  BY <1>1, <1>8 DEF escrowVars
<1> QED
  BY <1>2, <1>3, <1>6, <1>7, <1>8, StepKinds

(* Nothing funded, nobody in: the index has an entry for every funder and  *)
(* each entry has cost a unit of funding.                                  *)
LEMMA NobodyIn ==
    ASSUME RoundInv, InvestorIndexSound, fundedAmount = 0
    PROVE  Funders = {}
<1>1. investorIndex \in Seq(Investors)
  BY DEF RoundInv, BaseInv, AllTypesOK, PositionTypeOK
<1>2. Len(investorIndex) = 0
  BY <1>1 DEF InvestorIndexSound
<1>3. DOMAIN investorIndex = {}
  BY <1>1, <1>2
<1> QED
  BY <1>3 DEF InvestorIndexSound

(* Whoever is in relies on the addresses in force; the SME in force is the *)
(* only one who was paid, and was paid out of something.                   *)
RelianceInv ==
    /\ \A i \in Funders : relied[i] = <<sme, registry>>
    /\ beneficiaries \subseteq {sme}
    /\ beneficiaries # {} => status # 0 /\ fundedAmount > 0

(* A money call.                                                           *)
LEMMA MoneyCallsKeep ==
    ASSUME RoundInv, ReleasedGrows, RelianceInv, Next, RecordReliance, UNCHANGED partyVars
    PROVE  RelianceInv'
<1>0. /\ sme' = sme /\ registry' = registry
      /\ contribution \in [Investors -> Nat] /\ fundedAmount \in Int
  BY DEF partyVars, RoundInv, BaseInv, AllTypesOK, PositionTypeOK, RecordTypeOK
<1>1. ASSUME NEW i \in Investors, contribution'[i] > 0
      PROVE  relied'[i] = <<sme', registry'>>
  <2>1. CASE contribution[i] = 0
    BY <1>0, <1>1, <2>1 DEF RecordReliance
  <2>2. CASE contribution[i] # 0
    <3>1. contribution[i] > 0
      BY <1>0, <2>2
    <3> QED
      BY <1>0, <2>2, <3>1 DEF RecordReliance, RelianceInv, Funders
  <2> QED
    BY <2>1, <2>2
<1>2. beneficiaries' \subseteq {sme'}
  BY <1>0 DEF RecordReliance, RelianceInv
<1>3. CASE beneficiaries' = beneficiaries
  <2>1. beneficiaries # {} => status' # 0 /\ fundedAmount' = fundedAmount /\ fundedAmount > 0
    BY FundedStays DEF RelianceInv
  <2> QED
    BY <1>1, <1>2, <1>3, <2>1 DEF RelianceInv, Funders
<1>4. CASE beneficiaries' # beneficiaries
  <2>1. status = 1 /\ balance' < balance
    BY <1>4 DEF RecordReliance
  <2>2. status' # 0 /\ fundedAmount' = fundedAmount /\ fundedAmount > 0
    BY <2>1, FundedStays, PaysWhatWasFunded
  <2> QED
    BY <1>1, <1>2, <2>2 DEF RelianceInv, Funders
<1> QED
  BY <1>3, <1>4

(* A rotation that moves the SME or the registry finds nobody in.          *)
LEMMA RotationsKeep ==
    ASSUME RoundInv, InvestorIndexSound, RelianceInv, Rotation, UNCHANGED <<vars, relianceVars>>
    PROVE  RelianceInv'
<1>1. /\ contribution' = contribution /\ status' = status /\ fundedAmount' = fundedAmount
      /\ relied' = relied /\ beneficiaries' = beneficiaries
  BY DEF vars, escrowVars, positionVars, relianceVars
<1>2. Funders' = Funders
  BY <1>1 DEF Funders
<1>3. CASE UNCHANGED <<sme, registry>>
  BY <1>1, <1>2, <1>3 DEF RelianceInv
<1>4. CASE fundedAmount = 0
  <2>1. Funders = {} /\ beneficiaries = {}
    BY <1>4, NobodyIn DEF RelianceInv
  <2> QED
    BY <1>1, <1>2, <2>1 DEF RelianceInv
<1> QED
  BY <1>3, <1>4 DEF Rotation, RotateBeneficiary, RotatePayer, RebindRegistryRef

(* Whatever the rotations do in between, the money calls are those of one  *)
(* escrow: every theorem about the escrow holds beside the rotations.      *)
THEOREM RotationsSpareTheEscrow == PartiesSpec => Spec
<1>1. PartiesInit => Init
  BY DEF PartiesInit
<1>2. [PartiesNext]_partiesVars => [Next]_vars
  BY DEF PartiesNext, partiesVars
<1> QED
  BY <1>1, <1>2, PTL DEF PartiesSpec, Spec

(* Investors deal with the SME and under the registry hint they put their  *)
(* money in for, and the proceeds of the round go to that SME alone,       *)
(* however rotations, departures, early closes and instalments mix.        *)
THEOREM CounterpartyIsKept == PartiesSpec => []OneCounterparty
<1>1. PartiesSpec => Spec
  BY RotationsSpareTheEscrow
<1>2. Spec => []ReleasedGrows
  <2>1. Init => ReleasedGrows
    BY DEF Init, EscrowInit, ReleasedGrows
  <2> QED
    BY <2>1, ReleaseKept, RoundInvariant, PTL DEF Spec
<1>3. PartiesInit => RelianceInv
  <2> SUFFICES ASSUME PartiesInit
               PROVE  RelianceInv
    OBVIOUS
  <2>1. contribution = [i \in Investors |-> 0] /\ beneficiaries = {}
    BY DEF PartiesInit, Init, EscrowInit
  <2> QED
    BY <2>1 DEF RelianceInv, Funders
<1>4. RoundInv /\ ReleasedGrows /\ InvestorIndexSound /\ RelianceInv /\ [PartiesNext]_partiesVars
        => RelianceInv'
  <2> SUFFICES ASSUME RoundInv, ReleasedGrows, InvestorIndexSound, RelianceInv,
                      [PartiesNext]_partiesVars
               PROVE  RelianceInv'
    OBVIOUS
  <2>1. CASE UNCHANGED partiesVars
    BY <2>1 DEF partiesVars, vars, escrowVars, positionVars, partyVars, relianceVars,
                RelianceInv, Funders
  <2> QED
    BY <2>1, MoneyCallsKeep, RotationsKeep DEF PartiesNext
<1>5. RelianceInv => OneCounterparty
  BY DEF RelianceInv, OneCounterparty
<1> QED
  BY <1>1, <1>2, <1>3, <1>4, <1>5, RoundInvariant, IndexServes, PTL DEF PartiesSpec

=============================================================================
