---------------------------- MODULE EscrowSafety ----------------------------
(***************************************************************************)
(* The safety invariants of the escrow that do not sum over the investors, *)
(* for all investors, amounts, terms and clocks.                           *)
(***************************************************************************)
EXTENDS EscrowTypes

-----------------------------------------------------------------------------
(* What each group of entrypoints can do to the variables the invariants   *)
(* speak of.                                                               *)

(* Funding is confined to the open state, keeps the terms and the exits,   *)
(* and may close the round on the amount it leaves behind.                 *)
ClosesOn(amount, target) ==
    \/ UNCHANGED <<status, fundingCloseSnapshot>>
    \/ CloseFunding(amount, target)

(* A deposit that reaches the target closes on what it leaves behind.      *)
LEMMA CreditFundingCloses ==
    ASSUME NEW newFunded, CreditFunding(newFunded)
    PROVE  fundedAmount' = newFunded /\ ClosesOn(fundedAmount', fundingTarget)
  BY DEF CreditFunding, ClosesOn

FundingEffect ==
    /\ status = 0
    /\ UNCHANGED <<termVars, exitVars, flowVars, settledAt, closed>>
    /\ ClosesOn(fundedAmount', fundingTarget)
    /\ balance' - principal' = balance - principal

(* A single deposit adds tokens and principal alike.                       *)
LEMMA DepositFrame ==
    ASSUME AllTypesOK, NEW i \in Investors, NEW a \in Nat, NEW y, NEW n, Deposit(i, a, y, n)
    PROVE  FundingEffect
<1>1. balance \in Int /\ principal \in Int
  BY DEF AllTypesOK, RecordTypeOK, PositionTypeOK
<1>2. /\ status = 0 /\ CreditFunding(fundedAmount + Credit(a))
      /\ UNCHANGED <<termVars, exitVars, flowVars, settledAt, closed>>
  BY DEF Deposit, FundingOpen
<1>3. balance' = balance + a /\ principal' = principal + a
  BY DEF Deposit, PayIn
<1> QED
  BY <1>1, <1>2, <1>3, CreditFundingCloses DEF FundingEffect

(* Every entrypoint of the funding phase has the funding effect.           *)
LEMMA FundingFrame == AllTypesOK /\ FundingNext => FundingEffect
<1> SUFFICES ASSUME AllTypesOK, FundingNext
             PROVE  FundingEffect
  OBVIOUS
<1>0. Amounts \subseteq Nat /\ balance \in Int /\ principal \in Int
  BY EscrowAssumption DEF AllTypesOK, RecordTypeOK, PositionTypeOK
<1>1. ASSUME NEW i \in Investors, NEW a \in Amounts, Unfund(i, a)
      PROVE  FundingEffect
  BY <1>0, <1>1 DEF Unfund, PayOut, ClosesOn, FundingEffect
<1>2. ASSUME NEW i \in Investors, NEW a \in Amounts, Fund(i, a) \/ Unfund(i, a)
      PROVE  FundingEffect
  BY <1>0, <1>1, <1>2, DepositFrame DEF Fund
<1>3. ASSUME NEW i \in Investors, NEW a \in Amounts, NEW lock \in Times,
             FundWithCommitment(i, a, lock)
      PROVE  FundingEffect
  <2>1. PICK y, n : Deposit(i, a, y, n)
    BY <1>3, Zenon DEF FundWithCommitment
  <2> QED
    BY <1>0, <2>1, DepositFrame
<1>4. ASSUME NEW i \in Investors, NEW j \in Investors, NEW a \in Amounts, NEW b \in Amounts,
             FundBatch(i, a, j, b)
      PROVE  FundingEffect
  <2>1. /\ status = 0 /\ CreditFunding(fundedAmount + Credit(a) + Credit(b))
        /\ UNCHANGED <<termVars, exitVars, flowVars, settledAt, closed>>
    BY <1>4 DEF FundBatch, FundingOpen
  <2>2. balance' = balance + (a + b) /\ principal' = principal + a + b
    BY <1>4 DEF FundBatch, PayIn
  <2> QED
    BY <1>0, <2>1, <2>2, CreditFundingCloses DEF FundingEffect
<1>5. CASE PartialSettle
  BY <1>0, <1>5 DEF PartialSettle, ClosesOn, positionVars, FundingEffect
<1> QED
  BY <1>2, <1>3, <1>4, <1>5 DEF FundingNext

(* A change of terms leaves positions and money alone; once the round is   *)
(* not open any more, the target and the base yield are fixed.             *)
LEMMA TermsFrame ==
    ASSUME TermsNext
    PROVE  /\ UNCHANGED nonTermVars
           /\ status # 0 => UNCHANGED <<fundingTarget, yieldBps, status, fundingCloseSnapshot>>
           /\ ClosesOn(fundedAmount', fundingTarget')
<1>1. ASSUME NEW target \in Targets, UpdateFundingTarget(target)
      PROVE  /\ UNCHANGED nonTermVars /\ status = 0
             /\ ClosesOn(fundedAmount', fundingTarget')
  BY <1>1 DEF UpdateFundingTarget, ClosesOn, nonTermVars
<1>2. ASSUME NEW time \in Times, UpdateMaturity(time)
      PROVE  status = 0
  BY <1>2 DEF UpdateMaturity
<1>3. ASSUME NEW yield \in Yields, UpdateYieldBps(yield)
      PROVE  status = 0
  BY <1>3 DEF UpdateYieldBps
<1>4. CASE \E target \in Targets : UpdateFundingTarget(target)
  BY <1>1, <1>4
<1>5. CASE UNCHANGED <<status, fundingCloseSnapshot, nonTermVars>>
           /\ (status = 0 \/ UNCHANGED <<fundingTarget, yieldBps, maturity>>)
  BY <1>5 DEF ClosesOn
<1> QED
  BY <1>2, <1>3, <1>4, <1>5 DEF TermsNext

(* A payment leaves the funding record alone; the status moves forward,    *)
(* except that a sweep turns any terminal status into settled.             *)
DisbursementEffect ==
    /\ UNCHANGED <<fundedAmount, termVars, fundingCloseSnapshot, yieldVars>>
    /\ \/ status = 1 /\ status' = 2
       \/ /\ UNCHANGED settledAt
          /\ \/ UNCHANGED status
             \/ status = 1 /\ status' = 3
             \/ status = 0 /\ status' = 4
             \/ IsTerminal(status) /\ status' = 2

(* Every way out of the round has the disbursement effect.                 *)
LEMMA DisbursementFrame == DisbursementNext => DisbursementEffect
<1> USE DEF DisbursementEffect
<1>1. CASE Settle
  BY <1>1 DEF Settle, positionVars
<1>2. ASSUME NEW amount \in 1..Remaining, Release(amount)
      PROVE  DisbursementEffect
  BY <1>2 DEF Release, positionVars
<1>3. CASE Withdraw
  BY <1>3 DEF Withdraw, positionVars
<1>4. ASSUME NEW i \in Investors, Claim(i) \/ Refund(i)
      PROVE  DisbursementEffect
  BY <1>4 DEF Claim, Refund, ReturnPrincipal
<1>5. ASSUME NEW i \in Investors, NEW j \in Investors, RefundBatch(i, j)
      PROVE  DisbursementEffect
  BY <1>5 DEF RefundBatch, ReturnPrincipal
<1>6. CASE CancelFunding
  BY <1>6 DEF CancelFunding, positionVars
<1>7. ASSUME NEW amount \in 1..MaxDustSweep, SweepTerminalDust(amount)
      PROVE  DisbursementEffect
  BY <1>7 DEF SweepTerminalDust, Sweepable, positionVars
<1>8. CASE CloseEscrow
  BY <1>8 DEF CloseEscrow, positionVars
<1> HIDE DEF DisbursementEffect
<1> QED
  BY <1>1, <1>2, <1>3, <1>4, <1>5, <1>6, <1>7, <1>8 DEF DisbursementNext

(* Every step is a call of one of the groups, a stray transfer, or leaves  *)
(* the escrow as it is.                                                    *)
LEMMA StepKinds ==
    [Next]_vars => \/ FundingNext
                   \/ TermsNext
                   \/ DisbursementNext
                   \/ \E amount \in Amounts : ReceiveTransfer(amount)
                   \/ UNCHANGED escrowVars
  BY DEF Next, EscrowNext, vars

-----------------------------------------------------------------------------
(* The snapshot *)

SnapshotInv == SnapshotTracksStatus /\ SnapshotPinsFunding

(* A close on the amount and the target that are in force then.            *)
LEMMA CloseKeepsSnapshotInv ==
    ASSUME AllTypesOK, AllTypesOK', SnapshotInv, status = 0, UNCHANGED settledAt,
           ClosesOn(fundedAmount', fundingTarget')
    PROVE  SnapshotInv'
<1>1. ~Closed /\ settledAt = Absent
  BY DEF SnapshotInv, SnapshotTracksStatus
<1>2. CASE UNCHANGED <<status, fundingCloseSnapshot>>
  BY <1>1, <1>2 DEF SnapshotInv, SnapshotTracksStatus, SnapshotPinsFunding, Closed
<1>3. CASE CloseFunding(fundedAmount', fundingTarget')
  <2>1. /\ status' = 1
        /\ fundingCloseSnapshot' = [totalPrincipal |-> fundedAmount',
                                    fundingTarget |-> fundingTarget']
    BY <1>1, <1>3 DEF CloseFunding, Closed
  <2>2. fundedAmount' \in Int /\ fundingTarget' \in Nat
    BY DEF AllTypesOK, RecordTypeOK, TermTypeOK
  <2>3. fundingCloseSnapshot' \in Snapshots
    BY <2>1, <2>2 DEF Snapshots
  <2>4. Closed'
    BY <2>3, EscrowAssumption DEF Closed
  <2> QED
    BY <1>1, <2>1, <2>4 DEF SnapshotInv, SnapshotTracksStatus, SnapshotPinsFunding
<1> QED
  BY <1>2, <1>3 DEF ClosesOn

(* Both statements about the snapshot are kept by every step.              *)
LEMMA SnapshotKept == now \in Nat /\ AllTypesOK /\ SnapshotInv /\ [Next]_vars => SnapshotInv'
<1> SUFFICES ASSUME now \in Nat, AllTypesOK, SnapshotInv, [Next]_vars
             PROVE  SnapshotInv'
  OBVIOUS
<1>1. AllTypesOK'
  BY TypesKept
<1>2. ASSUME UNCHANGED <<status, settledAt, fundedAmount, fundingTarget, fundingCloseSnapshot>>
      PROVE  SnapshotInv'
  BY <1>2 DEF SnapshotInv, SnapshotTracksStatus, SnapshotPinsFunding, Closed
<1>3. CASE FundingNext
  BY <1>1, <1>3, FundingFrame, CloseKeepsSnapshotInv DEF FundingEffect, termVars
<1>4. CASE TermsNext
  BY <1>1, <1>2, <1>4, TermsFrame, CloseKeepsSnapshotInv DEF nonTermVars
<1>5. CASE DisbursementNext
  <2>1. DisbursementEffect
    BY <1>5, DisbursementFrame
  <2>2. UNCHANGED <<fundedAmount, fundingTarget, fundingCloseSnapshot>>
    BY <2>1 DEF DisbursementEffect, termVars
  <2>3. status \in 0..4
    BY DEF AllTypesOK, RecordTypeOK
  <2> QED
    BY <2>1, <2>2, <2>3
       DEF DisbursementEffect, SnapshotInv, SnapshotTracksStatus, SnapshotPinsFunding, Closed,
           IsTerminal
<1>6. CASE \E amount \in Amounts : ReceiveTransfer(amount)
  BY <1>2, <1>6 DEF ReceiveTransfer, termVars
<1>7. CASE UNCHANGED escrowVars
  BY <1>2, <1>7 DEF escrowVars, termVars
<1> QED
  BY <1>3, <1>4, <1>5, <1>6, <1>7, StepKinds

(* What the invariants rest on, in every reachable state. *)
BaseInv == now \in Nat /\ AllTypesOK /\ SnapshotInv

(* The base of the invariants below holds in every reachable state.        *)
LEMMA BaseInvariant == Spec => []BaseInv
<1>1. Init => SnapshotInv
  BY DEF Init, EscrowInit, SnapshotInv, SnapshotTracksStatus, SnapshotPinsFunding, Closed
<1>2. TypeOK => now \in Nat /\ AllTypesOK
  BY TypeParts DEF TypeOK, GateTypeOK, AllTypesOK
<1> QED
  BY <1>1, <1>2, TypeCorrect, SnapshotKept, PTL DEF Spec, BaseInv

(* The snapshot tells how funding ended, in every reachable state, by      *)
(* whichever of the closing paths and whatever the terms.                  *)
THEOREM SnapshotStatus == Spec => []SnapshotTracksStatus
<1>1. BaseInv => SnapshotTracksStatus
  BY DEF BaseInv, SnapshotInv
<1> QED
  BY <1>1, BaseInvariant, PTL

(* The payout denominator is the funded amount from the close on.          *)
THEOREM SnapshotPinned == Spec => []SnapshotPinsFunding
<1>1. BaseInv => SnapshotPinsFunding
  BY DEF BaseInv, SnapshotInv
<1> QED
  BY <1>1, BaseInvariant, PTL

-----------------------------------------------------------------------------
(* Custody *)

(* A payment takes tokens and the liability they cover together, or it     *)
(* ends the round.                                                         *)
Backing == balance + releasedAmount - principal

BackingEffect == Backing' = Backing \/ status' \in {2, 3}

(* Every way out of the round moves tokens and liability together.         *)
LEMMA BackingFrame ==
    ASSUME AllTypesOK, DisbursementNext
    PROVE  BackingEffect
<1>1. /\ balance \in Int /\ releasedAmount \in Int /\ principal \in Int
      /\ contribution \in [Investors -> Nat] /\ fundedAmount \in Int
  BY DEF AllTypesOK, RecordTypeOK, PositionTypeOK
<1>2. ASSUME NEW amount \in 1..Remaining, Release(amount)
      PROVE  BackingEffect
  BY <1>1, <1>2 DEF Release, Remaining, PayOut, Backing, BackingEffect, positionVars
<1>3. ASSUME NEW i \in Investors, Refund(i)
      PROVE  BackingEffect
  <2>1. contribution[i] \in Nat
    BY <1>1
  <2> QED
    BY <1>1, <1>3, <2>1 DEF Refund, ReturnPrincipal, PayOut, Backing, BackingEffect
<1>4. ASSUME NEW i \in Investors, NEW j \in Investors, RefundBatch(i, j)
      PROVE  BackingEffect
  <2>1. contribution[i] + contribution[j] \in Nat
    BY <1>1
  <2> QED
    BY <1>1, <1>4, <2>1 DEF RefundBatch, ReturnPrincipal, PayOut, Backing, BackingEffect
<1>5. ASSUME NEW i \in Investors, Claim(i)
      PROVE  BackingEffect
  BY <1>5 DEF Claim, Claimable, BackingEffect
<1>6. CASE CancelFunding
  BY <1>6 DEF CancelFunding, Backing, BackingEffect, positionVars, flowVars
<1>7. ASSUME NEW amount \in 1..MaxDustSweep, SweepTerminalDust(amount)
      PROVE  BackingEffect
  BY <1>7 DEF SweepTerminalDust, Sweepable, BackingEffect
<1>8. CASE CloseEscrow
  BY <1>8 DEF CloseEscrow, Backing, BackingEffect, positionVars, flowVars
<1>9. CASE Settle \/ Withdraw
  BY <1>9 DEF Settle, Withdraw, BackingEffect
<1>10. ASSUME NEW i \in Investors, Claim(i) \/ Refund(i)
       PROVE  BackingEffect
  BY <1>3, <1>5, <1>10
<1> QED
  BY <1>2, <1>4, <1>6, <1>7, <1>8, <1>9, <1>10 DEF DisbursementNext

(* Arithmetic: cover that is moved evenly, or grown, still covers.         *)
LEMMA StillCovers ==
    ASSUME NEW b \in Int, NEW r \in Int, NEW p \in Int,
           NEW c \in Int, NEW s \in Int, NEW q \in Int,
           b + r >= p
    PROVE  /\ c + s - q = b + r - p => c + s >= q
           /\ c - q = b - p /\ s = r => c + s >= q
           /\ c >= b /\ s = r /\ q = p => c + s >= q
  OBVIOUS

(* The recorded principal stays covered through every step.                *)
LEMMA BackingKept == BaseInv /\ PrincipalBacked /\ [Next]_vars => PrincipalBacked'
<1> SUFFICES ASSUME BaseInv, PrincipalBacked, [Next]_vars, status' \in {0, 1, 4}
             PROVE  balance' + releasedAmount' >= principal'
  BY DEF PrincipalBacked
<1>1. AllTypesOK /\ AllTypesOK'
  BY TypesKept DEF BaseInv
<1>2. /\ balance \in Int /\ releasedAmount \in Int /\ principal \in Int
      /\ balance' \in Int /\ releasedAmount' \in Int /\ principal' \in Int
  BY <1>1 DEF AllTypesOK, RecordTypeOK, PositionTypeOK
<1>3. ASSUME status \in {0, 1, 4},
             \/ Backing' = Backing
             \/ balance' - principal' = balance - principal /\ UNCHANGED releasedAmount
             \/ balance' >= balance /\ UNCHANGED <<releasedAmount, principal>>
      PROVE  balance' + releasedAmount' >= principal'
  <2>1. balance + releasedAmount >= principal
    BY <1>3 DEF PrincipalBacked
  <2>2. \/ balance' + releasedAmount' - principal' = balance + releasedAmount - principal
        \/ balance' - principal' = balance - principal /\ releasedAmount' = releasedAmount
        \/ balance' >= balance /\ releasedAmount' = releasedAmount /\ principal' = principal
    BY <1>3 DEF Backing
  <2> QED
    BY <1>2, <2>1, <2>2, StillCovers
<1>4. CASE FundingNext
  BY <1>1, <1>3, <1>4, FundingFrame DEF FundingEffect, flowVars
<1>5. CASE TermsNext
  <2>1. UNCHANGED <<balance, releasedAmount, principal>>
    BY <1>5, TermsFrame DEF nonTermVars, positionVars, flowVars
  <2>2. status # 0 => UNCHANGED status
    BY <1>5, TermsFrame
  <2> QED
    BY <1>3, <2>1, <2>2 DEF Backing
<1>6. CASE DisbursementNext
  <2>1. status \in {0, 1, 4}
    BY <1>6, DisbursementFrame DEF DisbursementEffect
  <2> QED
    BY <1>1, <1>3, <1>6, <2>1, BackingFrame DEF BackingEffect
<1>7. ASSUME NEW amount \in Amounts, ReceiveTransfer(amount)
      PROVE  balance' + releasedAmount' >= principal'
  <2>1. UNCHANGED <<status, releasedAmount, principal>>
    BY <1>7 DEF ReceiveTransfer, flowVars, positionVars
  <2>2. balance' >= balance
    BY <1>2, <1>7, EscrowAssumption DEF ReceiveTransfer
  <2> QED
    BY <1>3, <2>1, <2>2
<1>8. CASE UNCHANGED escrowVars
  BY <1>3, <1>8 DEF escrowVars, Backing, flowVars, positionVars
<1> QED
  BY <1>4, <1>5, <1>6, <1>7, <1>8, StepKinds

(* Until a round ends in settlement or withdrawal, what the escrow holds   *)
(* and what it released to the SME cover all recorded principal.           *)
THEOREM PrincipalIsBacked == Spec => []PrincipalBacked
<1>1. Init => PrincipalBacked
  BY DEF Init, EscrowInit, PrincipalBacked
<1> QED
  BY <1>1, BackingKept, BaseInvariant, PTL DEF Spec

-----------------------------------------------------------------------------
(* Entitlements *)

(* From the close on, nothing a payout is computed from is written.        *)
LEMMA EntitlementKept ==
    ASSUME BaseInv, [Next]_vars, Closed
    PROVE  UNCHANGED <<fundingCloseSnapshot, contribution, effectiveYield, yieldBps>>
<1>1. status \notin {0, 4}
  BY DEF BaseInv, SnapshotInv, SnapshotTracksStatus
<1>2. CASE FundingNext
  BY <1>1, <1>2, FundingFrame DEF BaseInv, FundingEffect
<1>3. CASE TermsNext
  BY <1>1, <1>3, TermsFrame DEF nonTermVars, positionVars, yieldVars
<1>4. CASE DisbursementNext
  <2>1. UNCHANGED <<fundingCloseSnapshot, effectiveYield, yieldBps>>
    BY <1>4, DisbursementFrame DEF DisbursementEffect, termVars, yieldVars
  <2>2. \A S, amount : ~ReturnPrincipal(S, amount)
    BY <1>1 DEF ReturnPrincipal, RefundOpen
  <2>3. UNCHANGED contribution
    BY <1>4, <2>2
       DEF DisbursementNext, Settle, Release, Withdraw, Claim, Refund, RefundBatch, CancelFunding,
           SweepTerminalDust, CloseEscrow, positionVars
  <2> QED
    BY <2>1, <2>3
<1>5. CASE \E amount \in Amounts : ReceiveTransfer(amount)
  BY <1>5 DEF ReceiveTransfer, termVars, positionVars, yieldVars
<1>6. CASE UNCHANGED escrowVars
  BY <1>6 DEF escrowVars, termVars, positionVars, yieldVars
<1> QED
  BY <1>2, <1>3, <1>4, <1>5, <1>6, StepKinds

(* So the payout of every investor is frozen by the close.                 *)
LEMMA PayoutFrozen ==
    ASSUME BaseInv, [Next]_vars, Closed, NEW i \in Investors
    PROVE  InvestorPayout(i)' = InvestorPayout(i)
  BY EntitlementKept DEF InvestorPayout

(* From the close on, no call moves what an investor is entitled to.       *)
THEOREM EntitlementIsFrozen == Spec => EntitlementFrozen
<1>1. BaseInv /\ [Next]_vars =>
        [Closed => /\ fundingCloseSnapshot' = fundingCloseSnapshot
                   /\ \A i \in Investors : InvestorPayout(i)' = InvestorPayout(i)]_vars
  BY EntitlementKept, PayoutFrozen
<1> QED
  BY <1>1, BaseInvariant, PTL DEF Spec, EntitlementFrozen

-----------------------------------------------------------------------------
(* Exits *)

(* A claim can only have happened in a closed round, a refund only in one  *)
(* that was never closed and never will be.                                *)
ExitsSplit ==
    /\ \A i \in Investors : claimed[i] => Closed
    /\ \A i \in Investors : refunded[i] => ~Closed /\ status # 0

(* The two statements about exits, and the record of what was paid.        *)
ExitInv == ExitsSplit /\ PaidExactlyOnce

(* Only a claim pays an investor, only a refund marks one as refunded.     *)
LEMMA ExitFrame ==
    ASSUME [Next]_vars
    PROVE  \/ UNCHANGED exitVars
           \/ \E i \in Investors : Claim(i)
           \/ status = 4 /\ UNCHANGED <<claimed, paid, status, fundingCloseSnapshot>>
<1>1. CASE FundingNext
  <2>1. \A i, a, y, n : Deposit(i, a, y, n) => UNCHANGED exitVars
    BY DEF Deposit
  <2> QED
    BY <1>1, <2>1
       DEF FundingNext, Fund, Unfund, FundWithCommitment, FundBatch, PartialSettle, positionVars
<1>2. CASE TermsNext
  BY <1>2, TermsFrame DEF nonTermVars, positionVars
<1>3. CASE DisbursementNext
  <2>1. \A S, amount : ReturnPrincipal(S, amount) =>
            status = 4 /\ UNCHANGED <<claimed, paid, status, fundingCloseSnapshot>>
    BY DEF ReturnPrincipal, RefundOpen
  <2> QED
    BY <1>3, <2>1
       DEF DisbursementNext, Settle, Release, Withdraw, Refund, RefundBatch, CancelFunding,
           SweepTerminalDust, CloseEscrow, positionVars
<1>4. CASE \E amount \in Amounts : ReceiveTransfer(amount)
  BY <1>4 DEF ReceiveTransfer, positionVars
<1>5. CASE UNCHANGED escrowVars
  BY <1>5 DEF escrowVars, positionVars
<1> QED
  BY <1>1, <1>2, <1>3, <1>4, <1>5, StepKinds

(* A round that is neither open nor closed stays so.                       *)
LEMMA UnclosedKept ==
    ASSUME BaseInv, [Next]_vars, ~Closed, status # 0
    PROVE  ~Closed' /\ status' # 0
<1>1. CASE FundingNext
  BY <1>1, FundingFrame DEF BaseInv, FundingEffect
<1>2. CASE TermsNext
  BY <1>2, TermsFrame DEF Closed
<1>3. CASE DisbursementNext
  BY <1>3, DisbursementFrame DEF DisbursementEffect, Closed
<1>4. CASE \E amount \in Amounts : ReceiveTransfer(amount)
  BY <1>4 DEF ReceiveTransfer, Closed
<1>5. CASE UNCHANGED escrowVars
  BY <1>5 DEF escrowVars, Closed
<1> QED
  BY <1>1, <1>2, <1>3, <1>4, <1>5, StepKinds

(* Something can be claimed in a closed round only.                        *)
LEMMA ClaimedWhenClosed ==
    ASSUME NEW i \in Investors, Claim(i)
    PROVE  /\ Closed /\ ~claimed[i]
           /\ claimed' = [claimed EXCEPT ![i] = TRUE]
           /\ paid' = [paid EXCEPT ![i] = paid[i] + InvestorPayout(i)]
           /\ UNCHANGED <<refunded, status, fundingCloseSnapshot>>
<1>1. InvestorPayout(i) > 0
  BY DEF Claim, PayOut
<1>2. Closed
  BY <1>1 DEF InvestorPayout, Closed
<1> QED
  BY <1>2 DEF Claim, Claimable

(* Claims and refunds stay on their sides of the close.                    *)
LEMMA SplitKept == BaseInv /\ ExitsSplit /\ [Next]_vars => ExitsSplit'
<1> SUFFICES ASSUME BaseInv, ExitsSplit, [Next]_vars
             PROVE  ExitsSplit'
  OBVIOUS
<1>1. Closed => Closed'
  BY EntitlementKept DEF Closed
<1>2. /\ claimed \in [Investors -> BOOLEAN]
      /\ status = 4 => ~Closed
  BY DEF BaseInv, AllTypesOK, PositionTypeOK, SnapshotInv, SnapshotTracksStatus
<1>3. CASE UNCHANGED exitVars
  BY <1>1, <1>3, UnclosedKept DEF ExitsSplit, exitVars
<1>4. ASSUME NEW i \in Investors, Claim(i)
      PROVE  ExitsSplit'
  BY <1>1, <1>2, <1>4, ClaimedWhenClosed DEF ExitsSplit, Closed
<1>5. CASE status = 4 /\ UNCHANGED <<claimed, paid, status, fundingCloseSnapshot>>
  BY <1>1, <1>2, <1>5 DEF ExitsSplit, Closed
<1> QED
  BY <1>3, <1>4, <1>5, ExitFrame

(* What was paid stays what the claimants are entitled to.                 *)
LEMMA PaymentsKept ==
    BaseInv /\ ExitsSplit /\ PaidExactlyOnce /\ [Next]_vars => PaidExactlyOnce'
<1> SUFFICES ASSUME BaseInv, ExitsSplit, PaidExactlyOnce, [Next]_vars, NEW j \in Investors
             PROVE  paid'[j] = IF claimed'[j] THEN InvestorPayout(j)' ELSE 0
  BY DEF PaidExactlyOnce
<1>1. paid[j] = IF claimed[j] THEN InvestorPayout(j) ELSE 0
  BY DEF PaidExactlyOnce
<1>2. Closed => InvestorPayout(j)' = InvestorPayout(j)
  BY PayoutFrozen
<1>3. claimed[j] => Closed
  BY DEF ExitsSplit
<1>4. CASE UNCHANGED <<claimed, paid>>
  BY <1>1, <1>2, <1>3, <1>4
<1>5. ASSUME NEW i \in Investors, Claim(i)
      PROVE  paid'[j] = IF claimed'[j] THEN InvestorPayout(j)' ELSE 0
  <2>1. /\ claimed \in [Investors -> BOOLEAN] /\ paid \in [Investors -> Nat]
        /\ InvestorPayout(i) \in Int
    BY PayoutType DEF BaseInv, AllTypesOK, PositionTypeOK
  <2>2. /\ Closed /\ ~claimed[i]
        /\ claimed' = [claimed EXCEPT ![i] = TRUE]
        /\ paid' = [paid EXCEPT ![i] = paid[i] + InvestorPayout(i)]
    BY <1>5, ClaimedWhenClosed
  <2>3. CASE j = i
    BY <1>1, <1>2, <2>1, <2>2, <2>3
  <2>4. CASE j # i
    BY <1>1, <1>2, <2>1, <2>2, <2>4
  <2> QED
    BY <2>3, <2>4
<1> QED
  BY <1>4, <1>5, ExitFrame DEF exitVars

(* Exits are split and payments exact in every reachable state.            *)
LEMMA ExitInvariant == Spec => []ExitInv
<1>1. Init => ExitInv
  BY DEF Init, EscrowInit, ExitInv, ExitsSplit, PaidExactlyOnce
<1>2. BaseInv /\ ExitInv /\ [Next]_vars => ExitInv'
  BY SplitKept, PaymentsKept DEF ExitInv
<1> QED
  BY <1>1, <1>2, BaseInvariant, PTL DEF Spec

(* Nobody is both refunded and paid out.                                   *)
THEOREM OneWayOut == Spec => []NoRefundAndPayout
<1>1. ExitInv => NoRefundAndPayout
  BY DEF ExitInv, ExitsSplit, NoRefundAndPayout
<1> QED
  BY <1>1, ExitInvariant, PTL

(* Everyone who claimed was paid the entitlement, exactly once, and nobody *)
(* else was paid.                                                          *)
THEOREM ClaimsPaidOnce == Spec => []PaidExactlyOnce
<1>1. ExitInv => PaidExactlyOnce
  BY DEF ExitInv
<1> QED
  BY <1>1, ExitInvariant, PTL

=============================================================================
