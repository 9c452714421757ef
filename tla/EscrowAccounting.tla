-------------------------- MODULE EscrowAccounting --------------------------
(***************************************************************************)
(* The books of the escrow: the funder counter, the caps, the investor     *)
(* index and the distributed principal; what is left for whoever is still  *)
(* to be refunded or paid, and what a share of the pool is.  For all       *)
(* investors, amounts, terms and clocks.                                   *)
(***************************************************************************)
EXTENDS EscrowConduct, SumProofs

-----------------------------------------------------------------------------
(* What a step may be, for the books *)

(* The four kinds of funding calls.                                        *)
LEMMA FundingKinds ==
    ASSUME FundingNext
    PROVE  \/ \E i \in Investors, a \in Nat : \E y, n : Deposit(i, a, y, n)
           \/ \E i \in Investors, a \in Nat : Unfund(i, a)
           \/ \E i, j \in Investors, a, b \in Nat : FundBatch(i, a, j, b)
           \/ PartialSettle
<1>0. Amounts \subseteq Nat
  BY EscrowAssumption
<1>1. ASSUME NEW i \in Investors, NEW a \in Amounts, Fund(i, a)
      PROVE  \E k \in Investors, c \in Nat : \E y, n : Deposit(k, c, y, n)
  BY <1>0, <1>1 DEF Fund
<1>2. ASSUME NEW i \in Investors, NEW a \in Amounts, NEW lock \in Times,
             FundWithCommitment(i, a, lock)
      PROVE  \E k \in Investors, c \in Nat : \E y, n : Deposit(k, c, y, n)
  <2>1. PICK y, n : Deposit(i, a, y, n)
    BY <1>2, Zenon DEF FundWithCommitment
  <2> QED
    BY <1>0, <2>1
<1> QED
  BY <1>0, <1>1, <1>2 DEF FundingNext

-----------------------------------------------------------------------------
(* Counting the funders *)

(* Those who are in the round, or were when it was cancelled.              *)
Members == {i \in Investors : contribution[i] > 0 \/ refunded[i]}

(* In an open round the members are the funders.                           *)
LEMMA OpenMembers ==
    ASSUME RoundInv, status = 0
    PROVE  Members = {i \in Investors : contribution[i] > 0} /\ \A i \in Investors : ~refunded[i]
  BY DEF RoundInv, ExitsSplit, Members

(* One element more or less.                                               *)
LEMMA OneMoreOrLess ==
    ASSUME NEW S, IsFiniteSet(S), NEW i
    PROVE  /\ IsFiniteSet(S \cup {i})
           /\ Cardinality(S \cup {i}) = Cardinality(S) + IF i \in S THEN 0 ELSE 1
           /\ i \in S => /\ Cardinality(S) > 0
                         /\ Cardinality(S \ {i}) = Cardinality(S) - 1
<1>1. Cardinality(S) \in Nat
  BY FS_CardinalityType
<1>2. i \in S => Cardinality(S) # 0
  BY FS_EmptySet
<1> QED
  BY <1>1, <1>2, FS_AddElement, FS_RemoveElement

(* The set of members is finite, as the investors are.                     *)
LEMMA MembersFinite == IsFiniteSet(Members) /\ Cardinality(Members) \in Nat
<1>1. Members \in SUBSET Investors
  BY DEF Members
<1> QED
  BY <1>1, AllowlistAssumption, FS_Subset, FS_CardinalityType

(* What a deposit adds to the count is what it adds to the members.        *)
LEMMA DepositCounts ==
    ASSUME RoundInv, FunderCountExact, NEW i \in Investors, NEW a \in Nat, NEW y, NEW n,
           Deposit(i, a, y, n)
    PROVE  FunderCountExact'
<1>1. /\ contribution \in [Investors -> Nat] /\ a > 0 /\ status = 0
      /\ contribution' = [contribution EXCEPT ![i] = contribution[i] + a]
      /\ uniqueFunderCount' = uniqueFunderCount + FunderIncrement(i)
      /\ refunded' = refunded
  BY DEF Deposit, Admissible, FundingOpen, exitVars, RoundInv, BaseInv, AllTypesOK, PositionTypeOK
<1>2. uniqueFunderCount = Cardinality(Members)
  BY DEF FunderCountExact, Members
<1>3. \A j \in Investors : contribution'[j] > 0 <=> (contribution[j] > 0 \/ j = i)
  BY <1>1
<1>4. Members' = Members \cup {i}
  BY <1>1, <1>3 DEF Members
<1>5. FunderIncrement(i) = IF i \in Members THEN 0 ELSE 1
  <2>1. i \in Members <=> ~IsFirst(i)
    BY <1>1, OpenMembers DEF IsFirst
  <2> QED
    BY <2>1 DEF FunderIncrement
<1>6. Cardinality(Members \cup {i}) = Cardinality(Members) + IF i \in Members THEN 0 ELSE 1
  BY MembersFinite, OneMoreOrLess
<1>7. uniqueFunderCount' = Cardinality(Members')
  BY <1>1, <1>2, <1>4, <1>5, <1>6
<1> QED
  BY <1>7 DEF FunderCountExact, Members

(* The same for a batch of two.                                            *)
LEMMA BatchCounts ==
    ASSUME RoundInv, FunderCountExact, NEW i \in Investors, NEW j \in Investors,
           NEW a \in Nat, NEW b \in Nat, FundBatch(i, a, j, b)
    PROVE  FunderCountExact'
<1>1. /\ contribution \in [Investors -> Nat] /\ a > 0 /\ b > 0 /\ status = 0 /\ i # j
      /\ contribution' = [contribution EXCEPT ![i] = contribution[i] + a,
                                             ![j] = contribution[j] + b]
      /\ uniqueFunderCount' = uniqueFunderCount + FunderIncrement(i) + FunderIncrement(j)
      /\ refunded' = refunded
  BY DEF FundBatch, Admissible, FundingOpen, exitVars, RoundInv, BaseInv, AllTypesOK, PositionTypeOK
<1>2. uniqueFunderCount = Cardinality(Members)
  BY DEF FunderCountExact, Members
<1>3. \A k \in Investors : contribution'[k] > 0 <=> (contribution[k] > 0 \/ k = i \/ k = j)
  BY <1>1
<1>4. Members' = (Members \cup {i}) \cup {j}
  BY <1>1, <1>3 DEF Members
<1>5. /\ FunderIncrement(i) = IF i \in Members THEN 0 ELSE 1
      /\ FunderIncrement(j) = IF j \in Members THEN 0 ELSE 1
  <2>1. (i \in Members <=> ~IsFirst(i)) /\ (j \in Members <=> ~IsFirst(j))
    BY <1>1, OpenMembers DEF IsFirst
  <2> QED
    BY <2>1 DEF FunderIncrement
<1>6. /\ Cardinality(Members \cup {i}) = Cardinality(Members) + IF i \in Members THEN 0 ELSE 1
      /\ IsFiniteSet(Members \cup {i}) /\ Cardinality(Members) \in Nat
  BY MembersFinite, OneMoreOrLess
<1>7. Cardinality((Members \cup {i}) \cup {j}) =
         Cardinality(Members \cup {i}) + IF j \in Members THEN 0 ELSE 1
  <2>1. j \in Members \cup {i} <=> j \in Members
    BY <1>1
  <2>2. Cardinality(Members \cup {i}) \in Nat
    BY <1>6, FS_CardinalityType
  <2> QED
    BY <1>6, <2>1, <2>2, FS_AddElement
<1>8. uniqueFunderCount' = Cardinality(Members')
  BY <1>1, <1>2, <1>4, <1>5, <1>6, <1>7
<1> QED
  BY <1>8 DEF FunderCountExact, Members

(* An investor who leaves is counted off, and the saturation of the        *)
(* counter never bites.                                                    *)
LEMMA UnfundCounts ==
    ASSUME RoundInv, FunderCountExact, NEW i \in Investors, NEW a \in Nat, Unfund(i, a)
    PROVE  FunderCountExact'
<1>1. /\ contribution \in [Investors -> Nat] /\ a > 0 /\ a <= contribution[i] /\ status = 0
      /\ contribution' = [contribution EXCEPT ![i] = contribution[i] - a]
      /\ uniqueFunderCount' = IF contribution[i] = a THEN OneFewer(uniqueFunderCount)
                              ELSE uniqueFunderCount
      /\ refunded' = refunded
  BY DEF Unfund, PayOut, exitVars, RoundInv, BaseInv, AllTypesOK, PositionTypeOK
<1>2. uniqueFunderCount = Cardinality(Members)
  BY DEF FunderCountExact, Members
<1>3. i \in Members /\ \A j \in Investors : ~refunded[j]
  BY <1>1, OpenMembers
<1>4. \A j \in Investors : j # i => contribution'[j] = contribution[j]
  BY <1>1
<1>5. contribution'[i] = contribution[i] - a
  BY <1>1
<1>6. CASE contribution[i] = a
  <2>1. Members' = Members \ {i}
    BY <1>1, <1>3, <1>4, <1>5, <1>6 DEF Members
  <2>2. Cardinality(Members \ {i}) = Cardinality(Members) - 1 /\ Cardinality(Members) \in Nat
    BY <1>3, MembersFinite, OneMoreOrLess
  <2>3. Cardinality(Members) > 0
    BY <1>3, MembersFinite, OneMoreOrLess
  <2>4. uniqueFunderCount' = Cardinality(Members')
    BY <1>1, <1>2, <1>6, <2>1, <2>2, <2>3 DEF OneFewer
  <2> QED
    BY <2>4 DEF FunderCountExact, Members
<1>7. CASE contribution[i] # a
  <2>1. Members' = Members
    BY <1>1, <1>3, <1>4, <1>5, <1>7 DEF Members
  <2> QED
    BY <1>1, <1>2, <1>7, <2>1 DEF FunderCountExact, Members
<1> QED
  BY <1>6, <1>7

(* Outside the funding phase the counter stays and so do the members: a    *)
(* refund empties a position and marks it.                                 *)
LEMMA CountStays ==
    ASSUME RoundInv, FunderCountExact, [Next]_vars, ~FundingNext
    PROVE  FunderCountExact'
<1>1. CASE UNCHANGED <<contribution, refunded, uniqueFunderCount>>
  BY <1>1 DEF FunderCountExact
<1>2. CASE TermsNext
  BY <1>1, <1>2, TermsFrame DEF nonTermVars, positionVars, exitVars, funderVars
<1>3. ASSUME NEW S, NEW amount, ReturnPrincipal(S, amount)
      PROVE  FunderCountExact'
  <2>1. /\ contribution' = [i \in Investors |-> IF i \in S THEN 0 ELSE contribution[i]]
        /\ refunded' = [i \in Investors |-> i \in S \/ refunded[i]]
        /\ \A i \in S : contribution[i] > 0
        /\ uniqueFunderCount' = uniqueFunderCount
    BY <1>3 DEF ReturnPrincipal, funderVars
  <2>2. Members' = Members
    BY <2>1 DEF Members
  <2> QED
    BY <2>1, <2>2 DEF FunderCountExact, Members
<1>4. CASE DisbursementNext
  <2>1. UNCHANGED <<contribution, refunded, uniqueFunderCount>>
           \/ \E S, amount : ReturnPrincipal(S, amount)
    BY <1>4 DEF DisbursementNext, Settle, Release, Withdraw, Claim, Refund, RefundBatch,
                CancelFunding, SweepTerminalDust, CloseEscrow, positionVars, exitVars, funderVars
  <2> QED
    BY <1>1, <1>3, <2>1
<1>5. CASE \E amount \in Amounts : ReceiveTransfer(amount)
  BY <1>1, <1>5 DEF ReceiveTransfer, positionVars, exitVars, funderVars
<1>6. CASE UNCHANGED escrowVars
  BY <1>1, <1>6 DEF escrowVars, positionVars, exitVars, funderVars
<1> QED
  BY <1>2, <1>4, <1>5, <1>6, StepKinds

(* Every step keeps the counter exact.                                     *)
LEMMA CountKept == RoundInv /\ FunderCountExact /\ [Next]_vars => FunderCountExact'
<1> SUFFICES ASSUME RoundInv, FunderCountExact, [Next]_vars
             PROVE  FunderCountExact'
  OBVIOUS
<1>1. CASE FundingNext
  <2>1. CASE PartialSettle
    BY <2>1 DEF PartialSettle, positionVars, exitVars, funderVars, FunderCountExact
  <2> QED
    BY <1>1, <2>1, FundingKinds, DepositCounts, UnfundCounts, BatchCounts
<1>2. CASE ~FundingNext
  BY <1>2, CountStays
<1> QED
  BY <1>1, <1>2

(* The unique-funder counter, kept by increments and a saturating          *)
(* decrement, is the number of investors in the round, refunded ones       *)
(* included.                                                               *)
THEOREM FundersCounted == Spec => []FunderCountExact
<1>1. Init => FunderCountExact
  <2> SUFFICES ASSUME Init
               PROVE  FunderCountExact
    OBVIOUS
  <2>1. uniqueFunderCount = 0 /\ Members = {}
    BY DEF Init, EscrowInit, Members
  <2> QED
    BY <2>1, FS_EmptySet DEF FunderCountExact, Members
<1> QED
  BY <1>1, CountKept, RoundInvariant, PTL DEF Spec

-----------------------------------------------------------------------------
(* The caps *)

(* The caps on what the calls look at: the counter and the positions.      *)
CapInv ==
    /\ maxUniqueInvestors # Absent => uniqueFunderCount <= maxUniqueInvestors
    /\ maxPerInvestor # Absent => \A i \in Investors : contribution[i] <= maxPerInvestor

(* Smaller positions and fewer funders under the same caps.                *)
LEMMA LooserFits ==
    ASSUME AllTypesOK, AllTypesOK', CapInv, UNCHANGED <<maxUniqueInvestors, maxPerInvestor>>,
           uniqueFunderCount' <= uniqueFunderCount,
           \A i \in Investors : contribution'[i] <= contribution[i]
    PROVE  CapInv'
<1>1. /\ uniqueFunderCount \in Nat /\ uniqueFunderCount' \in Nat
      /\ maxUniqueInvestors \in Int /\ maxPerInvestor \in Int
      /\ \A i \in Investors : contribution[i] \in Nat /\ contribution'[i] \in Nat
  BY DEF AllTypesOK, TermTypeOK, PositionTypeOK, OptionalNat, Absent
<1> QED
  BY <1>1 DEF CapInv

(* A deposit checks both caps before it counts.                            *)
LEMMA DepositFits ==
    ASSUME AllTypesOK, CapInv, NEW i \in Investors, NEW a \in Nat, NEW y, NEW n,
           Deposit(i, a, y, n)
    PROVE  CapInv'
<1>1. /\ uniqueFunderCount \in Nat /\ contribution \in [Investors -> Nat]
      /\ maxUniqueInvestors \in Int /\ maxPerInvestor \in Int
  BY DEF AllTypesOK, TermTypeOK, PositionTypeOK, OptionalNat, Absent
<1>2. /\ contribution' = [contribution EXCEPT ![i] = contribution[i] + a]
      /\ uniqueFunderCount' = uniqueFunderCount + FunderIncrement(i)
      /\ Admissible(i, a, uniqueFunderCount)
      /\ UNCHANGED <<maxUniqueInvestors, maxPerInvestor>>
  BY DEF Deposit, termVars, limitVars
<1> QED
  BY <1>1, <1>2 DEF CapInv, Admissible, FunderIncrement

(* So does a batch, on the counter its first entry leaves.                 *)
LEMMA BatchFits ==
    ASSUME AllTypesOK, CapInv, NEW i \in Investors, NEW j \in Investors,
           NEW a \in Nat, NEW b \in Nat, FundBatch(i, a, j, b)
    PROVE  CapInv'
<1>1. /\ uniqueFunderCount \in Nat /\ contribution \in [Investors -> Nat]
      /\ maxUniqueInvestors \in Int /\ maxPerInvestor \in Int
  BY DEF AllTypesOK, TermTypeOK, PositionTypeOK, OptionalNat, Absent
<1>2. /\ i # j
      /\ contribution' = [contribution EXCEPT ![i] = contribution[i] + a,
                                             ![j] = contribution[j] + b]
      /\ uniqueFunderCount' = uniqueFunderCount + FunderIncrement(i) + FunderIncrement(j)
      /\ Admissible(i, a, uniqueFunderCount)
      /\ Admissible(j, b, uniqueFunderCount + FunderIncrement(i))
      /\ UNCHANGED <<maxUniqueInvestors, maxPerInvestor>>
  BY DEF FundBatch, termVars, limitVars
<1>3. /\ \A k \in Investors : k # i /\ k # j => contribution'[k] = contribution[k]
      /\ contribution'[i] = contribution[i] + a
      /\ contribution'[j] = contribution[j] + b
  BY <1>1, <1>2
<1>4. maxPerInvestor # Absent => \A k \in Investors : contribution'[k] <= maxPerInvestor
  BY <1>2, <1>3 DEF CapInv, Admissible
<1>5. maxUniqueInvestors # Absent =>
         uniqueFunderCount + FunderIncrement(i) + FunderIncrement(j) <= maxUniqueInvestors
  BY <1>1, <1>2 DEF CapInv, Admissible, FunderIncrement
<1> QED
  BY <1>2, <1>4, <1>5 DEF CapInv

(* The admin lowers no cap below what is recorded.                         *)
LEMMA TermsFit ==
    ASSUME AllTypesOK, AllTypesOK', CapInv, TermsNext
    PROVE  CapInv'
<1>0. UNCHANGED <<contribution, uniqueFunderCount>>
  BY TermsFrame DEF nonTermVars, positionVars, funderVars
<1>1. /\ uniqueFunderCount \in Nat /\ contribution \in [Investors -> Nat]
      /\ maxUniqueInvestors \in Int /\ maxPerInvestor \in Int
  BY DEF AllTypesOK, TermTypeOK, PositionTypeOK, OptionalNat, Absent
<1>2. CASE UNCHANGED <<maxUniqueInvestors, maxPerInvestor>>
  BY <1>0, <1>2 DEF CapInv
<1>3. ASSUME NEW cap \in Caps,
             \/ LowerMaxUniqueInvestors(cap)
             \/ RaiseMaxUniqueInvestors(cap)
             \/ LowerMinContributionFloor(cap)
             \/ RaiseMaxPerInvestor(cap)
      PROVE  CapInv'
  <2>1. cap \in Nat
    BY EscrowAssumption
  <2>2. CASE LowerMaxUniqueInvestors(cap) \/ RaiseMaxUniqueInvestors(cap)
    BY <1>0, <1>1, <2>1, <2>2 DEF LowerMaxUniqueInvestors, RaiseMaxUniqueInvestors, CapInv
  <2>3. CASE LowerMinContributionFloor(cap)
    BY <1>2, <2>3 DEF LowerMinContributionFloor
  <2>4. CASE RaiseMaxPerInvestor(cap)
    BY <1>0, <1>1, <2>1, <2>4 DEF RaiseMaxPerInvestor, CapInv
  <2> QED
    BY <1>3, <2>2, <2>3, <2>4
<1>4. CASE LimitsNext
  BY <1>2, <1>3, <1>4 DEF LimitsNext, ExtendFundingDeadline, UpdateMaturityMaxHorizon,
                          SetProtocolFeeBps
<1> QED
  BY <1>2, <1>4 DEF TermsNext, UpdateFundingTarget, UpdateMaturity, UpdateYieldBps, limitVars

(* Every step keeps counter and positions within the caps.                 *)
LEMMA CapsKept == RoundInv /\ CapInv /\ [Next]_vars => CapInv'
<1> SUFFICES ASSUME RoundInv, CapInv, [Next]_vars
             PROVE  CapInv'
  OBVIOUS
<1>0. AllTypesOK /\ AllTypesOK'
  BY TypesKept DEF RoundInv, BaseInv
<1>1. CASE FundingNext
  <2>0. UNCHANGED <<maxUniqueInvestors, maxPerInvestor>>
    BY <1>0, <1>1, FundingFrame DEF FundingEffect, termVars, limitVars
  <2>1. ASSUME NEW i \in Investors, NEW a \in Nat, Unfund(i, a)
        PROVE  CapInv'
    <3>1. uniqueFunderCount \in Nat /\ contribution \in [Investors -> Nat]
      BY <1>0 DEF AllTypesOK, PositionTypeOK
    <3>2. uniqueFunderCount' <= uniqueFunderCount
      BY <2>1, <3>1 DEF Unfund, OneFewer
    <3>3. \A j \in Investors : contribution'[j] <= contribution[j]
      BY <2>1, <3>1 DEF Unfund
    <3> QED
      BY <1>0, <2>0, <3>2, <3>3, LooserFits
  <2>2. CASE PartialSettle
    BY <2>0, <2>2 DEF PartialSettle, positionVars, funderVars, CapInv
  <2> QED
    BY <1>0, <1>1, <2>1, <2>2, FundingKinds, DepositFits, BatchFits
<1>2. CASE ~FundingNext /\ ~TermsNext
  <2>1. \A i \in Investors : contribution'[i] <= contribution[i]
    BY <1>2, OutsideFunding DEF RoundInv, BaseInv
  <2>2. UNCHANGED <<termVars, uniqueFunderCount>>
    <3>1. CASE DisbursementNext
      <4>1. UNCHANGED termVars
        BY <3>1, DisbursementFrame DEF DisbursementEffect
      <4>2. UNCHANGED uniqueFunderCount
        BY <3>1 DEF DisbursementNext, Settle, Release, Withdraw, Claim, Refund, RefundBatch,
                    ReturnPrincipal, CancelFunding, SweepTerminalDust, CloseEscrow,
                    positionVars, funderVars
      <4> QED
        BY <4>1, <4>2
    <3>2. CASE \E amount \in Amounts : ReceiveTransfer(amount)
      BY <3>2 DEF ReceiveTransfer, positionVars, funderVars
    <3>3. CASE UNCHANGED escrowVars
      BY <3>3 DEF escrowVars, positionVars, funderVars
    <3> QED
      BY <1>2, <3>1, <3>2, <3>3, StepKinds
  <2>3. uniqueFunderCount' <= uniqueFunderCount
    BY <1>0, <2>2 DEF AllTypesOK, PositionTypeOK
  <2> QED
    BY <1>0, <2>1, <2>2, <2>3, LooserFits DEF termVars, limitVars
<1>3. CASE TermsNext
  BY <1>0, <1>3, TermsFit
<1> QED
  BY <1>1, <1>2, <1>3

(* The caps hold for the recorded positions whatever the admin moves while *)
(* investors come and go: the number of funders stays within the cap on    *)
(* investors and every position within the cap on positions.               *)
THEOREM CapsHold == Spec => []CapsRespected
<1>1. Init => CapInv
  <2> SUFFICES ASSUME Init
               PROVE  CapInv
    OBVIOUS
  <2>1. PICK t \in Terms : /\ ValidTerms(t)
                           /\ maxPerInvestor = t.maxPer
                           /\ maxUniqueInvestors = t.maxUnique
    BY DEF Init, EscrowInit
  <2>2. t.maxPer \in OptionalNat /\ t.maxUnique \in OptionalNat
    BY EscrowAssumption DEF InitTerms
  <2>3. uniqueFunderCount = 0 /\ contribution = [i \in Investors |-> 0]
    BY DEF Init, EscrowInit
  <2> QED
    BY <2>1, <2>2, <2>3 DEF CapInv, ValidTerms, OptionalNat, Absent
<1>2. RoundInv /\ FunderCountExact /\ CapInv => CapsRespected
  <2> SUFFICES ASSUME RoundInv, FunderCountExact, CapInv
               PROVE  CapsRespected
    OBVIOUS
  <2>1. Funders \subseteq Members
    BY DEF Funders, Members
  <2>2. Cardinality(Funders) <= Cardinality(Members)
    BY <2>1, MembersFinite, FS_Subset
  <2>3. uniqueFunderCount = Cardinality(Members)
    BY DEF FunderCountExact, Members
  <2>4. Cardinality(Funders) \in Nat /\ Cardinality(Members) \in Nat
    BY <2>1, MembersFinite, FS_Subset, FS_CardinalityType
  <2>5. maxUniqueInvestors \in Int
    BY DEF RoundInv, BaseInv, AllTypesOK, TermTypeOK, OptionalNat, Absent
  <2> QED
    BY <2>2, <2>3, <2>4, <2>5 DEF CapInv, CapsRespected
<1> QED
  BY <1>1, <1>2, CapsKept, FundersCounted, RoundInvariant, PTL DEF Spec

-----------------------------------------------------------------------------
(* The sum of the positions *)

(* A position that moves, moves the sum of all by as much.                 *)
LEMMA PositionMoves ==
    ASSUME NEW c \in [Investors -> Nat], NEW e \in [Investors -> Nat],
           NEW i \in Investors, NEW d \in Int,
           \A j \in Investors : e[j] = c[j] + IF j = i THEN d ELSE 0
    PROVE  SumFunction(e) = SumFunction(c) + d
<1>1. IsFiniteSet(Investors)
  BY AllowlistAssumption
<1>2. e[i] = c[i] + d /\ \A j \in Investors : j # i => e[j] = c[j]
  OBVIOUS
<1> QED
  BY <1>1, <1>2, SumMoves

(* A step that moves one position, and the sum by as much.                 *)
LEMMA OneMove ==
    ASSUME AllTypesOK, AllTypesOK', PrincipalIsSum, NEW i \in Investors, NEW d \in Int,
           \A j \in Investors : contribution'[j] = contribution[j] + IF j = i THEN d ELSE 0,
           principal' = principal + d
    PROVE  PrincipalIsSum'
<1>1. contribution \in [Investors -> Nat] /\ contribution' \in [Investors -> Nat]
  BY DEF AllTypesOK, PositionTypeOK
<1>2. SumFunction(contribution') = SumFunction(contribution) + d
  BY <1>1, PositionMoves
<1> QED
  BY <1>2 DEF PrincipalIsSum

(* A step that moves two.                                                  *)
LEMMA TwoMoves ==
    ASSUME AllTypesOK, AllTypesOK', PrincipalIsSum, NEW i \in Investors, NEW j \in Investors,
           NEW d \in Int, NEW e \in Int, i # j,
           \A k \in Investors : contribution'[k] =
                contribution[k] + IF k = i THEN d ELSE IF k = j THEN e ELSE 0,
           principal' = principal + d + e
    PROVE  PrincipalIsSum'
<1>1. contribution \in [Investors -> Nat] /\ contribution' \in [Investors -> Nat]
  BY DEF AllTypesOK, PositionTypeOK
<1> DEFINE first == [k \in Investors |-> IF k = i THEN contribution'[i] ELSE contribution[k]]
<1>2. first \in [Investors -> Nat]
  BY <1>1
<1>3. \A k \in Investors : first[k] = contribution[k] + IF k = i THEN d ELSE 0
  BY <1>1
<1>4. \A k \in Investors : contribution'[k] = first[k] + IF k = j THEN e ELSE 0
  BY <1>1
<1> HIDE DEF first
<1>5. SumFunction(first) = SumFunction(contribution) + d
  BY <1>1, <1>2, <1>3, PositionMoves
<1>6. SumFunction(contribution') = SumFunction(first) + e
  BY <1>1, <1>2, <1>4, PositionMoves
<1> QED
  BY <1>5, <1>6 DEF PrincipalIsSum

(* Deposits and departures move positions and sum.                         *)
LEMMA FundingAdds ==
    ASSUME AllTypesOK, AllTypesOK', PrincipalIsSum, FundingNext
    PROVE  PrincipalIsSum'
<1>0. contribution \in [Investors -> Nat] /\ principal \in Int
  BY DEF AllTypesOK, PositionTypeOK
<1>1. ASSUME NEW i \in Investors, NEW a \in Nat, NEW y, NEW n, Deposit(i, a, y, n)
      PROVE  PrincipalIsSum'
  <2>1. \A j \in Investors : contribution'[j] = contribution[j] + IF j = i THEN a ELSE 0
    BY <1>0, <1>1 DEF Deposit
  <2>2. principal' = principal + a
    BY <1>1 DEF Deposit
  <2> QED
    BY <2>1, <2>2, OneMove
<1>2. ASSUME NEW i \in Investors, NEW a \in Nat, Unfund(i, a)
      PROVE  PrincipalIsSum'
  <2>1. \A j \in Investors : contribution'[j] = contribution[j] + IF j = i THEN 0 - a ELSE 0
    BY <1>0, <1>2 DEF Unfund
  <2>2. principal' = principal + (0 - a) /\ 0 - a \in Int
    BY <1>0, <1>2 DEF Unfund
  <2> QED
    BY <2>1, <2>2, OneMove
<1>3. ASSUME NEW i \in Investors, NEW j \in Investors, NEW a \in Nat, NEW b \in Nat,
             FundBatch(i, a, j, b)
      PROVE  PrincipalIsSum'
  <2>1. i # j
    BY <1>3 DEF FundBatch
  <2>2. \A k \in Investors : contribution'[k] =
            contribution[k] + IF k = i THEN a ELSE IF k = j THEN b ELSE 0
    BY <1>0, <1>3, <2>1 DEF FundBatch
  <2>3. principal' = principal + a + b
    BY <1>3 DEF FundBatch
  <2> QED
    BY <2>1, <2>2, <2>3, TwoMoves
<1>4. CASE PartialSettle
  BY <1>4 DEF PartialSettle, positionVars, PrincipalIsSum
<1> QED
  BY <1>1, <1>2, <1>3, <1>4, FundingKinds

(* Refunds empty one position, or two.                                     *)
LEMMA RefundAdds ==
    ASSUME AllTypesOK, AllTypesOK', PrincipalIsSum, NEW i \in Investors, Refund(i)
    PROVE  PrincipalIsSum'
<1>0. contribution \in [Investors -> Nat] /\ principal \in Int
  BY DEF AllTypesOK, PositionTypeOK
<1>1. \A k \in Investors : contribution'[k] =
         contribution[k] + IF k = i THEN 0 - contribution[i] ELSE 0
  BY <1>0 DEF Refund, ReturnPrincipal
<1>2. principal' = principal + (0 - contribution[i]) /\ 0 - contribution[i] \in Int
  BY <1>0 DEF Refund, ReturnPrincipal
<1> QED
  BY <1>1, <1>2, OneMove

(* A batch of refunds.                                                     *)
LEMMA RefundBatchAdds ==
    ASSUME AllTypesOK, AllTypesOK', PrincipalIsSum, NEW i \in Investors, NEW j \in Investors,
           RefundBatch(i, j)
    PROVE  PrincipalIsSum'
<1>0. contribution \in [Investors -> Nat] /\ principal \in Int
  BY DEF AllTypesOK, PositionTypeOK
<1>1. i # j
  BY DEF RefundBatch
<1>2. \A k \in Investors : contribution'[k] =
         contribution[k] + IF k = i THEN 0 - contribution[i]
                           ELSE IF k = j THEN 0 - contribution[j] ELSE 0
  BY <1>0 DEF RefundBatch, ReturnPrincipal
<1>3. /\ principal' = principal + (0 - contribution[i]) + (0 - contribution[j])
      /\ 0 - contribution[i] \in Int /\ 0 - contribution[j] \in Int
  BY <1>0 DEF RefundBatch, ReturnPrincipal
<1> QED
  BY <1>1, <1>2, <1>3, TwoMoves

(* The kinds of payments, as far as positions go.                          *)
LEMMA PaymentKinds ==
    ASSUME DisbursementNext
    PROVE  \/ UNCHANGED <<contribution, principal>>
           \/ \E i \in Investors : Refund(i)
           \/ \E i, j \in Investors : RefundBatch(i, j)
  BY DEF DisbursementNext, Settle, Release, Withdraw, Claim, CancelFunding, SweepTerminalDust,
         CloseEscrow, positionVars

(* Every step keeps the sum.                                               *)
LEMMA SumKept == RoundInv /\ PrincipalIsSum /\ [Next]_vars => PrincipalIsSum'
<1> SUFFICES ASSUME RoundInv, PrincipalIsSum, [Next]_vars
             PROVE  PrincipalIsSum'
  OBVIOUS
<1>0. AllTypesOK /\ AllTypesOK'
  BY TypesKept DEF RoundInv, BaseInv
<1>1. CASE UNCHANGED <<contribution, principal>>
  BY <1>1 DEF PrincipalIsSum
<1>2. CASE FundingNext
  BY <1>0, <1>2, FundingAdds
<1>3. CASE TermsNext
  BY <1>1, <1>3, TermsFrame DEF nonTermVars, positionVars
<1>4. CASE DisbursementNext
  BY <1>0, <1>1, <1>4, PaymentKinds, RefundAdds, RefundBatchAdds
<1>5. CASE \E amount \in Amounts : ReceiveTransfer(amount)
  BY <1>1, <1>5 DEF ReceiveTransfer, positionVars
<1>6. CASE UNCHANGED escrowVars
  BY <1>1, <1>6 DEF escrowVars, positionVars
<1> QED
  BY <1>2, <1>3, <1>4, <1>5, <1>6, StepKinds

(* The principal is the sum of the positions in every reachable state.     *)
THEOREM PrincipalAddsUp == Spec => []PrincipalIsSum
<1>1. Init => PrincipalIsSum
  <2> SUFFICES ASSUME Init
               PROVE  PrincipalIsSum
    OBVIOUS
  <2>1. contribution = [i \in Investors |-> 0] /\ principal = 0
    BY DEF Init, EscrowInit
  <2>2. SumFunction(contribution) = 0
    BY <2>1, AllowlistAssumption, SumZero
  <2> QED
    BY <2>1, <2>2 DEF PrincipalIsSum
<1> QED
  BY <1>1, SumKept, RoundInvariant, PTL DEF Spec

-----------------------------------------------------------------------------
(* The distributed principal *)

(* Before the close nothing is distributed that was not released.          *)
BooksInv == DistributionAccounted /\ (status = 0 => distributedPrincipal = releasedAmount)

(* The numbers the books are kept in.                                      *)
LEMMA BookTypes ==
    ASSUME RoundInv, PrincipalIsSum
    PROVE  /\ releasedAmount \in Int /\ distributedPrincipal \in Int /\ fundedAmount \in Int
           /\ principal \in Nat /\ investorIndex \in Seq(Investors)
           /\ contribution \in [Investors -> Nat]
<1>1. contribution \in [Investors -> Nat]
  BY DEF RoundInv, BaseInv, AllTypesOK, PositionTypeOK
<1>2. principal \in Nat
  BY <1>1, AllowlistAssumption, SumCovers DEF PrincipalIsSum
<1> QED
  BY <1>1, <1>2 DEF RoundInv, BaseInv, AllTypesOK, RecordTypeOK, PositionTypeOK

(* A funding call raises what is funded by at least what it adds to the    *)
(* principal, and lowers both by as much.                                  *)
Credited == fundedAmount' - fundedAmount >= principal' - principal

(* So does every one of them.                                              *)
LEMMA FundingCredits ==
    ASSUME RoundInv, PrincipalIsSum, FundingNext
    PROVE  Credited
<1>0. principal \in Nat /\ fundedAmount \in Int
  BY BookTypes
<1>1. ASSUME NEW i \in Investors, NEW a \in Nat, NEW y, NEW n, Deposit(i, a, y, n)
      PROVE  Credited
  BY <1>0, <1>1 DEF Deposit, CreditFunding, Credit, Credited
<1>2. ASSUME NEW i \in Investors, NEW a \in Nat, Unfund(i, a)
      PROVE  Credited
  BY <1>0, <1>2 DEF Unfund, Credited
<1>3. ASSUME NEW i \in Investors, NEW j \in Investors, NEW a \in Nat, NEW b \in Nat,
             FundBatch(i, a, j, b)
      PROVE  Credited
  BY <1>0, <1>3 DEF FundBatch, CreditFunding, Credit, Credited
<1>4. CASE PartialSettle
  BY <1>0, <1>4 DEF PartialSettle, positionVars, Credited
<1> QED
  BY <1>1, <1>2, <1>3, <1>4, FundingKinds

(* What is distributed from an open round still fits after such a step.    *)
LEMMA RoomKept ==
    ASSUME RoundInv, RoundInv', PrincipalIsSum, PrincipalIsSum', BooksInv, status = 0, Credited
    PROVE  /\ distributedPrincipal + principal' <= fundedAmount'
           /\ distributedPrincipal <= fundedAmount'
<1>1. distributedPrincipal \in Int /\ principal \in Nat /\ fundedAmount \in Int
  BY BookTypes
<1>2. PICK q \in Nat : q = principal'
  BY AllowlistAssumption, SumCovers
     DEF RoundInv, BaseInv, AllTypesOK, PositionTypeOK, PrincipalIsSum
<1>3. PICK g \in Int : g = fundedAmount'
  BY DEF RoundInv, BaseInv, AllTypesOK, RecordTypeOK
<1>4. distributedPrincipal + principal <= fundedAmount
  BY DEF BooksInv, DistributionAccounted
<1>5. g - fundedAmount >= q - principal
  BY <1>2, <1>3 DEF Credited
<1>6. distributedPrincipal + q <= g /\ distributedPrincipal <= g
  BY <1>1, <1>4, <1>5
<1> QED
  BY <1>2, <1>3, <1>6

(* A step that keeps the records and stays in, or closes, an open round.   *)
LEMMA OpenBooks ==
    ASSUME RoundInv, RoundInv', PrincipalIsSum, PrincipalIsSum', BooksInv, status = 0,
           status' \in {0, 1}, UNCHANGED flowVars,
           Credited
    PROVE  BooksInv'
<1>1. /\ distributedPrincipal + principal' <= fundedAmount'
      /\ distributedPrincipal <= fundedAmount'
  BY RoomKept
<1>2. /\ distributedPrincipal \in Int /\ distributedPrincipal = releasedAmount
  BY BookTypes DEF BooksInv, DistributionAccounted
<1>3. releasedAmount' = releasedAmount /\ distributedPrincipal' = distributedPrincipal
  BY DEF flowVars
<1> QED
  BY <1>1, <1>2, <1>3 DEF BooksInv, DistributionAccounted

(* A step that keeps the records and leaves the funding and payout phases. *)
LEMMA QuietBooks ==
    ASSUME RoundInv, BooksInv, UNCHANGED <<flowVars, fundedAmount, principal>>,
           \/ UNCHANGED status
           \/ status' = 2
           \/ status = 0 /\ status' = 4
    PROVE  BooksInv'
  BY DEF BooksInv, DistributionAccounted, flowVars

(* What is paid out of the round is booked as distributed.                 *)
LEMMA PaymentBooks ==
    ASSUME RoundInv, RoundInv', PrincipalIsSum, PrincipalIsSum', BooksInv, DisbursementNext
    PROVE  BooksInv'
<1>0. /\ releasedAmount \in Int /\ distributedPrincipal \in Int /\ fundedAmount \in Int
      /\ principal \in Nat /\ contribution \in [Investors -> Nat]
  BY BookTypes
<1>1. principal' \in Nat
  BY AllowlistAssumption, SumCovers
     DEF RoundInv, BaseInv, AllTypesOK, PositionTypeOK, PrincipalIsSum
<1>2. ASSUME NEW amount \in 1..Remaining, Release(amount)
      PROVE  BooksInv'
  <2>1. /\ status = 1 /\ amount >= 1 /\ amount <= fundedAmount - releasedAmount
        /\ releasedAmount' = releasedAmount + amount
        /\ distributedPrincipal' = distributedPrincipal + amount
        /\ status' = IF amount = fundedAmount - releasedAmount THEN 3 ELSE 1
        /\ fundedAmount' = fundedAmount
    BY <1>0, <1>2 DEF Release, Remaining
  <2>2. distributedPrincipal = releasedAmount
    BY <2>1 DEF BooksInv, DistributionAccounted
  <2>3. amount \in Int
    OBVIOUS
  <2> QED
    BY <1>0, <2>1, <2>2, <2>3 DEF BooksInv, DistributionAccounted
<1>3. CASE Withdraw
  <2>1. /\ status = 1 /\ status' = 3
        /\ releasedAmount' = releasedAmount /\ fundedAmount' = fundedAmount
        /\ distributedPrincipal' = distributedPrincipal + (fundedAmount - releasedAmount)
    BY <1>3 DEF Withdraw, Remaining
  <2>2. distributedPrincipal = releasedAmount /\ distributedPrincipal <= fundedAmount
    BY <2>1 DEF BooksInv, DistributionAccounted
  <2> QED
    BY <1>0, <2>1, <2>2 DEF BooksInv, DistributionAccounted
<1>4. ASSUME NEW S, NEW amount \in Nat, ReturnPrincipal(S, amount)
      PROVE  BooksInv'
  <2>1. /\ status = 4 /\ status' = 4
        /\ releasedAmount' = releasedAmount /\ fundedAmount' = fundedAmount
        /\ distributedPrincipal' = distributedPrincipal + amount
        /\ principal' = principal - amount
    BY <1>4 DEF ReturnPrincipal, RefundOpen
  <2>2. /\ releasedAmount <= distributedPrincipal
        /\ distributedPrincipal + principal <= fundedAmount
    BY <2>1 DEF BooksInv, DistributionAccounted
  <2> QED
    BY <1>0, <1>1, <2>1, <2>2 DEF BooksInv, DistributionAccounted
<1>5. ASSUME NEW i \in Investors, Refund(i)
      PROVE  BooksInv'
  BY <1>0, <1>4, <1>5 DEF Refund
<1>6. ASSUME NEW i \in Investors, NEW j \in Investors, RefundBatch(i, j)
      PROVE  BooksInv'
  <2>1. contribution[i] + contribution[j] \in Nat
    BY <1>0
  <2> QED
    BY <1>4, <1>6, <2>1 DEF RefundBatch
<1>7. ASSUME NEW i \in Investors, Claim(i)
      PROVE  BooksInv'
  BY <1>7, QuietBooks DEF Claim
<1>8. CASE Settle \/ CancelFunding \/ CloseEscrow
  BY <1>8, QuietBooks DEF Settle, CancelFunding, CloseEscrow, positionVars
<1>9. ASSUME NEW amount \in 1..MaxDustSweep, SweepTerminalDust(amount)
      PROVE  BooksInv'
  BY <1>9, QuietBooks DEF SweepTerminalDust, positionVars
<1> QED
  BY <1>2, <1>3, <1>5, <1>6, <1>7, <1>8, <1>9 DEF DisbursementNext

(* Every step keeps the books.                                             *)
LEMMA BooksKept ==
    ASSUME RoundInv, RoundInv', PrincipalIsSum, PrincipalIsSum', BooksInv, [Next]_vars
    PROVE  BooksInv'
<1>0. AllTypesOK /\ principal \in Nat /\ fundedAmount \in Int
  BY BookTypes DEF RoundInv, BaseInv
<1>1. CASE FundingNext
  <2>1. status = 0 /\ status' \in {0, 1} /\ UNCHANGED flowVars
    BY <1>0, <1>1, FundingFrame DEF FundingEffect, ClosesOn, CloseFunding
  <2> QED
    BY <1>1, <2>1, FundingCredits, OpenBooks
<1>2. CASE TermsNext
  <2>1. UNCHANGED <<flowVars, fundedAmount, principal>>
    BY <1>2, TermsFrame DEF nonTermVars, positionVars
  <2>2. UNCHANGED status \/ (status = 0 /\ status' = 1)
    <3>1. status # 0 => status' = status
      BY <1>2, TermsFrame
    <3>2. status' = status \/ status' = 1
      BY <1>2, TermsFrame DEF ClosesOn, CloseFunding
    <3> QED
      BY <3>1, <3>2
  <2>3. Credited
    BY <1>0, <2>1 DEF Credited
  <2> QED
    BY <2>1, <2>2, <2>3, QuietBooks, OpenBooks
<1>3. CASE DisbursementNext
  BY <1>3, PaymentBooks
<1>4. CASE \E amount \in Amounts : ReceiveTransfer(amount)
  BY <1>4, QuietBooks DEF ReceiveTransfer, positionVars
<1>5. CASE UNCHANGED escrowVars
  BY <1>5, QuietBooks DEF escrowVars, positionVars
<1> QED
  BY <1>1, <1>2, <1>3, <1>4, <1>5, StepKinds

(* The distributed principal is accounted for throughout: never more than  *)
(* was funded, what was released while funded, all of it once withdrawn,   *)
(* and with room for every refund still due once cancelled.                *)
THEOREM BooksBalance == Spec => []DistributionAccounted
<1>1. Init => BooksInv
  BY DEF Init, EscrowInit, BooksInv, DistributionAccounted
<1>2. BooksInv => DistributionAccounted
  BY DEF BooksInv
<1>3. RoundInv /\ RoundInv' /\ PrincipalIsSum /\ PrincipalIsSum' /\ BooksInv /\ [Next]_vars
        => BooksInv'
  BY BooksKept
<1> QED
  BY <1>1, <1>2, <1>3, PrincipalAddsUp, RoundInvariant, PTL DEF Spec

-----------------------------------------------------------------------------
(* The investor index *)

(* Every funder has an entry.                                              *)
Indexed == \A i \in Funders : \E k \in DOMAIN investorIndex : investorIndex[k] = i

(* While the round is open, each entry has cost a unit of funding beyond   *)
(* the principal that is in, and funding stays within the target.          *)
IndexInv ==
    /\ Indexed
    /\ Len(investorIndex) <= fundedAmount
    /\ status = 0 => /\ Len(investorIndex) + principal <= fundedAmount
                     /\ fundedAmount <= fundingTarget

(* An entry is appended, and none removed.                                 *)
LEMMA AppendedEntries ==
    ASSUME NEW s \in Seq(Investors), NEW i \in Investors
    PROVE  /\ s \o IndexEntry(i) \in Seq(Investors)
           /\ Len(s \o IndexEntry(i)) = Len(s) + FunderIncrement(i)
           /\ \A k \in DOMAIN s : /\ k \in DOMAIN (s \o IndexEntry(i))
                                  /\ (s \o IndexEntry(i))[k] = s[k]
           /\ IsFirst(i) => \E k \in DOMAIN (s \o IndexEntry(i)) : (s \o IndexEntry(i))[k] = i
<1>1. CASE IsFirst(i)
  <2>1. IndexEntry(i) = <<i>> /\ FunderIncrement(i) = 1
    BY <1>1 DEF IndexEntry, FunderIncrement
  <2>2. /\ s \o <<i>> \in Seq(Investors) /\ Len(s \o <<i>>) = Len(s) + 1
        /\ \A k \in 1..Len(s) : (s \o <<i>>)[k] = s[k]
        /\ (s \o <<i>>)[Len(s) + 1] = i
    OBVIOUS
  <2> QED
    BY <2>1, <2>2
<1>2. CASE ~IsFirst(i)
  <2>1. IndexEntry(i) = <<>> /\ FunderIncrement(i) = 0
    BY <1>2 DEF IndexEntry, FunderIncrement
  <2>2. s \o <<>> = s
    OBVIOUS
  <2> QED
    BY <1>2, <2>1, <2>2
<1> QED
  BY <1>1, <1>2

(* A deposit indexes its investor.                                         *)
LEMMA DepositIndexes ==
    ASSUME RoundInv, PrincipalIsSum, IndexInv, NEW i \in Investors, NEW a \in Nat, NEW y, NEW n,
           Deposit(i, a, y, n)
    PROVE  IndexInv'
<1>0. /\ contribution \in [Investors -> Nat] /\ investorIndex \in Seq(Investors)
      /\ principal \in Nat /\ fundedAmount \in Int /\ Len(investorIndex) \in Nat
  BY BookTypes
<1>1. /\ a > 0 /\ status = 0
      /\ contribution' = [contribution EXCEPT ![i] = contribution[i] + a]
      /\ investorIndex' = investorIndex \o IndexEntry(i)
      /\ principal' = principal + a
      /\ fundedAmount' = fundedAmount + 2 * a
      /\ fundingTarget' = fundingTarget
      /\ fundedAmount' >= fundingTarget => status' = 1
  BY DEF Deposit, Admissible, FundingOpen, CreditFunding, Credit, CloseFunding, termVars
<1>2. Len(investorIndex') = Len(investorIndex) + FunderIncrement(i) /\ FunderIncrement(i) \in 0..1
  BY <1>0, <1>1, AppendedEntries DEF FunderIncrement
<1>3. fundingTarget \in Nat
  BY DEF RoundInv, BaseInv, AllTypesOK, TermTypeOK
<1>4. Len(investorIndex) + principal <= fundedAmount
  BY <1>1 DEF IndexInv
<1>5. Indexed'
  <2> SUFFICES ASSUME NEW j \in Investors, contribution'[j] > 0
               PROVE  \E k \in DOMAIN investorIndex' : investorIndex'[k] = j
    BY DEF Indexed, Funders
  <2>1. CASE contribution[j] > 0
    BY <1>0, <1>1, <2>1, AppendedEntries DEF IndexInv, Indexed, Funders
  <2>2. CASE ~(contribution[j] > 0)
    <3>1. j = i /\ IsFirst(i)
      BY <1>0, <1>1, <2>2 DEF IsFirst
    <3> QED
      BY <1>0, <1>1, <3>1, AppendedEntries
  <2> QED
    BY <2>1, <2>2
<1>6. /\ principal' \in Nat /\ fundedAmount' \in Int /\ fundingTarget' \in Int
      /\ Len(investorIndex') \in Int
  BY <1>0, <1>1, <1>2, <1>3
<1>7. Len(investorIndex') + principal' <= fundedAmount'
  BY <1>0, <1>1, <1>2, <1>4
<1>8. /\ Len(investorIndex') <= fundedAmount'
      /\ status' = 0 => fundedAmount' <= fundingTarget'
  BY <1>1, <1>6, <1>7
<1> QED
  BY <1>5, <1>7, <1>8 DEF IndexInv

(* So does a batch, one entry after the other.                             *)
LEMMA BatchIndexes ==
    ASSUME RoundInv, PrincipalIsSum, IndexInv, NEW i \in Investors, NEW j \in Investors,
           NEW a \in Nat, NEW b \in Nat, FundBatch(i, a, j, b)
    PROVE  IndexInv'
<1> DEFINE first == investorIndex \o IndexEntry(i)
<1>0. /\ contribution \in [Investors -> Nat] /\ investorIndex \in Seq(Investors)
      /\ principal \in Nat /\ fundedAmount \in Int /\ Len(investorIndex) \in Nat
  BY BookTypes
<1>1. /\ a > 0 /\ b > 0 /\ status = 0 /\ i # j
      /\ contribution' = [contribution EXCEPT ![i] = contribution[i] + a,
                                             ![j] = contribution[j] + b]
      /\ investorIndex' = first \o IndexEntry(j)
      /\ principal' = principal + a + b
      /\ fundedAmount' = fundedAmount + 2 * a + 2 * b
      /\ fundingTarget' = fundingTarget
      /\ fundedAmount' >= fundingTarget => status' = 1
  BY DEF FundBatch, Admissible, FundingOpen, CreditFunding, Credit, CloseFunding, termVars
<1>2. /\ first \in Seq(Investors)
      /\ Len(first) = Len(investorIndex) + FunderIncrement(i)
      /\ FunderIncrement(i) \in 0..1 /\ FunderIncrement(j) \in 0..1
  BY <1>0, AppendedEntries DEF FunderIncrement
<1> HIDE DEF first
<1>3. Len(investorIndex') = Len(investorIndex) + FunderIncrement(i) + FunderIncrement(j)
  BY <1>1, <1>2, AppendedEntries
<1>4. fundingTarget \in Nat
  BY DEF RoundInv, BaseInv, AllTypesOK, TermTypeOK
<1>5. Len(investorIndex) + principal <= fundedAmount
  BY <1>1 DEF IndexInv
<1>6. \A k \in DOMAIN first : k \in DOMAIN investorIndex' /\ investorIndex'[k] = first[k]
  BY <1>1, <1>2, AppendedEntries
<1>7. Indexed'
  <2> SUFFICES ASSUME NEW h \in Investors, contribution'[h] > 0
               PROVE  \E k \in DOMAIN investorIndex' : investorIndex'[k] = h
    BY DEF Indexed, Funders
  <2>1. CASE contribution[h] > 0
    <3>1. \E k \in DOMAIN investorIndex : investorIndex[k] = h
      BY <2>1 DEF IndexInv, Indexed, Funders
    <3>2. \E k \in DOMAIN first : first[k] = h
      BY <1>0, <3>1, AppendedEntries DEF first
    <3> QED
      BY <1>6, <3>2
  <2>2. CASE h = i /\ IsFirst(i)
    <3>1. \E k \in DOMAIN first : first[k] = h
      BY <1>0, <2>2, AppendedEntries DEF first
    <3> QED
      BY <1>6, <3>1
  <2>3. CASE h = j /\ IsFirst(j)
    <3>1. \E k \in DOMAIN (first \o IndexEntry(j)) : (first \o IndexEntry(j))[k] = j
      BY <1>2, <2>3, AppendedEntries
    <3>2. investorIndex' = first \o IndexEntry(j) /\ h = j
      BY <1>1, <2>3
    <3> QED
      BY <3>1, <3>2
  <2>4. contribution[h] > 0 \/ (h = i /\ IsFirst(i)) \/ (h = j /\ IsFirst(j))
    BY <1>0, <1>1 DEF IsFirst
  <2> QED
    BY <2>1, <2>2, <2>3, <2>4
<1>8. /\ status' = 0 => fundedAmount' < fundingTarget'
      /\ Len(investorIndex') + principal' <= fundedAmount'
  <2>1. fundedAmount' \in Int /\ status' = 0 => fundedAmount' < fundingTarget
    BY <1>0, <1>1, <1>4
  <2>2. Len(investorIndex') <= Len(investorIndex) + 2
    BY <1>0, <1>2, <1>3
  <2>3. Len(investorIndex') \in Int
    BY <1>0, <1>2, <1>3
  <2> QED
    BY <1>0, <1>1, <1>5, <2>1, <2>2, <2>3
<1>9. /\ principal' \in Nat /\ fundedAmount' \in Int /\ fundingTarget' \in Int
      /\ Len(investorIndex') \in Int
  BY <1>0, <1>1, <1>2, <1>3, <1>4
<1>10. Len(investorIndex') <= fundedAmount'
  BY <1>8, <1>9
<1>11. status' = 0 => fundedAmount' <= fundingTarget'
  BY <1>8, <1>9
<1> QED
  BY <1>7, <1>8, <1>10, <1>11 DEF IndexInv

(* Every step keeps the index.                                             *)
LEMMA IndexKept ==
    ASSUME RoundInv, RoundInv', PrincipalIsSum, PrincipalIsSum', IndexInv, [Next]_vars
    PROVE  IndexInv'
<1>0. /\ contribution \in [Investors -> Nat] /\ investorIndex \in Seq(Investors)
      /\ principal \in Nat /\ fundedAmount \in Int /\ Len(investorIndex) \in Nat
      /\ AllTypesOK
  BY BookTypes DEF RoundInv, BaseInv
<1>1. contribution' \in [Investors -> Nat]
  BY DEF RoundInv, BaseInv, AllTypesOK, PositionTypeOK
<1>2. ASSUME UNCHANGED investorIndex, \A i \in Investors : contribution'[i] <= contribution[i]
      PROVE  Indexed'
  BY <1>0, <1>1, <1>2 DEF IndexInv, Indexed, Funders
<1>3. CASE UNCHANGED <<investorIndex, contribution, principal, fundedAmount, fundingTarget>>
           /\ (status' = 0 => status = 0)
  BY <1>3 DEF IndexInv, Indexed, Funders
<1>4. ASSUME NEW i \in Investors, NEW a \in Nat, Unfund(i, a)
      PROVE  IndexInv'
  <2>1. /\ a > 0 /\ status = 0 /\ investorIndex' = investorIndex
        /\ fundedAmount' = fundedAmount - a /\ principal' = principal - a
        /\ fundingTarget' = fundingTarget
        /\ \A j \in Investors : contribution'[j] <= contribution[j]
    BY <1>0, <1>4 DEF Unfund, funderVars, termVars
  <2>2. principal' \in Nat
    BY <1>1, AllowlistAssumption, SumCovers DEF PrincipalIsSum
  <2>3. Indexed'
    BY <1>2, <2>1
  <2>4. fundingTarget \in Nat
    BY <1>0 DEF AllTypesOK, TermTypeOK
  <2>5. Len(investorIndex) + principal <= fundedAmount /\ fundedAmount <= fundingTarget
    BY <2>1 DEF IndexInv
  <2> QED
    BY <1>0, <2>1, <2>2, <2>3, <2>4, <2>5 DEF IndexInv
<1>5. CASE FundingNext
  <2>1. CASE PartialSettle
    BY <1>3, <2>1 DEF PartialSettle, CloseFunding, positionVars, funderVars, termVars
  <2> QED
    BY <1>4, <1>5, <2>1, FundingKinds, DepositIndexes, BatchIndexes
<1>6. CASE TermsNext
  <2>1. UNCHANGED <<investorIndex, contribution, principal, fundedAmount>>
    BY <1>6, TermsFrame DEF nonTermVars, positionVars, funderVars
  <2>2. ASSUME NEW target \in Targets, UpdateFundingTarget(target)
        PROVE  status = 0 /\ fundedAmount <= fundingTarget'
    <3>1. target \in Nat
      BY EscrowAssumption
    <3> QED
      BY <1>0, <2>2, <3>1 DEF UpdateFundingTarget
  <2>3. \/ status = 0 /\ fundedAmount <= fundingTarget'
        \/ UNCHANGED <<fundingTarget, status>>
    BY <1>6, <2>2 DEF TermsNext, UpdateMaturity, UpdateYieldBps
  <2> QED
    BY <2>1, <2>3 DEF IndexInv, Indexed, Funders
<1>7. CASE DisbursementNext
  <2>1. UNCHANGED <<fundedAmount, fundingTarget>> /\ (status' = 0 => status = 0)
    BY <1>0, <1>7, DisbursementFrame DEF DisbursementEffect, termVars
  <2>2. UNCHANGED investorIndex
    BY <1>7 DEF DisbursementNext, Settle, Release, Withdraw, Claim, Refund, RefundBatch,
                ReturnPrincipal, CancelFunding, SweepTerminalDust, CloseEscrow,
                positionVars, funderVars
  <2>3. CASE UNCHANGED <<contribution, principal>>
    BY <1>3, <2>1, <2>2, <2>3
  <2>4. ASSUME NEW S, NEW amount, ReturnPrincipal(S, amount)
        PROVE  IndexInv'
    <3>1. status = 4 /\ status' = 4
      BY <2>4 DEF ReturnPrincipal, RefundOpen
    <3>2. \A i \in Investors : contribution'[i] <= contribution[i]
      BY <1>0, <2>4 DEF ReturnPrincipal
    <3>3. Indexed'
      BY <1>2, <2>2, <3>2
    <3> QED
      BY <2>1, <2>2, <3>1, <3>3 DEF IndexInv
  <2> QED
    BY <1>7, <2>3, <2>4, PaymentKinds DEF Refund, RefundBatch
<1>8. CASE \E amount \in Amounts : ReceiveTransfer(amount)
  BY <1>3, <1>8 DEF ReceiveTransfer, positionVars, funderVars, termVars
<1>9. CASE UNCHANGED escrowVars
  BY <1>3, <1>9 DEF escrowVars, positionVars, funderVars, termVars
<1> QED
  BY <1>5, <1>6, <1>7, <1>8, <1>9, StepKinds

(* The index serves its readers for as long as the escrow lives: every     *)
(* funder is found through it, and leaving and coming back, however often, *)
(* cannot grow it past the amount funded, nor past the target while the    *)
(* round is open.                                                          *)
THEOREM IndexServes == Spec => []InvestorIndexSound
<1>1. Init => IndexInv
  <2> SUFFICES ASSUME Init
               PROVE  IndexInv
    OBVIOUS
  <2>1. /\ investorIndex = <<>> /\ fundedAmount = 0 /\ principal = 0
        /\ contribution = [i \in Investors |-> 0]
    BY DEF Init, EscrowInit
  <2>2. fundingTarget \in Nat
    BY InitTypes DEF AllTypesOK, TermTypeOK
  <2> QED
    BY <2>1, <2>2 DEF IndexInv, Indexed, Funders
<1>2. RoundInv /\ PrincipalIsSum /\ IndexInv => InvestorIndexSound
  <2> SUFFICES ASSUME RoundInv, PrincipalIsSum, IndexInv
               PROVE  InvestorIndexSound
    OBVIOUS
  <2>1. fundedAmount \in Int /\ investorIndex \in Seq(Investors) /\ fundingTarget \in Nat
    BY BookTypes DEF RoundInv, BaseInv, AllTypesOK, TermTypeOK
  <2>2. Len(investorIndex) \in Nat
    BY <2>1
  <2> QED
    BY <2>1, <2>2 DEF IndexInv, Indexed, InvestorIndexSound
<1>3. RoundInv /\ RoundInv' /\ PrincipalIsSum /\ PrincipalIsSum' /\ IndexInv /\ [Next]_vars
        => IndexInv'
  BY IndexKept
<1> QED
  BY <1>1, <1>2, <1>3, PrincipalAddsUp, RoundInvariant, PTL DEF Spec

-----------------------------------------------------------------------------
(* The reconciliation view *)

(* The surplus the view reports and the floor of the sweep are two         *)
(* computations of the same amount: in a cancelled escrow that no gate     *)
(* shuts, a sweep goes through exactly when what it takes is surplus.      *)
THEOREM ReconciliationAgrees == Spec => []ReconciliationMatchesSweep
<1>1. RoundInv => ReconciliationMatchesSweep
  <2> SUFFICES ASSUME RoundInv, status = 4, ~legalHold, ~disputeActive,
                      NEW amount \in 1..MaxDustSweep
               PROVE  Sweepable(amount) <=> Swept(amount) \in 1..Surplus
    BY DEF ReconciliationMatchesSweep
  <2> DEFINE owed == fundedAmount - distributedPrincipal
  <2>1. /\ balance \in Nat /\ owed \in Int
        /\ Swept(amount) \in Int /\ Swept(amount) <= balance
    BY EscrowAssumption DEF RoundInv, BaseInv, AllTypesOK, RecordTypeOK, Swept
  <2>2. Sweepable(amount) <=> Swept(amount) > 0 /\ balance - Swept(amount) >= owed
    BY DEF Sweepable, IsTerminal
  <2>3. Surplus = balance - IF owed > 0 THEN owed ELSE 0
    BY DEF Surplus
  <2> HIDE DEF owed
  <2> QED
    BY <2>1, <2>2, <2>3
<1> QED
  BY <1>1, RoundInvariant, PTL

-----------------------------------------------------------------------------
(* The refunds of a cancelled round *)

(* Nothing is released to the SME before the round is funded.              *)
Unreleased == status \in {0, 4} => releasedAmount = 0

(* Only a funded round releases, and a funded round is never open again.   *)
LEMMA UnreleasedKept == RoundInv /\ Unreleased /\ [Next]_vars => Unreleased'
<1> SUFFICES ASSUME RoundInv, Unreleased, [Next]_vars
             PROVE  Unreleased'
  OBVIOUS
<1>0. AllTypesOK
  BY DEF RoundInv, BaseInv
<1>1. CASE FundingNext
  BY <1>0, <1>1, FundingFrame DEF FundingEffect, flowVars, Unreleased
<1>2. CASE TermsNext
  <2>1. UNCHANGED flowVars
    BY <1>2, TermsFrame DEF nonTermVars
  <2>2. status' \in {0, 4} => status' = status
    BY <1>2, TermsFrame DEF ClosesOn, CloseFunding
  <2> QED
    BY <2>1, <2>2 DEF flowVars, Unreleased
<1>3. CASE DisbursementNext
  <2>1. ASSUME NEW amount \in 1..Remaining, Release(amount)
        PROVE  Unreleased'
    BY <2>1 DEF Release, Unreleased
  <2>2. ASSUME NEW i \in Investors, NEW j \in Investors, Refund(i) \/ RefundBatch(i, j)
        PROVE  UNCHANGED <<status, releasedAmount>>
    BY <2>2 DEF Refund, RefundBatch, ReturnPrincipal
  <2>3. CASE Settle \/ Withdraw \/ \E amount \in 1..MaxDustSweep : SweepTerminalDust(amount)
    BY <2>3 DEF Settle, Withdraw, SweepTerminalDust, Unreleased
  <2>4. CASE CancelFunding
    BY <2>4 DEF CancelFunding, flowVars, Unreleased
  <2>5. CASE CloseEscrow \/ \E i \in Investors : Claim(i)
    BY <2>5 DEF CloseEscrow, Claim, flowVars, Unreleased
  <2> QED
    BY <1>3, <2>1, <2>2, <2>3, <2>4, <2>5 DEF DisbursementNext, Unreleased
<1>4. CASE UNCHANGED escrowVars \/ \E amount \in Amounts : ReceiveTransfer(amount)
  BY <1>4 DEF escrowVars, ReceiveTransfer, flowVars, Unreleased
<1> QED
  BY <1>1, <1>2, <1>3, <1>4, StepKinds

(* In a cancelled round every refund still due can be made at once.        *)
RefundsPayable == status = 4 => SumFunction(contribution) <= balance

(* In whichever order investors are refunded, one by one or in batches,    *)
(* and whatever is swept or sent in between, the escrow holds what all the *)
(* others are still owed: no refund is ever refused for lack of tokens.    *)
THEOREM RefundsStayPayable == Spec => []RefundsPayable
<1>1. Init => Unreleased
  BY DEF Init, EscrowInit, Unreleased
<1>2. RoundInv /\ PrincipalIsSum /\ PrincipalBacked /\ Unreleased => RefundsPayable
  <2> SUFFICES ASSUME RoundInv, PrincipalIsSum, PrincipalBacked, Unreleased, status = 4
               PROVE  principal <= balance
    BY DEF RefundsPayable, PrincipalIsSum
  <2>1. balance + releasedAmount >= principal /\ releasedAmount = 0 /\ balance \in Nat
    BY DEF PrincipalBacked, Unreleased, RoundInv, BaseInv, AllTypesOK, RecordTypeOK
  <2> QED
    BY <2>1
<1> QED
  BY <1>1, <1>2, UnreleasedKept, PrincipalIsBacked, PrincipalAddsUp, RoundInvariant, PTL DEF Spec

(* No step out of a cancelled round leaves less than the investors who are *)
(* in have put in: neither a refund of others nor the treasury's sweep     *)
(* touches what is theirs.                                                 *)
THEOREM SweepSparesRefunds == Spec => [][status = 4 => principal' <= balance']_vars
<1>1. RoundInv /\ RoundInv' /\ PrincipalIsSum /\ PrincipalIsSum'
      /\ DistributionAccounted /\ RefundsPayable' /\ [Next]_vars
        => (status = 4 => principal' <= balance')
  <2> SUFFICES ASSUME RoundInv, RoundInv', PrincipalIsSum, PrincipalIsSum',
                      DistributionAccounted, RefundsPayable', [Next]_vars, status = 4
               PROVE  principal' <= balance'
    OBVIOUS
  <2>1. CASE status' = 4
    BY <2>1 DEF RefundsPayable, PrincipalIsSum
  <2>2. CASE status' # 4
    <3>1. PICK amount \in 1..MaxDustSweep : SweepTerminalDust(amount)
      <4>1. DisbursementNext
        <5>1. ~FundingNext
          BY FundingFrame DEF RoundInv, BaseInv, FundingEffect
        <5>2. ~TermsNext
          BY <2>2, TermsFrame
        <5> QED
          BY <2>2, <5>1, <5>2, StepKinds DEF ReceiveTransfer, escrowVars
      <4> QED
        BY <2>2, <4>1 DEF DisbursementNext, Settle, Release, Withdraw, Claim, Refund, RefundBatch,
                          ReturnPrincipal, CancelFunding, CloseEscrow
    <3>2. /\ balance' = balance - Swept(amount)
          /\ balance - Swept(amount) >= fundedAmount - distributedPrincipal
          /\ principal' = principal
      BY <3>1 DEF SweepTerminalDust, Sweepable, PayOut, positionVars
    <3>3. distributedPrincipal + principal <= fundedAmount
      BY DEF DistributionAccounted
    <3>4. /\ fundedAmount \in Int /\ distributedPrincipal \in Int /\ principal \in Int
          /\ balance - Swept(amount) \in Int
      BY BookTypes, EscrowAssumption DEF RoundInv, BaseInv, AllTypesOK, RecordTypeOK, Swept
    <3>5. principal <= balance - Swept(amount)
      BY <3>2, <3>3, <3>4
    <3> QED
      BY <3>2, <3>5
  <2> QED
    BY <2>1, <2>2
<1> QED
  BY <1>1, RefundsStayPayable, BooksBalance, PrincipalAddsUp, RoundInvariant, PTL DEF Spec

-----------------------------------------------------------------------------
(* The payouts and the pool *)

(* Every unit of the principal in the round has been credited twice.       *)
TwiceCredited == 2 * principal <= fundedAmount

(* A funding call keeps that: it credits a deposit twice and debits a unit *)
(* taken back once.                                                        *)
LEMMA FundingCreditsTwice ==
    ASSUME RoundInv, PrincipalIsSum, TwiceCredited, FundingNext
    PROVE  TwiceCredited'
<1>0. principal \in Nat /\ fundedAmount \in Int
  BY BookTypes
<1>1. ASSUME NEW i \in Investors, NEW a \in Nat, NEW y, NEW n, Deposit(i, a, y, n)
      PROVE  TwiceCredited'
  <2>1. principal' = principal + a /\ fundedAmount' = fundedAmount + 2 * a
    BY <1>1 DEF Deposit, CreditFunding, Credit
  <2> QED
    BY <1>0, <2>1 DEF TwiceCredited
<1>2. ASSUME NEW i \in Investors, NEW a \in Nat, Unfund(i, a)
      PROVE  TwiceCredited'
  <2>1. principal' = principal - a /\ fundedAmount' = fundedAmount - a
    BY <1>2 DEF Unfund
  <2> QED
    BY <1>0, <2>1 DEF TwiceCredited
<1>3. ASSUME NEW i \in Investors, NEW j \in Investors, NEW a \in Nat, NEW b \in Nat,
             FundBatch(i, a, j, b)
      PROVE  TwiceCredited'
  <2>1. principal' = principal + a + b /\ fundedAmount' = fundedAmount + 2 * a + 2 * b
    BY <1>3 DEF FundBatch, CreditFunding, Credit
  <2> QED
    BY <1>0, <2>1 DEF TwiceCredited
<1>4. CASE PartialSettle
  BY <1>0, <1>4 DEF PartialSettle, positionVars, TwiceCredited
<1> QED
  BY <1>1, <1>2, <1>3, <1>4, FundingKinds

(* A smaller principal is credited twice where the larger one is.          *)
LEMMA TwiceLess ==
    ASSUME NEW p \in Int, NEW q \in Int, NEW f \in Int, q <= p, 2 * p <= f
    PROVE  2 * q <= f
  OBVIOUS

(* So does every step: a refund lowers the principal alone.                *)
LEMMA TwiceKept ==
    ASSUME RoundInv, PrincipalIsSum, TwiceCredited, [Next]_vars
    PROVE  TwiceCredited'
<1>0. principal \in Nat /\ fundedAmount \in Int /\ contribution \in [Investors -> Nat]
  BY BookTypes
<1>1. CASE FundingNext
  BY <1>1, FundingCreditsTwice
<1>2. CASE TermsNext
  BY <1>2, TermsFrame DEF nonTermVars, positionVars, TwiceCredited
<1>3. CASE DisbursementNext
  <2>1. fundedAmount' = fundedAmount
    BY <1>3 DEF DisbursementNext, Settle, Release, Withdraw, Claim, CancelFunding, Refund,
                RefundBatch, ReturnPrincipal, SweepTerminalDust, CloseEscrow
  <2>2. ASSUME NEW i \in Investors, Refund(i)
        PROVE  principal' = principal - contribution[i]
    BY <2>2 DEF Refund, ReturnPrincipal
  <2>3. ASSUME NEW i \in Investors, NEW j \in Investors, RefundBatch(i, j)
        PROVE  principal' = principal - (contribution[i] + contribution[j])
    BY <1>0, <2>3 DEF RefundBatch, ReturnPrincipal
  <2>4. principal' \in Int /\ principal' <= principal
    BY <1>0, <1>3, <2>2, <2>3, PaymentKinds
  <2>5. PICK q \in Int, p \in Int, f \in Int :
             q = principal' /\ p = principal /\ f = fundedAmount
    BY <1>0, <2>4
  <2>6. q <= p /\ 2 * p <= f
    BY <2>4, <2>5 DEF TwiceCredited
  <2>7. 2 * q <= f
    BY <2>5, <2>6, TwiceLess
  <2> QED
    BY <2>1, <2>5, <2>7 DEF TwiceCredited
<1>4. CASE \E amount \in Amounts : ReceiveTransfer(amount)
  BY <1>4 DEF ReceiveTransfer, positionVars, TwiceCredited
<1>5. CASE UNCHANGED escrowVars
  BY <1>5 DEF escrowVars, positionVars, TwiceCredited
<1> QED
  BY <1>1, <1>2, <1>3, <1>4, <1>5, StepKinds

(* In every reachable state.                                               *)
LEMMA TwiceInvariant == Spec => []TwiceCredited
<1>1. Init => TwiceCredited
  BY DEF Init, EscrowInit, TwiceCredited
<1>2. RoundInv /\ PrincipalIsSum /\ TwiceCredited /\ [Next]_vars => TwiceCredited'
  BY TwiceKept
<1> QED
  BY <1>1, <1>2, PrincipalAddsUp, RoundInvariant, PTL DEF Spec

(* No yield doubles a principal, so no payout is more than twice what was  *)
(* put in.                                                                 *)
LEMMA PayoutWithinTwice ==
    ASSUME NEW a \in Nat, NEW p \in Nat \ {0}, NEW y \in Bps
    PROVE  GrossPayout(a, p, y) \in Nat /\ GrossPayout(a, p, y) <= 2 * a
<1>1. p * y \in Nat /\ p * y <= p * 10000
  BY DEF Bps, BpsDenominator
<1>2. Coupon(p, y) \in Nat /\ Coupon(p, y) <= p
  BY <1>1 DEF Coupon, BpsDenominator
<1>3. PICK pool \in Nat : pool = SettlePool(p, y) /\ pool <= 2 * p
  BY <1>2 DEF SettlePool
<1>4. a * pool \in Nat /\ a * pool <= (2 * a) * p
  BY <1>3
<1>5. (a * pool) \div p \in Nat /\ (a * pool) \div p <= 2 * a
  <2>1. PICK n \in Nat : n = a * pool
    BY <1>4
  <2>2. n <= (2 * a) * p
    BY <1>4, <2>1
  <2>3. n \div p \in Nat /\ p * (n \div p) <= n
    OBVIOUS
  <2>4. PICK q \in Nat : q = n \div p
    BY <2>3
  <2>5. p * q <= p * (2 * a)
    BY <2>2, <2>3, <2>4
  <2>6. q <= 2 * a
    BY <2>5
  <2> QED
    BY <2>1, <2>4, <2>6
<1> QED
  BY <1>3, <1>5 DEF GrossPayout

(* No yield is negative, so no payout is less than what was put in.        *)
LEMMA PayoutReturnsPrincipal ==
    ASSUME NEW a \in Nat, NEW p \in Nat \ {0}, NEW y \in Bps
    PROVE  a <= GrossPayout(a, p, y)
<1>1. PICK n \in Nat : n = p * y
  BY DEF Bps, BpsDenominator
<1>2. n \div 10000 \in Nat
  OBVIOUS
<1>3. PICK pool \in Nat : pool = SettlePool(p, y) /\ pool >= p
  BY <1>1, <1>2 DEF SettlePool, Coupon, BpsDenominator
<1>4. PICK m \in Nat : m = a * pool
  BY <1>3
<1>5. a * p <= m
  BY <1>3, <1>4
<1>6. PICK q \in Nat : q = m \div p
  OBVIOUS
<1>7. m < p * (q + 1)
  BY <1>6
<1>8. a * p < (q + 1) * p
  BY <1>5, <1>7
<1>9. a <= q
  BY <1>8
<1> QED
  BY <1>3, <1>4, <1>6, <1>9 DEF GrossPayout

(* What the round owes an investor, between once and twice the             *)
(* contribution.                                                           *)
LEMMA PayoutBounds ==
    ASSUME RoundInv, PrincipalIsSum, TwiceCredited, Closed, NEW i \in Investors
    PROVE  /\ InvestorPayout(i) \in Nat
           /\ contribution[i] <= InvestorPayout(i)
           /\ InvestorPayout(i) <= 2 * contribution[i]
<1> DEFINE total == fundingCloseSnapshot.totalPrincipal
           y == IF effectiveYield[i] = Absent THEN yieldBps ELSE effectiveYield[i]
<1>1. contribution \in [Investors -> Nat] /\ y \in Bps
  BY DEF RoundInv, BaseInv, AllTypesOK, TermTypeOK, PositionTypeOK
<1>2. total = fundedAmount /\ total \in Int
  BY BookTypes DEF RoundInv, BaseInv, SnapshotInv, SnapshotPinsFunding
<1>3. InvestorPayout(i) = GrossPayout(contribution[i], total, y)
  BY DEF InvestorPayout, Closed
<1>4. PICK c \in Nat : c = contribution[i]
  BY <1>1
<1>5. 2 * c <= total
  <2>1. c <= principal /\ principal \in Nat
    BY <1>1, <1>4, AllowlistAssumption, SumCovers DEF PrincipalIsSum
  <2>2. 2 * principal <= total
    BY <1>2 DEF TwiceCredited
  <2> QED
    BY <1>2, <2>1, <2>2, TwiceLess
<1> HIDE DEF total, y
<1>6. CASE c = 0
  BY <1>3, <1>4, <1>6 DEF GrossPayout
<1>7. CASE c # 0
  <2>1. total \in Nat \ {0}
    BY <1>2, <1>5, <1>7
  <2>2. /\ GrossPayout(c, total, y) \in Nat
        /\ c <= GrossPayout(c, total, y) /\ GrossPayout(c, total, y) <= 2 * c
    BY <1>1, <2>1, PayoutWithinTwice, PayoutReturnsPrincipal
  <2> QED
    BY <1>3, <1>4, <2>2
<1> QED
  BY <1>6, <1>7

(* The payouts of a closed round stay within the pool, though tiers pay    *)
(* more than the base yield the pool is computed at: the principal they    *)
(* are shares of counts every deposit twice.                               *)
THEOREM PoolSuffices == Spec => []PayoutsWithinPool
<1>1. RoundInv /\ PrincipalIsSum /\ TwiceCredited => PayoutsWithinPool
  <2> SUFFICES ASSUME RoundInv, PrincipalIsSum, TwiceCredited, Closed
               PROVE  SumFunction([i \in Investors |-> InvestorPayout(i)]) <= SettlementPool
    BY DEF PayoutsWithinPool
  <2> DEFINE total == fundingCloseSnapshot.totalPrincipal
             payouts == [i \in Investors |-> InvestorPayout(i)]
  <2>1. total = fundedAmount /\ total \in Int /\ yieldBps \in Bps
    BY BookTypes DEF RoundInv, BaseInv, SnapshotInv, SnapshotPinsFunding, AllTypesOK, TermTypeOK
  <2>2. 2 * SumFunction(contribution) <= total
    BY <2>1 DEF TwiceCredited, PrincipalIsSum
  <2>3. contribution \in [Investors -> Nat] /\ IsFiniteSet(Investors)
    BY BookTypes, AllowlistAssumption
  <2>4. payouts \in [Investors -> Nat] /\ \A i \in Investors : 1 * payouts[i] <= 2 * contribution[i]
    BY PayoutBounds
  <2> HIDE DEF payouts
  <2>5. SumFunction(payouts) \in Nat /\ SumFunction(contribution) \in Nat
    BY <2>3, <2>4, SumCovers
  <2>6. 1 * SumFunction(payouts) <= 2 * SumFunction(contribution)
    BY <2>3, <2>4, SumScaled
  <2>7. SumFunction(payouts) <= total
    BY <2>1, <2>2, <2>5, <2>6
  <2>8. total <= SettlementPool
    <3>1. CASE total <= 0
      BY <2>1, <3>1 DEF SettlementPool
    <3>2. CASE ~(total <= 0)
      <4>1. SettlementPool = total + Coupon(total, yieldBps)
        BY <3>2 DEF SettlementPool, SettlePool, Closed
      <4> HIDE DEF total
      <4>2. PICK n \in Nat : n = total * yieldBps
        BY <2>1, <3>2 DEF Bps, BpsDenominator
      <4>3. n \div 10000 \in Nat
        OBVIOUS
      <4>4. Coupon(total, yieldBps) \in Nat
        BY <4>2, <4>3 DEF Coupon, BpsDenominator
      <4> QED
        BY <2>1, <4>1, <4>4
    <3> QED
      BY <3>1, <3>2
  <2>9. SettlementPool \in Int
    BY <2>1, <2>7, <2>5, <2>8 DEF SettlementPool, SettlePool, Coupon, Bps, BpsDenominator
  <2> QED
    BY <2>1, <2>5, <2>7, <2>8, <2>9 DEF payouts
<1> QED
  BY <1>1, TwiceInvariant, PrincipalAddsUp, RoundInvariant, PTL

(* A closed round owes every funder at least the contribution, and not     *)
(* more than twice of it.                                                  *)
FundersMadeWhole ==
    Closed => \A i \in Investors :
                 contribution[i] <= InvestorPayout(i) /\ InvestorPayout(i) <= 2 * contribution[i]

(* Whichever way a round was closed, at whatever yields its tiers granted, *)
(* and though a division that truncates decides it, nobody who is in is    *)
(* owed less than was put in, or more than double.                         *)
THEOREM FundersAreMadeWhole == Spec => []FundersMadeWhole
<1>1. RoundInv /\ PrincipalIsSum /\ TwiceCredited => FundersMadeWhole
  BY PayoutBounds DEF FundersMadeWhole
<1> QED
  BY <1>1, TwiceInvariant, PrincipalAddsUp, RoundInvariant, PTL

(* What claims have paid and what the others are still owed.               *)
PoolCoversClaims == Closed => SumFunction(paid) + Owed <= SettlementPool

(* At every point of the claims, in whichever order they come, what has    *)
(* been paid and what is still to be paid are together within the pool.    *)
THEOREM PoolCoversAllClaims == Spec => []PoolCoversClaims
<1>1. /\ RoundInv /\ PrincipalIsSum /\ TwiceCredited
      /\ PaidExactlyOnce /\ PayoutsWithinPool
      => PoolCoversClaims
  <2> SUFFICES ASSUME RoundInv, PrincipalIsSum, TwiceCredited, PaidExactlyOnce,
                      PayoutsWithinPool, Closed
               PROVE  SumFunction(paid) + Owed <= SettlementPool
    BY DEF PoolCoversClaims
  <2> DEFINE payouts == [i \in Investors |-> InvestorPayout(i)]
             unpaid == [i \in Investors |-> IF claimed[i] THEN 0 ELSE InvestorPayout(i)]
  <2>1. payouts \in [Investors -> Nat] /\ unpaid \in [Investors -> Nat]
    BY PayoutBounds
  <2>2. paid \in [Investors -> Nat]
    BY DEF RoundInv, BaseInv, AllTypesOK, PositionTypeOK
  <2>3. \A i \in Investors : payouts[i] = paid[i] + unpaid[i]
    BY PayoutBounds DEF PaidExactlyOnce
  <2>4. Owed = SumFunction(unpaid) /\ SumFunction(payouts) <= SettlementPool
    BY DEF Owed, PayoutsWithinPool
  <2> HIDE DEF payouts, unpaid
  <2>5. SumFunction(payouts) = SumFunction(paid) + SumFunction(unpaid)
    BY <2>1, <2>2, <2>3, AllowlistAssumption, SumAdds
  <2> QED
    BY <2>4, <2>5
<1> QED
  BY <1>1, TwiceInvariant, PoolSuffices, ClaimsPaidOnce, PrincipalAddsUp, RoundInvariant, PTL

(* A closed round that holds what is owed can pay whichever funder claims  *)
(* next, and has something to pay.                                         *)
NextClaimIsCovered ==
    Closed /\ balance >= Owed =>
        \A i \in Funders : claimed[i] \/ InvestorPayout(i) \in 1..balance

(* A claim whose gates and lock are past is never refused in a solvent     *)
(* round: neither does a payout truncate to nothing, nor can the claims    *)
(* before it have taken its tokens.                                        *)
THEOREM SolventRoundsPay == Spec => []NextClaimIsCovered
<1>1. RoundInv /\ PrincipalIsSum /\ TwiceCredited => NextClaimIsCovered
  <2> SUFFICES ASSUME RoundInv, PrincipalIsSum, TwiceCredited, Closed, balance >= Owed,
                      NEW i \in Funders, ~claimed[i]
               PROVE  InvestorPayout(i) \in 1..balance
    BY DEF NextClaimIsCovered
  <2> DEFINE unpaid == [j \in Investors |-> IF claimed[j] THEN 0 ELSE InvestorPayout(j)]
  <2>1. i \in Investors /\ contribution[i] > 0 /\ contribution \in [Investors -> Nat]
    BY BookTypes DEF Funders
  <2>2. InvestorPayout(i) \in Nat /\ contribution[i] <= InvestorPayout(i)
    BY <2>1, PayoutBounds
  <2>3. unpaid \in [Investors -> Nat] /\ unpaid[i] = InvestorPayout(i) /\ Owed = SumFunction(unpaid)
    BY <2>1, PayoutBounds DEF Owed
  <2> HIDE DEF unpaid
  <2>4. InvestorPayout(i) <= Owed /\ Owed \in Nat
    BY <2>1, <2>3, AllowlistAssumption, SumCovers
  <2>5. balance \in Nat
    BY DEF RoundInv, BaseInv, AllTypesOK, RecordTypeOK
  <2> QED
    BY <2>1, <2>2, <2>4, <2>5
<1> QED
  BY <1>1, TwiceInvariant, PrincipalAddsUp, RoundInvariant, PTL

(* What a closed round still owes changes by a claim alone, and by exactly *)
(* what this claim takes out: no call adds to what is owed or forgets it,  *)
(* and a claim leaves the others as well covered as it found them.         *)
THEOREM ClaimsSpareOthers ==
    Spec => [][Closed => \/ Owed' = Owed
                         \/ balance' < balance /\ balance' - Owed' = balance - Owed]_vars
<1>1. RoundInv /\ PrincipalIsSum /\ TwiceCredited /\ [Next]_vars
        => (Closed => \/ Owed' = Owed
                      \/ balance' < balance /\ balance' - Owed' = balance - Owed)
  <2> SUFFICES ASSUME RoundInv, PrincipalIsSum, TwiceCredited, [Next]_vars, Closed
               PROVE  \/ Owed' = Owed
                      \/ balance' < balance /\ balance' - Owed' = balance - Owed
    OBVIOUS
  <2> DEFINE unpaid == [j \in Investors |-> IF claimed[j] THEN 0 ELSE InvestorPayout(j)]
             left == [j \in Investors |-> IF claimed'[j] THEN 0 ELSE InvestorPayout(j)]
  <2>1. BaseInv /\ status # 4 /\ claimed \in [Investors -> BOOLEAN]
    BY DEF RoundInv, BaseInv, SnapshotInv, SnapshotTracksStatus, AllTypesOK, PositionTypeOK
  <2>2. Owed = SumFunction(unpaid)
    BY DEF Owed
  <2>3. Owed' = SumFunction(left)
    <3>1. \A j \in Investors : InvestorPayout(j)' = InvestorPayout(j)
      BY <2>1, PayoutFrozen
    <3>2. [j \in Investors |-> IF claimed[j] THEN 0 ELSE InvestorPayout(j)]' = left
      BY <3>1
    <3> QED
      BY <3>2 DEF Owed
  <2>4. CASE UNCHANGED exitVars
    BY <2>2, <2>3, <2>4 DEF exitVars
  <2>5. ASSUME NEW i \in Investors, Claim(i)
        PROVE  balance' < balance /\ balance' - Owed' = balance - Owed
    <3>1. /\ ~claimed[i] /\ claimed' = [claimed EXCEPT ![i] = TRUE]
          /\ InvestorPayout(i) > 0 /\ balance' = balance - InvestorPayout(i)
      BY <2>5, ClaimedWhenClosed DEF Claim, PayOut
    <3>2. PICK d \in Nat : d = InvestorPayout(i)
      BY PayoutBounds
    <3>3. unpaid \in [Investors -> Nat] /\ left \in [Investors -> Nat]
      BY PayoutBounds
    <3>4. /\ left[i] = unpaid[i] + (-d)
          /\ \A j \in Investors : j # i => left[j] = unpaid[j]
      BY <2>1, <3>1, <3>2
    <3> HIDE DEF unpaid, left
    <3>5. SumFunction(left) = SumFunction(unpaid) + (-d)
      BY <3>3, <3>4, AllowlistAssumption, SumMoves
    <3>6. SumFunction(unpaid) \in Nat /\ balance \in Nat
      BY <3>3, AllowlistAssumption, SumCovers DEF RoundInv, BaseInv, AllTypesOK, RecordTypeOK
    <3> QED
      BY <2>2, <2>3, <3>1, <3>2, <3>5, <3>6
  <2> QED
    BY <2>1, <2>4, <2>5, ExitFrame
<1> QED
  BY <1>1, TwiceInvariant, PrincipalAddsUp, RoundInvariant, PTL DEF Spec

-----------------------------------------------------------------------------
(* The arithmetic of a share, for every amount *)

(* Two quotients against the quotient of the sum.                          *)
LEMMA QuotientsAdd ==
    ASSUME NEW m \in Nat, NEW n \in Nat, NEW p \in Nat \ {0}
    PROVE  /\ (m \div p) + (n \div p) <= (m + n) \div p
           /\ (m + n) \div p <= (m \div p) + (n \div p) + 1
<1>1. PICK a \in Nat, b \in Nat, c \in Nat : a = m \div p /\ b = n \div p /\ c = (m + n) \div p
  OBVIOUS
<1>2. p * a <= m /\ m < p * (a + 1) /\ p * b <= n /\ n < p * (b + 1)
  BY <1>1
<1>3. p * c <= m + n /\ m + n < p * (c + 1)
  BY <1>1
<1>4. p * (a + b) < p * (c + 1)
  BY <1>2, <1>3
<1>5. p * c < p * (a + b + 2)
  BY <1>2, <1>3
<1>6. a + b < c + 1 /\ c < a + b + 2
  BY <1>4, <1>5
<1> QED
  BY <1>1, <1>6

(* The pool is a natural, and grows with the yield.                        *)
LEMMA PoolGrows ==
    ASSUME NEW p \in Nat, NEW y \in Bps, NEW z \in Bps, y <= z
    PROVE  /\ SettlePool(p, y) \in Nat /\ SettlePool(p, z) \in Nat
           /\ SettlePool(p, y) <= SettlePool(p, z)
<1>1. PICK a \in Nat, b \in Nat : a = p * y /\ b = p * z
  BY DEF Bps, BpsDenominator
<1>2. a <= b
  BY <1>1 DEF Bps, BpsDenominator
<1>3. a \div 10000 \in Nat /\ b \div 10000 \in Nat /\ a \div 10000 <= b \div 10000
  BY <1>2
<1> QED
  BY <1>1, <1>3 DEF SettlePool, Coupon, BpsDenominator

(* An investor who splits a contribution over several addresses is never   *)
(* paid more for it, and loses at most one unit to the truncation: the     *)
(* pro-rata share cannot be gamed by splitting or by merging positions.    *)
THEOREM SplittingIsNeutral ==
    ASSUME NEW a \in Nat, NEW b \in Nat, NEW p \in Nat \ {0}, NEW y \in Bps
    PROVE  /\ GrossPayout(a, p, y) + GrossPayout(b, p, y) <= GrossPayout(a + b, p, y)
           /\ GrossPayout(a + b, p, y) <= GrossPayout(a, p, y) + GrossPayout(b, p, y) + 1
<1>1. PICK pool \in Nat : pool = SettlePool(p, y)
  <2>1. y <= y
    BY DEF Bps, BpsDenominator
  <2> QED
    BY <2>1, PoolGrows
<1>2. \A c \in Nat : GrossPayout(c, p, y) = (c * pool) \div p
  <2> SUFFICES ASSUME NEW c \in Nat
               PROVE  GrossPayout(c, p, y) = (c * pool) \div p
    OBVIOUS
  <2>1. CASE c = 0
    <3>1. 0 * pool = 0 /\ 0 \div p = 0
      BY <1>1
    <3> QED
      BY <2>1, <3>1 DEF GrossPayout
  <2>2. CASE c # 0
    BY <1>1, <2>2 DEF GrossPayout
  <2> QED
    BY <2>1, <2>2
<1>3. PICK m \in Nat, n \in Nat : m = a * pool /\ n = b * pool
  BY <1>1
<1>4. (a + b) * pool = m + n /\ a + b \in Nat
  BY <1>1, <1>3
<1>5. /\ GrossPayout(a, p, y) = m \div p /\ GrossPayout(b, p, y) = n \div p
      /\ GrossPayout(a + b, p, y) = (m + n) \div p
  BY <1>2, <1>3, <1>4
<1> QED
  BY <1>5, QuotientsAdd

(* Whoever the investors are and however the principal is divided among    *)
(* them, the shares at one yield add up to no more than the pool at that   *)
(* yield.  This does not lean on deposits being credited twice: it is what *)
(* the pool would guarantee a round without tiers if they were not.        *)
THEOREM SharesWithinPool ==
    ASSUME NEW I, IsFiniteSet(I), NEW f \in [I -> Nat], NEW p \in Nat \ {0}, NEW y \in Bps,
           SumFunction(f) <= p
    PROVE  SumFunction([i \in I |-> GrossPayout(f[i], p, y)]) <= SettlePool(p, y)
<1>1. PICK pool \in Nat : pool = SettlePool(p, y)
  <2>1. y <= y
    BY DEF Bps, BpsDenominator
  <2> QED
    BY <2>1, PoolGrows
<1> DEFINE g == [i \in I |-> GrossPayout(f[i], p, y)]
<1>2. ASSUME NEW c \in Nat
      PROVE  GrossPayout(c, p, y) \in Nat /\ p * GrossPayout(c, p, y) <= pool * c
  <2>1. PICK n \in Nat : n = c * pool
    OBVIOUS
  <2>2. n \div p \in Nat /\ p * (n \div p) <= n
    OBVIOUS
  <2>3. pool * c \in Nat /\ pool * c = n
    BY <2>1
  <2>4. CASE c = 0
    BY <2>3, <2>4 DEF GrossPayout
  <2>5. CASE c # 0
    <3>1. GrossPayout(c, p, y) = n \div p
      BY <1>1, <2>1, <2>5 DEF GrossPayout
    <3> QED
      BY <2>2, <2>3, <3>1
  <2> QED
    BY <2>4, <2>5
<1>3. g \in [I -> Nat] /\ \A i \in I : p * g[i] <= pool * f[i]
  BY <1>2
<1> HIDE DEF g
<1>4. PICK s \in Nat, t \in Nat : s = SumFunction(g) /\ t = SumFunction(f)
  BY <1>3, SumCovers
<1>5. p * s <= pool * t
  BY <1>3, <1>4, SumScaled
<1>6. pool * t <= pool * p
  BY <1>4
<1>7. p * s <= p * pool
  BY <1>5, <1>6
<1>8. s <= pool
  BY <1>7
<1> QED
  BY <1>1, <1>4, <1>8 DEF g

(* A larger deposit or a better yield is never paid less.                  *)
THEOREM PayoutIsMonotone ==
    ASSUME NEW a \in Nat, NEW b \in Nat, NEW p \in Nat \ {0}, NEW y \in Bps, NEW z \in Bps,
           a <= b, y <= z
    PROVE  GrossPayout(a, p, y) <= GrossPayout(b, p, z)
<1>1. PICK low \in Nat, high \in Nat :
           low = SettlePool(p, y) /\ high = SettlePool(p, z) /\ low <= high
  BY PoolGrows
<1>2. PICK m \in Nat, n \in Nat : m = a * low /\ n = b * high
  BY <1>1
<1>3. m <= n
  <2>1. a * low <= a * high /\ a * high <= b * high
    BY <1>1
  <2> QED
    BY <1>1, <1>2, <2>1
<1>4. m \div p <= n \div p /\ n \div p \in Nat
  BY <1>3
<1>5. CASE a = 0
  BY <1>1, <1>2, <1>4, <1>5 DEF GrossPayout
<1>6. CASE a # 0
  BY <1>1, <1>2, <1>4, <1>6 DEF GrossPayout
<1> QED
  BY <1>5, <1>6

(* The protocol fee that a withdrawal deducts is part of what it pays, so  *)
(* that neither the treasury nor the SME is ever paid a negative amount.   *)
THEOREM FeeWithinGross ==
    ASSUME NEW gross \in Nat, NEW bps \in Bps
    PROVE  ProtocolFee(gross, bps) \in 0..gross
<1>1. PICK n \in Nat : n = gross * bps
  BY DEF Bps, BpsDenominator
<1>2. n <= gross * 10000
  BY <1>1 DEF Bps, BpsDenominator
<1>3. n \div 10000 \in Nat /\ n \div 10000 <= gross
  BY <1>2
<1> QED
  BY <1>1, <1>3 DEF ProtocolFee, BpsDenominator

(* There are only so many yields.                                          *)
LEMMA YieldsFinite ==
    ASSUME NEW S, \A y \in S : y \in Bps
    PROVE  IsFiniteSet(S) /\ \A y \in S : y \in Int
<1>1. ASSUME NEW y \in Bps
      PROVE  y \in Nat /\ y <= 10000
  BY DEF Bps, BpsDenominator
<1>2. S \in SUBSET Nat
  BY <1>1
<1> QED
  BY <1>1, <1>2, FS_BoundedSetOfNaturals

(* Every commitment is granted exactly one yield, whatever the tier table: *)
(* the choice in FundWithCommitment is never empty and never open.         *)
THEOREM CommitmentsAreGranted ==
    ASSUME NEW tiers \in Seq([minLock : Nat, yieldBps : Bps]), NEW base \in Bps, NEW lock \in Nat
    PROVE  \E y \in Bps : /\ IsBestYield(y, tiers, base, lock)
                          /\ \A z : IsBestYield(z, tiers, base, lock) => z = y
<1> DEFINE all == QualifyingYields(tiers, base, lock)
<1>1. all # {} /\ \A y \in all : y \in Bps
  <2>1. \A k \in DOMAIN tiers : tiers[k] \in [minLock : Nat, yieldBps : Bps]
    BY ElementOfSeq, LenProperties
  <2>2. \A k \in DOMAIN tiers : tiers[k].yieldBps \in Bps
    BY <2>1
  <2> QED
    BY <2>2 DEF QualifyingYields
<1> HIDE DEF all
<1>2. IsFiniteSet(all) /\ \A y \in all : y \in Int
  BY <1>1, YieldsFinite
<1>3. PICK y \in all : \A z \in all : z <= y
  BY <1>1, <1>2, GreatestExists
<1>4. \A z : IsBestYield(z, tiers, base, lock) => z = y
  BY <1>2, <1>3 DEF IsBestYield, all
<1> QED
  BY <1>1, <1>3, <1>4 DEF IsBestYield, all

(* A longer commitment never earns less, in any tier table init accepts or *)
(* would refuse.                                                           *)
THEOREM LongerLocksEarnNoLess ==
    ASSUME NEW tiers \in Seq([minLock : Nat, yieldBps : Bps]), NEW base \in Bps,
           NEW short \in Nat, NEW long \in Nat, short <= long,
           NEW y, NEW z, IsBestYield(y, tiers, base, short), IsBestYield(z, tiers, base, long)
    PROVE  y <= z
<1>1. QualifyingYields(tiers, base, short) \subseteq QualifyingYields(tiers, base, long)
  <2>1. \A k \in DOMAIN tiers : tiers[k] \in [minLock : Nat, yieldBps : Bps]
    BY ElementOfSeq, LenProperties
  <2>2. \A k \in DOMAIN tiers : tiers[k].minLock \in Nat
    BY <2>1
  <2>3. \A k \in DOMAIN tiers : short >= tiers[k].minLock => long >= tiers[k].minLock
    BY <2>2
  <2>4. short > 0 => long > 0
    OBVIOUS
  <2> QED
    BY <2>3, <2>4 DEF QualifyingYields
<1> QED
  BY <1>1 DEF IsBestYield

=============================================================================
