---------------------------- MODULE FundingTerms ----------------------------
(***************************************************************************)
(* The admin's changes to the terms of the funding round: target, caps,    *)
(* floor, maturity and its horizon, base yield, deadline, protocol fee.    *)
(* All but the horizon and the fee are confined to the open state.  None   *)
(* is blocked by a legal hold, a dispute or a pause.                       *)
(***************************************************************************)
EXTENDS EscrowState

(* Everything but the terms themselves. *)
nonTermVars == <<positionVars, flowVars, settledAt, closed, balance, fundedAmount>>

\* Mutant: the snapshot records the target before the change.
UpdateFundingTargetStale(target) ==
    /\ target > 0
    /\ status = 0
    /\ target >= fundedAmount
    /\ fundingTarget' = target
    /\ IF fundedAmount > 0 /\ fundedAmount >= target /\ fundingCloseSnapshot = NoSnapshot
       THEN CloseFunding(fundedAmount, fundingTarget)
       ELSE UNCHANGED <<status, fundingCloseSnapshot>>
    /\ UNCHANGED <<yieldBps, maturity, limitVars, nonTermVars>>

(* update_funding_target: meeting the lowered target closes funding. *)
UpdateFundingTarget(target) ==
    /\ target > 0
    /\ status = 0
    /\ target >= fundedAmount
    /\ fundingTarget' = target
    /\ IF fundedAmount > 0 /\ fundedAmount >= target /\ fundingCloseSnapshot = NoSnapshot
       THEN CloseFunding(fundedAmount, target)
       ELSE UNCHANGED <<status, fundingCloseSnapshot>>
    /\ UNCHANGED <<yieldBps, maturity, limitVars, nonTermVars>>

LowerMaxUniqueInvestors(cap) ==
    /\ status = 0
    /\ maxUniqueInvestors # Absent
    /\ uniqueFunderCount <= cap /\ cap < maxUniqueInvestors
    /\ maxUniqueInvestors' = cap
    /\ UNCHANGED <<fundingDeadline, minContributionFloor, maxPerInvestor,
                   maturityMaxHorizon, protocolFeeBps>>

RaiseMaxUniqueInvestors(cap) ==
    /\ status = 0
    /\ maxUniqueInvestors # Absent
    /\ cap > maxUniqueInvestors
    /\ maxUniqueInvestors' = cap
    /\ UNCHANGED <<fundingDeadline, minContributionFloor, maxPerInvestor,
                   maturityMaxHorizon, protocolFeeBps>>

LowerMinContributionFloor(floor) ==
    /\ status = 0
    /\ 0 < floor /\ floor < minContributionFloor
    /\ minContributionFloor' = floor
    /\ UNCHANGED <<fundingDeadline, maxPerInvestor, maxUniqueInvestors,
                   maturityMaxHorizon, protocolFeeBps>>

RaiseMaxPerInvestor(cap) ==
    /\ status = 0
    /\ maxPerInvestor # Absent
    /\ cap > maxPerInvestor
    /\ maxPerInvestor' = cap
    /\ UNCHANGED <<fundingDeadline, minContributionFloor, maxUniqueInvestors,
                   maturityMaxHorizon, protocolFeeBps>>

\* Mutant: a deadline that has passed can be extended.
ExtendFundingDeadlineLapsed(deadline) ==
    /\ status = 0
    /\ fundingDeadline # Absent
    /\ deadline > fundingDeadline
    /\ maturity > 0 => deadline < maturity
    /\ fundingDeadline' = deadline
    /\ UNCHANGED <<minContributionFloor, maxPerInvestor, maxUniqueInvestors,
                   maturityMaxHorizon, protocolFeeBps>>

(* extend_funding_deadline *)
ExtendFundingDeadline(deadline) ==
    /\ status = 0
    /\ fundingDeadline # Absent
    /\ now <= fundingDeadline
    /\ deadline > fundingDeadline
    /\ maturity > 0 => deadline < maturity
    /\ fundingDeadline' = deadline
    /\ UNCHANGED <<minContributionFloor, maxPerInvestor, maxUniqueInvestors,
                   maturityMaxHorizon, protocolFeeBps>>

(* update_maturity_max_horizon takes any value, and                        *)
(* raise_maturity_max_horizon a larger one: the first includes the second. *)
UpdateMaturityMaxHorizon(horizon) ==
    /\ maturityMaxHorizon' = horizon
    /\ UNCHANGED <<fundingDeadline, minContributionFloor, maxPerInvestor,
                   maxUniqueInvestors, protocolFeeBps>>

(* set_protocol_fee_bps: in any state, at any time before a withdrawal. *)
SetProtocolFeeBps(bps) ==
    /\ bps \in Bps
    /\ protocolFeeBps' = bps
    /\ UNCHANGED <<fundingDeadline, minContributionFloor, maxPerInvestor,
                   maxUniqueInvestors, maturityMaxHorizon>>

(* update_maturity looks at neither the deadline nor the committed locks. *)
UpdateMaturity(time) ==
    /\ status = 0
    /\ time # maturity
    /\ MaturityInBounds(time, maturityMaxHorizon)
    /\ maturity' = time
    /\ UNCHANGED <<fundingTarget, yieldBps, limitVars>>

UpdateYieldBps(yield) ==
    /\ status = 0
    /\ yield \in Bps
    /\ yield # yieldBps
    /\ yieldBps' = yield
    /\ UNCHANGED <<fundingTarget, maturity, limitVars>>

LimitsNext ==
    \/ \E cap \in Caps : \/ LowerMaxUniqueInvestors(cap)
                            \/ RaiseMaxUniqueInvestors(cap)
                            \/ LowerMinContributionFloor(cap)
                            \/ RaiseMaxPerInvestor(cap)
    \/ \E time \in Times : \/ ExtendFundingDeadline(time)
                           \/ UpdateMaturityMaxHorizon(time)
    \/ \E bps \in Yields : SetProtocolFeeBps(bps)

TermsNext ==
    \/ \E target \in Targets : UpdateFundingTarget(target)
    \/ /\ \/ \E time \in Times : UpdateMaturity(time)
          \/ \E yield \in Yields : UpdateYieldBps(yield)
          \/ LimitsNext /\ UNCHANGED <<fundingTarget, yieldBps, maturity>>
       /\ UNCHANGED <<status, fundingCloseSnapshot, nonTermVars>>

=============================================================================
