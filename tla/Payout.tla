------------------------------- MODULE Payout -------------------------------
(***************************************************************************)
(* The contract's money arithmetic, as pure operators: coupon, settlement  *)
(* pool, pro-rata payout, protocol fee and yield-tier selection.  Division *)
(* truncates, as checked_div does on non-negative i128 values.             *)
(***************************************************************************)
EXTENDS Integers, Sequences

BpsDenominator == 10000

Bps == 0..BpsDenominator

Coupon(principal, yield) == (principal * yield) \div BpsDenominator

SettlePool(principal, yield) == principal + Coupon(principal, yield)

\* Mutant: the division comes before the multiplication.
GrossPayoutTruncated(amount, principal, yield) ==
    IF amount = 0 \/ principal <= 0 THEN 0
    ELSE (amount \div principal) * SettlePool(principal, yield)

(* The share of a contribution in the settlement pool; 0 without           *)
(* principal to divide by.                                                 *)
GrossPayout(amount, principal, yield) ==
    IF amount = 0 \/ principal <= 0 THEN 0
    ELSE (amount * SettlePool(principal, yield)) \div principal

ProtocolFee(gross, feeBps) == (gross * feeBps) \div BpsDenominator

(* A tier table init accepts: locks strictly increase, yields never fall   *)
(* and never undercut the base yield.                                      *)
ValidTiers(tiers, base) ==
    /\ \A k \in DOMAIN tiers : tiers[k].yieldBps \in Bps /\ tiers[k].yieldBps >= base
    /\ \A k \in 2..Len(tiers) :
          /\ tiers[k].minLock > tiers[k - 1].minLock
          /\ tiers[k].yieldBps >= tiers[k - 1].yieldBps

(* The yields a commitment of lock seconds qualifies for; the best one is  *)
(* granted.                                                                *)
QualifyingYields(tiers, base, lock) ==
    {base} \cup {tiers[k].yieldBps : k \in {k \in DOMAIN tiers :
                                              lock > 0 /\ lock >= tiers[k].minLock}}

IsBestYield(y, tiers, base, lock) ==
    /\ y \in QualifyingYields(tiers, base, lock)
    /\ \A z \in QualifyingYields(tiers, base, lock) : z <= y

=============================================================================
