---------------------------- MODULE TierSelection ---------------------------
(***************************************************************************)
(* The scan of the yield-tier table that fund_with_commitment and the      *)
(* preview share, step by step, against the choice by definition that the  *)
(* deposits of module Funding make.                                        *)
(***************************************************************************)
EXTENDS Payout

CONSTANTS
    MaxTiers,             \* bound on the length of the table
    TierLocks,            \* locks a table may hold
    TierYields,           \* yields a table and the base yield may hold
    Commitments           \* locks investors commit to

ASSUME TierAssumption ==
    /\ MaxTiers \in Nat
    /\ TierLocks \subseteq Nat /\ TierYields \subseteq Bps /\ Commitments \subseteq Nat

VARIABLES
    tierTable,            \* DataKey::YieldTierTable
    baseYield,            \* InvoiceEscrow::yield_bps
    scan,                 \* the locals of effective_yield_for_commitment
    resolutions           \* history: commitment |-> the resolution it got

tierVars == <<tierTable, baseYield, scan, resolutions>>

Tier == [minLock : TierLocks, yieldBps : TierYields]

(* The scan before it looks at the first tier; a commitment of 0 looks at  *)
(* none.                                                                   *)
Scan(lock) ==
    [lock |-> lock, next |-> IF lock = 0 THEN Len(tierTable) + 1 ELSE 1,
     best |-> baseYield, bestLock |-> 0]

TierInit ==
    /\ baseYield \in TierYields
    /\ tierTable \in UNION {[1..n -> Tier] : n \in 0..MaxTiers}
    /\ ValidTiers(tierTable, baseYield)
    /\ resolutions = <<>>
    /\ \E lock \in Commitments : scan = Scan(lock)

ScanDone == scan.next > Len(tierTable)

\* Mutant: a tier as good as the best one so far takes its place.
BetterTierOrEqual(tier) == scan.lock >= tier.minLock /\ tier.yieldBps >= scan.best

(* Whether a tier replaces the best one so far. *)
BetterTier(tier) == scan.lock >= tier.minLock /\ tier.yieldBps > scan.best

(* One turn of the loop. *)
ScanTier ==
    LET tier == tierTable[scan.next]
        better == BetterTier(tier)
    IN  /\ ~ScanDone
        /\ scan' = [lock |-> scan.lock, next |-> scan.next + 1,
                    best |-> IF better THEN tier.yieldBps ELSE scan.best,
                    bestLock |-> IF better THEN tier.minLock ELSE scan.bestLock]
        /\ UNCHANGED <<tierTable, baseYield, resolutions>>

(* The call returns, as preview_yield_tier or to a deposit, and another    *)
(* one begins.                                                             *)
Resolve ==
    /\ ScanDone
    /\ resolutions' = [lock \in DOMAIN resolutions \cup {scan.lock} |->
          IF lock = scan.lock THEN [yieldBps |-> scan.best, matched |-> scan.bestLock]
          ELSE resolutions[lock]]
    /\ \E lock \in Commitments : scan' = Scan(lock)
    /\ UNCHANGED <<tierTable, baseYield>>

TierNext == ScanTier \/ Resolve

TierSpec == TierInit /\ [][TierNext]_tierVars

-----------------------------------------------------------------------------
(* The scan grants the best yield the commitment qualifies for, and names  *)
(* the shortest lock of the table that earns it, or none for the base      *)
(* yield: several tiers may pay the same.                                  *)
BestTierGranted ==
    \A lock \in DOMAIN resolutions :
        LET granted == resolutions[lock]
            earns == {tierTable[k].minLock : k \in {k \in DOMAIN tierTable :
                                                       tierTable[k].yieldBps = granted.yieldBps}}
        IN  /\ IsBestYield(granted.yieldBps, tierTable, baseYield, lock)
            /\ IF granted.yieldBps = baseYield THEN granted.matched = 0
               ELSE /\ granted.matched \in earns
                    /\ \A other \in earns : granted.matched <= other

=============================================================================
