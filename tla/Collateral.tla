----------------------------- MODULE Collateral -----------------------------
(***************************************************************************)
(* The SME's collateral commitment: metadata that is recorded, replaced,   *)
(* alone or in batches, and retired.  No token moves.  The SME signs every *)
(* call.  An asset that is not empty is not told from another.             *)
(***************************************************************************)
EXTENDS LedgerClock, Sequences, SequencesExt

CONSTANTS
    Assets,               \* asset symbols
    EmptyAsset,           \* the empty symbol
    PledgeAmounts,        \* amounts callers pass
    CollateralBatch       \* MAX_COLLATERAL_BATCH

ASSUME CollateralAssumption ==
    /\ EmptyAsset \notin Assets
    /\ PledgeAmounts \subseteq Int
    /\ CollateralBatch \in Nat \ {0}

VARIABLES
    pledge,               \* DataKey::SmeCollateralPledge, or NoPledge
    indexer               \* history: somebody who follows the events

collateralVars == <<pledge, indexer>>

Pledge(item) == [asset |-> item[1], amount |-> item[2], recordedAt |-> now]

NoPledge == [asset |-> EmptyAsset, amount |-> 0, recordedAt |-> 0]

(* CollateralRecordedEvt and CollateralClearedEvt: the amount that was in  *)
(* force and the one that is now, which is none after a retirement.        *)
Event(prior, amount) == [from |-> prior, to |-> amount]

CollateralInit ==
    /\ pledge = NoPledge
    /\ indexer = [inForce |-> 0, lost |-> FALSE]

(* The indexer takes the events of a call one after the other, and is lost *)
(* once an event does not start where the one before ended.                *)
Emit(events) ==
    indexer' = [inForce |-> Last(events).to,
                lost |-> \/ indexer.lost
                         \/ events[1].from # indexer.inForce
                         \/ \E k \in 2..Len(events) : events[k].from # events[k - 1].to]

(* What a single item has to satisfy. *)
ValidItem(item) == item[2] > 0 /\ item[1] # EmptyAsset

(* The clock must not have run backwards since the stored record. *)
TimestampForward == pledge # NoPledge => now >= pledge.recordedAt

(* record_sme_collateral_commitment *)
RecordCollateral(item) ==
    /\ ValidItem(item)
    /\ TimestampForward
    /\ pledge' = Pledge(item)
    /\ Emit(<<Event(pledge.amount, item[2])>>)

\* Mutant: the prior of every item is the pledge the batch found.
PriorInBatchStored(items, k) == pledge.amount

(* The amount an item of a batch replaces: the stored one for the first,   *)
(* the item before for the others.                                         *)
PriorInBatch(items, k) == IF k = 1 THEN pledge.amount ELSE items[k - 1][2]

(* batch_record_collateral: all items or none, and the last one stays. *)
BatchRecordCollateral(items) ==
    /\ Len(items) \in 1..CollateralBatch
    /\ \A k \in DOMAIN items : ValidItem(items[k])
    /\ TimestampForward
    /\ pledge' = Pledge(Last(items))
    /\ Emit([k \in DOMAIN items |-> Event(PriorInBatch(items, k), items[k][2])])

(* clear_sme_collateral_commitment *)
ClearCollateral ==
    /\ pledge # NoPledge
    /\ pledge' = NoPledge
    /\ Emit(<<Event(pledge.amount, 0)>>)

CollateralNext ==
    \/ /\ \/ \E item \in (Assets \cup {EmptyAsset}) \X PledgeAmounts : RecordCollateral(item)
          \/ \E n \in 0..CollateralBatch + 1 :
                \E items \in [1..n -> (Assets \cup {EmptyAsset}) \X PledgeAmounts] :
                    BatchRecordCollateral(items)
          \/ ClearCollateral
       /\ UNCHANGED now
    \/ Tick /\ UNCHANGED collateralVars

CollateralSpec ==
    LedgerInit /\ CollateralInit /\ [][CollateralNext]_<<now, collateralVars>>

-----------------------------------------------------------------------------
(* The events are a ledger of what was pledged: each one starts from the   *)
(* amount the one before left in force, across single records, batches and *)
(* retirements, and the last one left the amount that is stored.           *)
PledgeEventsChain == ~indexer.lost /\ indexer.inForce = pledge.amount

=============================================================================
