----------------------------- MODULE StorageRent ----------------------------
(***************************************************************************)
(* Rent: every storage entry lives until some ledger, after which the host *)
(* archives it and fails each call that needs it, until somebody restores  *)
(* it.  The contract raises lifetimes in three calls, two of which follow  *)
(* a limit the admin sets and one of which follows constants.  A tick is a *)
(* ledger.  What a call does beside touching entries is left to the other  *)
(* modules.                                                                *)
(***************************************************************************)
EXTENDS LedgerClock, FiniteSets

CONSTANTS
    RentInvestors,        \* investors with entries of their own
    StorageLimits,        \* arguments of set_storage_limit
    BumpBatch,            \* MAX_BUMP_TTL_BATCH
    MinExtension,         \* INSTANCE_ and PERSISTENT_TTL_MIN_EXTENSION_LEDGERS
    FreshTtl              \* lifetime the host gives an entry that is written

(* The host starts an entry with more than the hour of the constants. *)
ASSUME RentAssumption ==
    /\ StorageLimits \subseteq Nat \ {0}
    /\ {BumpBatch, MinExtension} \subseteq Nat \ {0}
    /\ FreshTtl \in Nat /\ FreshTtl >= MinExtension

(* The contribution, the yield and the lock of an investor are written by  *)
(* the same call and stand as one entry.                                   *)
EntryKinds == {"allowlisted", "deposit", "claimed"}

InstanceKey == <<"instance">>
RentKeys == {InstanceKey} \cup (EntryKinds \X RentInvestors)

VARIABLES
    storageLimit,         \* DataKey::StorageLimit, or Absent
    liveUntil,            \* last ledger an entry lives, Absent if never written
    lastKeep              \* history: the last batch that named every entry there is

rentVars == <<storageLimit, liveUntil, lastKeep>>

RentInit ==
    /\ storageLimit = Absent
    /\ liveUntil = [k \in RentKeys |-> IF k = InstanceKey THEN FreshTtl ELSE Absent]
    /\ lastKeep = 0

Written(k) == liveUntil[k] # Absent
Live(k) == Written(k) /\ now <= liveUntil[k]

(* The host runs a call when nothing it needs is archived, and every call  *)
(* needs the instance.                                                     *)
Reaches(keys) == \A k \in keys \cup {InstanceKey} : Written(k) => Live(k)

(* extend_ttl never shortens a lifetime. *)
Extended(keys, ttl) ==
    [k \in RentKeys |->
        IF k \in keys /\ liveUntil[k] < now + ttl THEN now + ttl ELSE liveUntil[k]]

(* A call that writes entries, some of them for the first time.  No write  *)
(* raises the lifetime of an entry that is there.                          *)
WriteEntries(keys) ==
    /\ Reaches(keys)
    /\ liveUntil' = [k \in RentKeys |->
          IF k \in keys /\ ~Written(k) THEN now + FreshTtl ELSE liveUntil[k]]
    /\ UNCHANGED <<storageLimit, lastKeep>>

(* get_storage_limit *)
StorageLimit == IF storageLimit = Absent THEN MinExtension ELSE storageLimit

(* set_storage_limit *)
SetStorageLimit(limit) ==
    /\ Reaches({})
    /\ storageLimit' = limit
    /\ UNCHANGED <<liveUntil, lastKeep>>

(* extend_funding_deadline, for the top-up it ends with. *)
TopUpInstance ==
    /\ Reaches({})
    /\ liveUntil' = Extended({InstanceKey}, StorageLimit)
    /\ UNCHANGED <<storageLimit, lastKeep>>

(* bump_ttl, which anybody may call.  Extending an entry that was never    *)
(* written fails, and with it the call: it serves investors who have been  *)
(* allowlisted, have deposited and have claimed, all of those it names.    *)
BumpTtl(investors) ==
    LET keys == {InstanceKey} \cup (EntryKinds \X investors)
    IN  /\ Cardinality(investors) \in 1..BumpBatch
        /\ \A k \in keys : Live(k)
        /\ liveUntil' = Extended(keys, StorageLimit)
        /\ UNCHANGED <<storageLimit, lastKeep>>

\* Mutant: the batch follows the limit, like the other calls.
BatchExtensionLimit == StorageLimit

(* batch_bump_ttl extends by the constants, whatever the limit. *)
BatchExtension == MinExtension

(* batch_bump_ttl, signed by the admin; keys never written are skipped.    *)
BatchBumpTtl(keys) ==
    /\ Cardinality(keys) \in 1..BumpBatch
    /\ Reaches(keys)
    /\ liveUntil' = Extended({k \in keys : Written(k)}, BatchExtension)
    /\ lastKeep' = IF \A k \in RentKeys : Written(k) => k \in keys THEN now ELSE lastKeep
    /\ UNCHANGED storageLimit

(* RestoreFootprint: anybody pays the host to bring an entry back. *)
Restore(k) ==
    /\ Written(k) /\ ~Live(k)
    /\ liveUntil' = [liveUntil EXCEPT ![k] = now + FreshTtl]
    /\ UNCHANGED <<storageLimit, lastKeep>>

RentNext ==
    \/ /\ \/ \E i \in RentInvestors :
                \/ WriteEntries({<<"allowlisted", i>>})
                \/ WriteEntries({<<"deposit", i>>})
                \/ Written(<<"deposit", i>>) /\ WriteEntries({<<"claimed", i>>})
          \/ \E limit \in StorageLimits : SetStorageLimit(limit)
          \/ TopUpInstance
          \/ \E investors \in SUBSET RentInvestors : BumpTtl(investors)
          \/ \E keys \in SUBSET RentKeys : BatchBumpTtl(keys)
          \/ \E k \in RentKeys : Restore(k)
       /\ UNCHANGED now
    \/ Tick /\ UNCHANGED rentVars

RentSpec == LedgerInit /\ RentInit /\ [][RentNext]_<<now, rentVars>>

-----------------------------------------------------------------------------
(* The admin's batch is enough to keep an escrow alive: within the hour    *)
(* after a batch that named every entry there was, nothing is archived,    *)
(* neither those entries nor the ones written since, whatever the limit    *)
(* was set to, whoever bumped and whatever was topped up before or after.  *)
KeeperKeepsAlive ==
    now <= lastKeep + MinExtension =>
        \A k \in RentKeys : Written(k) => Live(k)

=============================================================================
