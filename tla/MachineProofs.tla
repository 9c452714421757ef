---------------------------- MODULE MachineProofs ----------------------------
(***************************************************************************)
(* The machines beside the money flows, for every set of arguments, every  *)
(* batch size and every length of run, the settlement batch among them;    *)
(* the tier scan and the payout at the width of its integers, for every    *)
(* table, width and amount.                                                *)
(***************************************************************************)
EXTENDS Collateral, StorageRent, Callbacks, Attestation, TierSelection, CheckedMoney,
        SettlementBatch, SumProofs, SequenceTheorems

-----------------------------------------------------------------------------
(* Collateral *)

CollateralTypeOK ==
    /\ now \in Nat
    /\ pledge \in [asset : Assets \cup {EmptyAsset}, amount : Int, recordedAt : Nat]
    /\ indexer \in [inForce : Int, lost : BOOLEAN]

CollateralInv == CollateralTypeOK /\ PledgeEventsChain

(* A batch of valid items emits a chain from the stored amount to its last. *)
LEMMA BatchChains ==
    ASSUME NEW n \in Nat \ {0}, NEW items \in [1..n -> (Assets \cup {EmptyAsset}) \X PledgeAmounts],
           CollateralInv,
           Emit([k \in DOMAIN items |-> Event(PriorInBatch(items, k), items[k][2])])
    PROVE  /\ indexer' = [inForce |-> items[n][2], lost |-> FALSE]
           /\ Last(items) = items[n]
<1> DEFINE events == [k \in DOMAIN items |-> Event(PriorInBatch(items, k), items[k][2])]
<1>1. DOMAIN items = 1..n /\ Len(items) = n /\ DOMAIN events = 1..n /\ Len(events) = n
  OBVIOUS
<1>2. Last(events).to = items[n][2] /\ Last(items) = items[n]
  BY <1>1 DEF Last, Event
<1>3. events[1].from = indexer.inForce
  BY <1>1 DEF Event, PriorInBatch, CollateralInv, PledgeEventsChain
<1>4. \A k \in 2..n : events[k].from = events[k - 1].to
  BY <1>1 DEF Event, PriorInBatch
<1>5. indexer' = [inForce |-> Last(events).to,
                  lost |-> \/ indexer.lost
                           \/ events[1].from # indexer.inForce
                           \/ \E k \in 2..Len(events) : events[k].from # events[k - 1].to]
  BY DEF Emit
<1> HIDE DEF events
<1>6. ~(\/ indexer.lost
        \/ events[1].from # indexer.inForce
        \/ \E k \in 2..Len(events) : events[k].from # events[k - 1].to)
  BY <1>1, <1>3, <1>4 DEF CollateralInv, PledgeEventsChain
<1> QED
  BY <1>2, <1>5, <1>6, Zenon

(* The collateral events form one ledger: each starts where the one before *)
(* ended, and the last one ended in what is stored.                        *)
THEOREM PledgeEventsFormLedger == CollateralSpec => []PledgeEventsChain
<1>1. LedgerInit /\ CollateralInit => CollateralInv
  BY DEF LedgerInit, CollateralInit, CollateralInv, CollateralTypeOK, PledgeEventsChain, NoPledge
<1>2. CollateralInv /\ [CollateralNext]_<<now, collateralVars>> => CollateralInv'
  <2> SUFFICES ASSUME CollateralInv, [CollateralNext]_<<now, collateralVars>>
               PROVE  CollateralInv'
    OBVIOUS
  <2> USE CollateralAssumption
      DEF CollateralInv, CollateralTypeOK, PledgeEventsChain, Pledge, NoPledge, Event
  <2>1. ASSUME NEW item \in (Assets \cup {EmptyAsset}) \X PledgeAmounts,
               RecordCollateral(item), UNCHANGED now
        PROVE  CollateralInv'
    <3>1. indexer' = [inForce |-> item[2], lost |-> FALSE]
      <4> DEFINE events == <<Event(pledge.amount, item[2])>>
      <4>1. Last(events).to = item[2] /\ events[1].from = pledge.amount /\ Len(events) = 1
        BY DEF Last
      <4>2. ~ \E k \in 2..Len(events) : events[k].from # events[k - 1].to
        BY <4>1
      <4> QED
        BY <2>1, <4>1, <4>2, Zenon DEF RecordCollateral, Emit
    <3> QED
      BY <2>1, <3>1 DEF RecordCollateral
  <2>2. ASSUME NEW n \in 0..CollateralBatch + 1,
               NEW items \in [1..n -> (Assets \cup {EmptyAsset}) \X PledgeAmounts],
               BatchRecordCollateral(items), UNCHANGED now
        PROVE  CollateralInv'
    <3>1. n \in Nat \ {0}
      <4>1. Len(items) = n
        OBVIOUS
      <4> QED
        BY <2>2, <4>1 DEF BatchRecordCollateral
    <3>2. /\ indexer' = [inForce |-> items[n][2], lost |-> FALSE]
          /\ Last(items) = items[n]
      BY <2>2, <3>1, BatchChains DEF BatchRecordCollateral
    <3>3. items[n] \in (Assets \cup {EmptyAsset}) \X PledgeAmounts
      BY <3>1
    <3> QED
      BY <2>2, <3>2, <3>3 DEF BatchRecordCollateral
  <2>3. ASSUME ClearCollateral, UNCHANGED now
        PROVE  CollateralInv'
    <3>1. indexer' = [inForce |-> 0, lost |-> FALSE]
      <4> DEFINE events == <<Event(pledge.amount, 0)>>
      <4>1. Last(events).to = 0 /\ events[1].from = pledge.amount /\ Len(events) = 1
        BY DEF Last
      <4>2. ~ \E k \in 2..Len(events) : events[k].from # events[k - 1].to
        BY <4>1
      <4> QED
        BY <2>3, <4>1, <4>2, Zenon DEF ClearCollateral, Emit
    <3> QED
      BY <2>3, <3>1 DEF ClearCollateral
  <2>4. ASSUME Tick, UNCHANGED collateralVars
        PROVE  CollateralInv'
    BY <2>4 DEF Tick, collateralVars
  <2>5. CASE UNCHANGED <<now, collateralVars>>
    BY <2>5 DEF collateralVars
  <2> QED
    BY <2>1, <2>2, <2>3, <2>4, <2>5, Zenon DEF CollateralNext
<1> QED
  BY <1>1, <1>2, PTL DEF CollateralSpec, CollateralInv

-----------------------------------------------------------------------------
(* Storage rent *)

(* Every entry there is lives at least as long as the last complete batch  *)
(* has promised.                                                           *)
RentInv ==
    /\ now \in Nat /\ lastKeep \in Nat /\ lastKeep <= now
    /\ storageLimit \in OptionalNat
    /\ liveUntil \in [RentKeys -> OptionalNat]
    /\ Written(InstanceKey)
    /\ \A k \in RentKeys : Written(k) => liveUntil[k] >= lastKeep + MinExtension

(* Raising lifetimes keeps the promise of the last batch.                  *)
LEMMA ExtendingKeeps ==
    ASSUME RentInv, NEW keys \in SUBSET RentKeys, NEW ttl \in Nat,
           \A k \in keys : Written(k),
           liveUntil' = Extended(keys, ttl), UNCHANGED <<now, lastKeep, storageLimit>>
    PROVE  RentInv'
<1>1. InstanceKey \in RentKeys
  BY DEF RentKeys
<1> QED
  BY <1>1, RentAssumption DEF RentInv, Extended, Written, OptionalNat, Absent

(* An hour after a batch of the admin that named every entry, nothing is   *)
(* archived, whatever was written, topped up, bumped or limited meanwhile. *)
THEOREM KeeperSuffices == RentSpec => []KeeperKeepsAlive
<1>0. InstanceKey \in RentKeys
  BY DEF RentKeys
<1> USE <1>0, RentAssumption DEF RentInv, OptionalNat, Absent, Written
<1>1. LedgerInit /\ RentInit => RentInv
  BY DEF LedgerInit, RentInit
<1>2. RentInv /\ [RentNext]_<<now, rentVars>> => RentInv'
  <2> SUFFICES ASSUME RentInv, [RentNext]_<<now, rentVars>>
               PROVE  RentInv'
    OBVIOUS
  <2>0. StorageLimit \in Nat
    BY DEF StorageLimit
  <2>1. ASSUME NEW keys, WriteEntries(keys), UNCHANGED now
        PROVE  RentInv'
    BY <2>1 DEF WriteEntries
  <2>2. ASSUME NEW limit \in StorageLimits, SetStorageLimit(limit), UNCHANGED now
        PROVE  RentInv'
    BY <2>2 DEF SetStorageLimit
  <2>3. ASSUME TopUpInstance, UNCHANGED now
        PROVE  RentInv'
    BY <2>0, <2>3 DEF TopUpInstance, Extended
  <2>4. ASSUME NEW investors \in SUBSET RentInvestors, BumpTtl(investors), UNCHANGED now
        PROVE  RentInv'
    <3> DEFINE keys == {InstanceKey} \cup (EntryKinds \X investors)
    <3>1. keys \in SUBSET RentKeys
      BY DEF RentKeys
    <3>2. \A k \in keys : Written(k)
      BY <2>4, Zenon DEF BumpTtl, Live
    <3>3. liveUntil' = Extended(keys, StorageLimit) /\ UNCHANGED <<storageLimit, lastKeep>>
      BY <2>4, Zenon DEF BumpTtl
    <3> QED
      BY <2>0, <2>4, <3>1, <3>2, <3>3, ExtendingKeeps, Zenon
  <2>5. ASSUME NEW keys \in SUBSET RentKeys, BatchBumpTtl(keys), UNCHANGED now
        PROVE  RentInv'
    BY <2>5 DEF BatchBumpTtl, Extended, BatchExtension
  <2>6. ASSUME NEW k \in RentKeys, Restore(k), UNCHANGED now
        PROVE  RentInv'
    BY <2>6 DEF Restore
  <2>7. ASSUME Tick, UNCHANGED rentVars
        PROVE  RentInv'
    BY <2>7 DEF Tick, rentVars
  <2>8. CASE UNCHANGED <<now, rentVars>>
    BY <2>8 DEF rentVars
  <2> QED
    BY <2>1, <2>2, <2>3, <2>4, <2>5, <2>6, <2>7, <2>8, Zenon DEF RentNext
<1>3. RentInv => KeeperKeepsAlive
  BY DEF KeeperKeepsAlive, Live
<1> QED
  BY <1>1, <1>2, <1>3, PTL DEF RentSpec

-----------------------------------------------------------------------------
(* Callbacks *)

(* The stored contexts are the registrations under their nonces, and each  *)
(* execution has consumed the one it names.                                *)
CallbackInv ==
    /\ callbackNonce \in Nat
    /\ registrations \in Seq([nonce : Nat, origin : Origins, phase : Phases])
    /\ executions \in Seq([nonce : Nat, origin : Origins, phase : Phases])
    /\ Len(registrations) = callbackNonce
    /\ \A k \in 1..callbackNonce : registrations[k].nonce = k
    /\ callbackContexts \in [1..callbackNonce ->
                                [origin : Origins, phase : Phases, consumed : BOOLEAN]]
    /\ \A k \in 1..callbackNonce : /\ callbackContexts[k].origin = registrations[k].origin
                                   /\ callbackContexts[k].phase = registrations[k].phase
    /\ \A i \in DOMAIN executions :
          /\ executions[i].nonce \in 1..callbackNonce
          /\ executions[i] = registrations[executions[i].nonce]
          /\ callbackContexts[executions[i].nonce].consumed
    /\ \A i, j \in DOMAIN executions : executions[i].nonce = executions[j].nonce => i = j

(* A registration under the next nonce disturbs no earlier one.            *)
LEMMA RegistrationKept ==
    ASSUME CallbackInv, NEW origin \in Origins, NEW phase \in Phases,
           RegisterCallback(origin, phase)
    PROVE  CallbackInv'
<1> DEFINE nonce == callbackNonce + 1
<1>1. /\ callbackNonce' = nonce
      /\ callbackContexts' =
            [n \in DOMAIN callbackContexts \cup {nonce} |->
                IF n = nonce THEN Context(origin, phase, FALSE) ELSE callbackContexts[n]]
      /\ registrations' = Append(registrations, Call(nonce, origin, phase))
      /\ UNCHANGED executions
  BY DEF RegisterCallback
<1>2. 1..nonce = 1..callbackNonce \cup {nonce} /\ nonce \notin 1..callbackNonce
  BY DEF CallbackInv
<1>3. /\ callbackContexts' \in [1..nonce ->
                                  [origin : Origins, phase : Phases, consumed : BOOLEAN]]
      /\ callbackContexts'[nonce] = Context(origin, phase, FALSE)
      /\ \A k \in 1..callbackNonce : callbackContexts'[k] = callbackContexts[k]
  BY <1>1, <1>2 DEF CallbackInv, Context
<1>4. /\ registrations' \in Seq([nonce : Nat, origin : Origins, phase : Phases])
      /\ Len(registrations') = nonce
      /\ registrations'[nonce] = Call(nonce, origin, phase)
      /\ \A k \in 1..callbackNonce : registrations'[k] = registrations[k]
  BY <1>1 DEF CallbackInv, Call
<1> HIDE DEF nonce
<1> QED
  BY <1>1, <1>2, <1>3, <1>4 DEF CallbackInv, Context, Call

(* An execution consumes the context it names.                             *)
LEMMA ExecutionKept ==
    ASSUME CallbackInv, NEW nonce, NEW origin \in Origins, NEW phase \in Phases,
           ExecuteCallback(nonce, origin, phase)
    PROVE  CallbackInv'
<1>1. /\ nonce \in 1..callbackNonce
      /\ callbackContexts[nonce] = Context(origin, phase, FALSE)
      /\ callbackContexts' = [callbackContexts EXCEPT ![nonce] = Context(origin, phase, TRUE)]
      /\ executions' = Append(executions, Call(nonce, origin, phase))
      /\ UNCHANGED <<callbackNonce, registrations>>
  BY DEF ExecuteCallback, CallbackInv
<1>2. /\ callbackContexts' \in [1..callbackNonce ->
                                  [origin : Origins, phase : Phases, consumed : BOOLEAN]]
      /\ callbackContexts'[nonce].consumed
      /\ \A k \in 1..callbackNonce :
            /\ callbackContexts'[k].origin = callbackContexts[k].origin
            /\ callbackContexts'[k].phase = callbackContexts[k].phase
            /\ callbackContexts[k].consumed => callbackContexts'[k].consumed
  <2>1. callbackContexts \in [1..callbackNonce ->
                                [origin : Origins, phase : Phases, consumed : BOOLEAN]]
    BY DEF CallbackInv
  <2> QED
    BY <1>1, <2>1 DEF Context
<1>3. registrations[nonce] = Call(nonce, origin, phase)
  <2>1. /\ registrations \in Seq([nonce : Nat, origin : Origins, phase : Phases])
        /\ Len(registrations) = callbackNonce
        /\ callbackNonce \in Nat
    BY DEF CallbackInv
  <2>2. registrations[nonce] \in [nonce : Nat, origin : Origins, phase : Phases]
    <3>1. nonce \in 1..callbackNonce
      BY <1>1
    <3> QED
      BY <2>1, <3>1, ElementOfSeq
  <2>3. /\ registrations[nonce].nonce = nonce
        /\ registrations[nonce].origin = origin
        /\ registrations[nonce].phase = phase
    BY <1>1 DEF CallbackInv, Context
  <2> QED
    BY <2>2, <2>3 DEF Call
<1>4. \A i \in DOMAIN executions : executions[i].nonce # nonce
  BY <1>1 DEF CallbackInv, Context
<1>5. /\ executions' \in Seq([nonce : Nat, origin : Origins, phase : Phases])
      /\ Len(executions') = Len(executions) + 1
      /\ executions'[Len(executions) + 1] = Call(nonce, origin, phase)
      /\ \A i \in 1..Len(executions) : executions'[i] = executions[i]
  BY <1>1 DEF CallbackInv, Call
<1>6. DOMAIN executions' = 1..Len(executions) + 1 /\ DOMAIN executions = 1..Len(executions)
  BY <1>5 DEF CallbackInv
<1>7. Call(nonce, origin, phase).nonce = nonce
  BY DEF Call
<1>8. \A i \in DOMAIN executions' :
          /\ executions'[i].nonce \in 1..callbackNonce
          /\ executions'[i] = registrations[executions'[i].nonce]
          /\ callbackContexts'[executions'[i].nonce].consumed
  <2> TAKE i \in DOMAIN executions'
  <2>1. CASE i \in DOMAIN executions
    <3>1. /\ executions[i].nonce \in 1..callbackNonce
          /\ executions[i] = registrations[executions[i].nonce]
          /\ callbackContexts[executions[i].nonce].consumed
      BY <2>1 DEF CallbackInv
    <3>2. executions'[i] = executions[i]
      BY <1>5, <1>6, <2>1
    <3> QED
      BY <1>2, <3>1, <3>2, Zenon
  <2>2. CASE i = Len(executions) + 1
    <3>1. executions'[i] = Call(nonce, origin, phase)
      BY <1>5, <2>2
    <3> QED
      BY <1>1, <1>2, <1>3, <1>7, <3>1, Zenon
  <2>3. i \in DOMAIN executions \/ i = Len(executions) + 1
    BY <1>6 DEF CallbackInv
  <2> QED
    BY <2>1, <2>2, <2>3
<1>9. \A i, j \in DOMAIN executions' : executions'[i].nonce = executions'[j].nonce => i = j
  <2> TAKE i, j \in DOMAIN executions'
  <2>1. \A k \in DOMAIN executions :
            executions'[k] = executions[k] /\ executions'[k].nonce # nonce
    BY <1>4, <1>5, <1>6
  <2>2. \A k \in DOMAIN executions' :
            k \in DOMAIN executions \/ k = Len(executions) + 1
    BY <1>6 DEF CallbackInv
  <2>3. executions'[Len(executions) + 1].nonce = nonce
    BY <1>5, <1>7
  <2>4. i \in DOMAIN executions /\ j \in DOMAIN executions =>
            (executions[i].nonce = executions[j].nonce => i = j)
    BY DEF CallbackInv
  <2> QED
    BY <2>1, <2>2, <2>3, <2>4, Zenon
<1>10. /\ callbackNonce' \in Nat
       /\ registrations' \in Seq([nonce : Nat, origin : Origins, phase : Phases])
       /\ Len(registrations') = callbackNonce'
       /\ \A k \in 1..callbackNonce' : registrations'[k].nonce = k
  BY <1>1 DEF CallbackInv
<1>11. callbackNonce' = callbackNonce /\ registrations' = registrations
  BY <1>1
<1>12. \A k \in 1..callbackNonce' :
            /\ callbackContexts'[k].origin = registrations'[k].origin
            /\ callbackContexts'[k].phase = registrations'[k].phase
  <2>1. \A k \in 1..callbackNonce :
            /\ callbackContexts[k].origin = registrations[k].origin
            /\ callbackContexts[k].phase = registrations[k].phase
    BY DEF CallbackInv
  <2> QED
    BY <1>2, <1>11, <2>1
<1> QED
  BY <1>2, <1>5, <1>8, <1>9, <1>10, <1>11, <1>12, Zenon DEF CallbackInv

(* No callback runs twice or otherwise than it was registered, whatever    *)
(* else is registered and whenever the round is cancelled or swept.        *)
THEOREM CallbacksRunOnce == CallbackSpec => []CallbackRunsOnce
<1>1. CallbackInit => CallbackInv
  BY DEF CallbackInit, CallbackInv
<1>2. CallbackInv /\ [CallbackNext]_callbackVars => CallbackInv'
  <2> SUFFICES ASSUME CallbackInv, [CallbackNext]_callbackVars
               PROVE  CallbackInv'
    OBVIOUS
  <2>1. CASE UNCHANGED <<contextVars, registrations, executions>>
    BY <2>1 DEF CallbackInv, contextVars
  <2> QED
    BY <2>1, RegistrationKept, ExecutionKept, Zenon DEF CallbackNext, callbackVars
<1>3. CallbackInv => CallbackRunsOnce
  <2> SUFFICES ASSUME CallbackInv
               PROVE  CallbackRunsOnce
    OBVIOUS
  <2>1. \A i, j \in DOMAIN executions : executions[i].nonce = executions[j].nonce => i = j
    BY DEF CallbackInv
  <2>2. ASSUME NEW i \in DOMAIN executions
        PROVE  \E k \in DOMAIN registrations :
                  /\ registrations[k] = executions[i]
                  /\ \A l \in DOMAIN registrations :
                        registrations[l].nonce = executions[i].nonce => l = k
    <3>1. /\ DOMAIN registrations = 1..callbackNonce
          /\ \A k \in 1..callbackNonce : registrations[k].nonce = k
      BY DEF CallbackInv
    <3>2. /\ executions[i].nonce \in 1..callbackNonce
          /\ executions[i] = registrations[executions[i].nonce]
      BY DEF CallbackInv
    <3> QED
      BY <3>1, <3>2
  <2> QED
    BY <2>1, <2>2, Zenon DEF CallbackRunsOnce
<1> QED
  BY <1>1, <1>2, <1>3, PTL DEF CallbackSpec

-----------------------------------------------------------------------------
(* Attestations *)

LogTypeOK ==
    /\ appendLog \in Seq(Digests)
    /\ revoked \subseteq Indices
    /\ trail \in [Indices -> Int]

AuditInv == LogTypeOK /\ RevocationsAudited

(* An index a batch names once adds one event, one it does not name none.  *)
LEMMA NamedCounts ==
    ASSUME NEW n \in Nat, NEW indices \in [1..n -> Indices],
           \A k \in DOMAIN indices : indices[k] \notin ToSet(SubSeq(indices, 1, k - 1)),
           NEW index \in Indices
    PROVE  Named(indices, index) = IF index \in ToSet(indices) THEN 1 ELSE 0
<1>1. DOMAIN indices = 1..n /\ indices \in Seq(Indices) /\ Len(indices) = n
  OBVIOUS
<1>2. ASSUME NEW j \in 1..n, NEW k \in 1..n, j < k
      PROVE  indices[j] # indices[k]
  <2>1. SubSeq(indices, 1, k - 1)[j] = indices[j] /\ j \in DOMAIN SubSeq(indices, 1, k - 1)
    BY <1>1, <1>2
  <2> QED
    BY <1>1, <2>1 DEF ToSet
<1>3. CASE index \in ToSet(indices)
  <2>1. PICK k \in 1..n : indices[k] = index
    BY <1>1, <1>3 DEF ToSet
  <2>2. {j \in DOMAIN indices : indices[j] = index} = {k}
    BY <1>1, <1>2, <2>1
  <2> QED
    BY <1>3, <2>2, FS_Singleton DEF Named
<1>4. CASE index \notin ToSet(indices)
  <2>1. {j \in DOMAIN indices : indices[j] = index} = {}
    BY <1>4 DEF ToSet
  <2> QED
    BY <1>4, <2>1, FS_EmptySet DEF Named
<1> QED
  BY <1>3, <1>4

(* The sum of the revocation and restoration events of an index is its     *)
(* flag, for logs and batches of every size.                               *)
THEOREM RevocationTrail == AttestationSpec => []RevocationsAudited
<1>1. AttestationInit => AuditInv
  BY DEF AttestationInit, AuditInv, LogTypeOK, RevocationsAudited
<1>2. AuditInv /\ [AttestationNext]_attestationVars => AuditInv'
  <2> SUFFICES ASSUME AuditInv, [AttestationNext]_attestationVars
               PROVE  AuditInv'
    OBVIOUS
  <2> USE DEF AuditInv, LogTypeOK, RevocationsAudited
  <2>1. ASSUME NEW digest \in Digests,
               BindPrimaryAttestationHash(digest) \/ AppendAttestationDigest(digest)
        PROVE  AuditInv'
    BY <2>1 DEF BindPrimaryAttestationHash, AppendAttestationDigest
  <2>2. ASSUME NEW index \in Indices, RevokeAttestationDigest(index)
        PROVE  AuditInv'
    BY <2>2 DEF RevokeAttestationDigest
  <2>3. ASSUME NEW index \in Indices, UnrevokeAttestationDigest(index)
        PROVE  AuditInv'
    BY <2>3 DEF UnrevokeAttestationDigest
  <2>4. ASSUME NEW n \in 0..RevokeBatch + 1, NEW indices \in [1..n -> Indices],
               RevokeAttestationDigests(indices)
        PROVE  AuditInv'
    <3>1. n \in Nat /\ RevokeBatch \in Nat
      BY AttestationAssumption
    <3>2. /\ \A k \in DOMAIN indices :
                /\ indices[k] \notin revoked
                /\ indices[k] \notin ToSet(SubSeq(indices, 1, k - 1))
          /\ revoked' = revoked \cup ToSet(indices)
          /\ trail' = [index \in Indices |-> trail[index] + Named(indices, index)]
          /\ appendLog' = appendLog
      BY <2>4 DEF RevokeAttestationDigests
    <3>3. \A index \in Indices :
              Named(indices, index) = IF index \in ToSet(indices) THEN 1 ELSE 0
      BY <3>1, <3>2, NamedCounts
    <3>4. ToSet(indices) \subseteq Indices /\ ToSet(indices) \cap revoked = {}
      BY <3>2 DEF ToSet
    <3> QED
      BY <3>2, <3>3, <3>4
  <2>5. CASE UNCHANGED <<logVars, trail>>
    BY <2>5 DEF logVars
  <2> QED
    BY <2>1, <2>2, <2>3, <2>4, <2>5, Zenon DEF AttestationNext, attestationVars
<1> QED
  BY <1>1, <1>2, PTL DEF AttestationSpec, AuditInv

(* What a reader has seen is a prefix of the log, which covers what was    *)
(* there at the start once a short page has ended the reading.             *)
ReaderInv ==
    /\ appendLog \in Seq(Digests)
    /\ reader \in [reading : BOOLEAN, seen : Seq(Digests), atStart : Nat]
    /\ reader.atStart <= Len(appendLog)
    /\ Len(reader.seen) <= Len(appendLog)
    /\ \A k \in 1..Len(reader.seen) : reader.seen[k] = appendLog[k]
    /\ ~reader.reading => Len(reader.seen) >= reader.atStart

(* A page holds the entries from its start on, as many as asked for and    *)
(* allowed, and fewer only at the end of the log.                          *)
LEMMA PageContents ==
    ASSUME appendLog \in Seq(Digests), NEW start \in 0..Len(appendLog), NEW limit \in Nat \ {0}
    PROVE  LET page == AttestationPage(start, limit)
           IN  /\ DOMAIN page = 1..Len(page) /\ Len(page) \in Nat
               /\ start + Len(page) <= Len(appendLog)
               /\ \A k \in DOMAIN page : page[k].digest = appendLog[start + k]
               /\ ~(Len(page) >= limit \/ Len(page) >= ReadPage)
                  => start + Len(page) = Len(appendLog)
<1> DEFINE size == IF limit > ReadPage THEN ReadPage ELSE limit
           last == IF start + size > Len(appendLog) THEN Len(appendLog) ELSE start + size
           page == AttestationPage(start, limit)
<1>1. size \in Nat \ {0} /\ size <= limit /\ size <= ReadPage /\ (size = limit \/ size = ReadPage)
  BY AttestationAssumption
<1>2. last - start \in Nat /\ last <= Len(appendLog) /\ last <= start + size
      /\ (last = start + size \/ last = Len(appendLog))
  BY <1>1
<1>3. page = [k \in 1..last - start |-> AttestationDigestAt(start + k - 1)]
  BY DEF AttestationPage
<1> HIDE DEF size, last, page
<1>4. DOMAIN page = 1..last - start /\ Len(page) = last - start
  BY <1>2, <1>3
<1>5. \A k \in DOMAIN page : page[k].digest = appendLog[start + k]
  <2> TAKE k \in DOMAIN page
  <2>1. page[k] = AttestationDigestAt(start + k - 1)
    BY <1>3, <1>4
  <2>2. (start + k - 1) + 1 = start + k
    BY <1>2, <1>4
  <2> QED
    BY <2>1, <2>2 DEF AttestationDigestAt
<1>6. /\ start + Len(page) <= Len(appendLog)
      /\ ~(Len(page) >= limit \/ Len(page) >= ReadPage) => start + Len(page) = Len(appendLog)
  BY <1>1, <1>2, <1>4
<1> QED
  BY <1>2, <1>4, <1>5, <1>6 DEF page

(* A reader who goes on until a short page, while the log grows, misses    *)
(* nothing and sees nothing twice, for pages of every size.                *)
THEOREM ReadersMissNothing == AttestationSpec => []ReaderMissesNothing
<1>1. AttestationInit => ReaderInv
  BY DEF AttestationInit, ReaderInv, Idle
<1>2. ReaderInv /\ [AttestationNext]_attestationVars => ReaderInv'
  <2> SUFFICES ASSUME ReaderInv, [AttestationNext]_attestationVars
               PROVE  ReaderInv'
    OBVIOUS
  <2>1. ASSUME UNCHANGED reader,
               appendLog' = appendLog \/ \E digest \in Digests : appendLog' = Append(appendLog, digest)
        PROVE  ReaderInv'
    <3>1. appendLog \in Seq(Digests)
      BY DEF ReaderInv
    <3>2. /\ appendLog' \in Seq(Digests)
          /\ Len(appendLog') >= Len(appendLog)
          /\ \A k \in 1..Len(appendLog) : appendLog'[k] = appendLog[k]
      <4>1. ASSUME NEW digest \in Digests, appendLog' = Append(appendLog, digest)
            PROVE  <3>2
        BY <3>1, <4>1
      <4> QED
        BY <2>1, <3>1, <4>1
    <3>3. Len(reader.seen) \in Nat /\ Len(appendLog') \in Nat /\ Len(appendLog) \in Nat
      BY <3>1, <3>2 DEF ReaderInv
    <3> QED
      BY <2>1, <3>1, <3>2, <3>3 DEF ReaderInv
  <2>2. ASSUME StartReading, UNCHANGED appendLog
        PROVE  ReaderInv'
    BY <2>2 DEF ReaderInv, StartReading
  <2>3. ASSUME NEW limit \in ReadLimits, ReadNextPage(limit), UNCHANGED appendLog
        PROVE  ReaderInv'
    <3> DEFINE page == AttestationPage(Len(reader.seen), limit)
               full == Len(page) >= limit \/ Len(page) >= ReadPage
               more == [k \in DOMAIN page |-> page[k].digest]
    <3>0. /\ appendLog \in Seq(Digests)
          /\ reader \in [reading : BOOLEAN, seen : Seq(Digests), atStart : Nat]
          /\ reader.atStart <= Len(appendLog)
          /\ Len(reader.seen) \in 0..Len(appendLog)
          /\ \A k \in 1..Len(reader.seen) : reader.seen[k] = appendLog[k]
      BY DEF ReaderInv
    <3>1. /\ DOMAIN page = 1..Len(page) /\ Len(page) \in Nat
          /\ Len(reader.seen) + Len(page) <= Len(appendLog)
          /\ \A k \in DOMAIN page : page[k].digest = appendLog[Len(reader.seen) + k]
          /\ ~full => Len(reader.seen) + Len(page) = Len(appendLog)
      BY <3>0, PageContents, AttestationAssumption
    <3>2. reader' = [reading |-> full, seen |-> reader.seen \o more, atStart |-> reader.atStart]
      BY <2>3 DEF ReadNextPage
    <3> HIDE DEF page, full
    <3>3. more \in Seq(Digests) /\ Len(more) = Len(page)
      BY <3>0, <3>1
    <3>4. /\ Len(reader.seen \o more) = Len(reader.seen) + Len(page)
          /\ \A k \in 1..Len(reader.seen) + Len(page) : (reader.seen \o more)[k] = appendLog[k]
      BY <3>0, <3>1, <3>3
    <3> DEFINE read == reader.seen \o more
    <3>5. read \in Seq(Digests) /\ Len(read) <= Len(appendLog) /\ full \in BOOLEAN
      BY <3>0, <3>1, <3>3, <3>4 DEF full
    <3>6. ~full => Len(read) >= reader.atStart
      BY <3>0, <3>1, <3>4
    <3>7. \A k \in 1..Len(read) : read[k] = appendLog[k]
      BY <3>4
    <3> HIDE DEF more, read
    <3>8. /\ reader'.reading = full /\ reader'.seen = read /\ reader'.atStart = reader.atStart
          /\ reader' \in [reading : BOOLEAN, seen : Seq(Digests), atStart : Nat]
      BY <3>0, <3>2, <3>5 DEF read
    <3> QED
      BY <2>3, <3>0, <3>5, <3>6, <3>7, <3>8 DEF ReaderInv
  <2>4. CASE UNCHANGED attestationVars
    BY <2>4 DEF ReaderInv, attestationVars, logVars
  <2> QED
    BY <2>1, <2>2, <2>3, <2>4, Zenon
    DEF AttestationNext, BindPrimaryAttestationHash, AppendAttestationDigest,
        RevokeAttestationDigest, UnrevokeAttestationDigest, RevokeAttestationDigests, logVars
<1>3. ReaderInv => ReaderMissesNothing
  <2> SUFFICES ASSUME ReaderInv
               PROVE  ReaderMissesNothing
    OBVIOUS
  <2>1. SubSeq(reader.seen, 1, Len(reader.seen)) = SubSeq(appendLog, 1, Len(reader.seen))
    BY DEF ReaderInv
  <2> QED
    BY <2>1 DEF ReaderInv, ReaderMissesNothing, IsPrefix
<1> QED
  BY <1>1, <1>2, <1>3, PTL DEF AttestationSpec

-----------------------------------------------------------------------------
(* The tier scan *)

Seen == 1..scan.next - 1

(* Of the tiers the scan has looked at, best is the best one reached, and  *)
(* bestLock the shortest lock that earns it; the last one looked at has    *)
(* the longest lock and the best yield.                                    *)
ScanInv ==
    /\ scan.best >= baseYield
    /\ scan.lock > 0 =>
          \A k \in Seen : scan.lock >= tierTable[k].minLock => tierTable[k].yieldBps <= scan.best
    /\ scan.best = baseYield => scan.bestLock = 0
    /\ scan.best # baseYield =>
          /\ scan.lock > 0
          /\ \E k \in Seen : /\ tierTable[k].yieldBps = scan.best
                             /\ tierTable[k].minLock = scan.bestLock
                             /\ scan.lock >= tierTable[k].minLock
          /\ \A k \in Seen : tierTable[k].yieldBps = scan.best
                             => scan.bestLock <= tierTable[k].minLock
    /\ scan.lock > 0 =>
          \A k \in Seen : /\ tierTable[k].minLock <= tierTable[scan.next - 1].minLock
                          /\ tierTable[k].yieldBps <= tierTable[scan.next - 1].yieldBps

GrantOK(lock, granted) ==
    LET earns == {tierTable[k].minLock : k \in {k \in DOMAIN tierTable :
                                                   tierTable[k].yieldBps = granted.yieldBps}}
    IN  /\ IsBestYield(granted.yieldBps, tierTable, baseYield, lock)
        /\ IF granted.yieldBps = baseYield THEN granted.matched = 0
           ELSE /\ granted.matched \in earns
                /\ \A other \in earns : granted.matched <= other

TierInv ==
    /\ tierTable \in Seq([minLock : Nat, yieldBps : Bps])
    /\ baseYield \in Bps
    /\ ValidTiers(tierTable, baseYield)
    /\ scan \in [lock : Nat, next : 1..Len(tierTable) + 1, best : Bps, bestLock : Nat]
    /\ scan.lock = 0 => scan.best = baseYield /\ scan.next = Len(tierTable) + 1
    /\ ScanInv
    /\ \A lock \in DOMAIN resolutions : GrantOK(lock, resolutions[lock])

(* A turn of the loop keeps what is known of the tiers seen.               *)
LEMMA TurnKept ==
    ASSUME TierInv, ScanTier
    PROVE  TierInv'
<1> DEFINE n == scan.next
           tier == tierTable[n]
           better == BetterTier(tier)
<1>0. /\ tierTable \in Seq([minLock : Nat, yieldBps : Bps])
      /\ scan \in [lock : Nat, next : 1..Len(tierTable) + 1, best : Bps, bestLock : Nat]
      /\ baseYield \in Bps
  BY DEF TierInv
<1>21. \A b \in Bps : b \in Nat
  BY DEF Bps, BpsDenominator
<1>1. /\ n \in 1..Len(tierTable)
      /\ scan' = [lock |-> scan.lock, next |-> n + 1,
                  best |-> IF better THEN tier.yieldBps ELSE scan.best,
                  bestLock |-> IF better THEN tier.minLock ELSE scan.bestLock]
      /\ UNCHANGED <<tierTable, baseYield, resolutions>>
  BY <1>0 DEF ScanTier, ScanDone
<1>2. /\ tier \in [minLock : Nat, yieldBps : Bps]
      /\ \A k \in 1..Len(tierTable) : tierTable[k] \in [minLock : Nat, yieldBps : Bps]
  <2>1. \A k \in 1..Len(tierTable) : tierTable[k] \in [minLock : Nat, yieldBps : Bps]
    BY <1>0, ElementOfSeq
  <2> QED
    BY <1>1, <2>1
<1>3. scan \in [lock : Nat, next : 1..Len(tierTable) + 1, best : Bps, bestLock : Nat]
  BY DEF TierInv
<1>4. better <=> scan.lock >= tier.minLock /\ tier.yieldBps > scan.best
  BY DEF BetterTier
<1>5. n > 1 => tier.minLock > tierTable[n - 1].minLock /\ tier.yieldBps >= tierTable[n - 1].yieldBps
  BY <1>1 DEF TierInv, ValidTiers
<1>6. Seen' = Seen \cup {n} /\ Seen = 1..n - 1
  BY <1>1 DEF Seen
<1>7. scan.lock > 0
  BY <1>1, <1>3 DEF TierInv
<1>8. /\ scan' \in [lock : Nat, next : 1..Len(tierTable) + 1, best : Bps, bestLock : Nat]
      /\ scan'.lock = scan.lock /\ scan'.next = n + 1
      /\ scan'.best = IF better THEN tier.yieldBps ELSE scan.best
      /\ scan'.bestLock = IF better THEN tier.minLock ELSE scan.bestLock
  BY <1>1, <1>2, <1>3
<1>9. /\ \A k \in Seen : tierTable[k].minLock <= tierTable[n - 1].minLock
      /\ \A k \in Seen : tierTable[k].yieldBps <= tierTable[n - 1].yieldBps
  BY <1>7 DEF TierInv, ScanInv
<1>10. /\ \A k \in Seen : tierTable[k].minLock < tier.minLock
       /\ \A k \in Seen : tierTable[k].yieldBps <= tier.yieldBps
  <2> SUFFICES ASSUME NEW k \in Seen
               PROVE  tierTable[k].minLock < tier.minLock /\ tierTable[k].yieldBps <= tier.yieldBps
    OBVIOUS
  <2>1. n > 1 /\ n - 1 \in 1..Len(tierTable) /\ k \in 1..Len(tierTable)
    BY <1>1, <1>6
  <2>2. /\ tierTable[k].minLock \in Nat /\ tierTable[n - 1].minLock \in Nat /\ tier.minLock \in Nat
        /\ tierTable[k].yieldBps \in Nat /\ tierTable[n - 1].yieldBps \in Nat /\ tier.yieldBps \in Nat
    BY <1>0, <1>1, <1>2, <1>21, <2>1
  <2> HIDE DEF n, tier
  <2> QED
    BY <1>5, <1>9, <2>1, <2>2
<1>11. scan.best \in Nat /\ baseYield \in Nat /\ tier.yieldBps \in Nat /\ tier.minLock \in Nat
  BY <1>0, <1>2, <1>21
<1>12. /\ scan.best >= baseYield
       /\ \A k \in Seen : scan.lock >= tierTable[k].minLock => tierTable[k].yieldBps <= scan.best
       /\ scan.best = baseYield => scan.bestLock = 0
       /\ scan.best # baseYield =>
            /\ \E k \in Seen : /\ tierTable[k].yieldBps = scan.best
                               /\ tierTable[k].minLock = scan.bestLock
                               /\ scan.lock >= tierTable[k].minLock
            /\ \A k \in Seen : tierTable[k].yieldBps = scan.best
                               => scan.bestLock <= tierTable[k].minLock
  BY <1>7 DEF TierInv, ScanInv
<1>13. /\ tierTable' = tierTable /\ baseYield' = baseYield /\ resolutions' = resolutions
       /\ scan.lock \in Nat /\ scan.bestLock \in Nat
       /\ \A k \in Seen : tierTable[k].minLock \in Nat /\ tierTable[k].yieldBps \in Nat
  <2>1. \A k \in Seen : k \in 1..Len(tierTable)
    BY <1>1, <1>6
  <2> QED
    BY <1>0, <1>1, <1>2, <1>21, <2>1
<1> HIDE DEF n, tier, better
<1>19. /\ scan'.next - 1 = n
       /\ \A k \in Seen \cup {n} : /\ tierTable[k].minLock <= tierTable[n].minLock
                                 /\ tierTable[k].yieldBps <= tierTable[n].yieldBps
  <2>1. n \in Nat
    BY <1>1
  <2> QED
    BY <1>8, <1>10, <1>11, <1>13, <2>1 DEF tier
<1>14. ASSUME better
       PROVE  ScanInv'
  <2>1. scan'.best = tier.yieldBps /\ scan'.bestLock = tier.minLock /\ scan.lock >= tier.minLock
        /\ tier.yieldBps > scan.best
    BY <1>4, <1>8, <1>14
  <2>2. \A k \in Seen : tierTable[k].yieldBps < tier.yieldBps
    <3> SUFFICES ASSUME NEW k \in Seen
                 PROVE  tierTable[k].yieldBps < tier.yieldBps
      OBVIOUS
    <3> QED
      BY <1>10, <1>11, <1>12, <1>13, <2>1
  <2>3. /\ scan'.best >= baseYield /\ scan'.best # baseYield
        /\ \A k \in Seen \cup {n} : tierTable[k].yieldBps <= scan'.best
    BY <1>11, <1>12, <1>13, <2>1, <2>2 DEF tier
  <2>4. /\ \E k \in Seen \cup {n} : /\ tierTable[k].yieldBps = scan'.best
                                   /\ tierTable[k].minLock = scan'.bestLock
                                   /\ scan.lock >= tierTable[k].minLock
        /\ \A k \in Seen \cup {n} : tierTable[k].yieldBps = scan'.best
                                   => scan'.bestLock <= tierTable[k].minLock
    BY <1>11, <1>13, <2>1, <2>2 DEF tier
  <2> QED
    BY <1>6, <1>7, <1>8, <1>13, <1>19, <2>3, <2>4 DEF ScanInv
<1>15. ASSUME ~better
       PROVE  ScanInv'
  <2>1. scan'.best = scan.best /\ scan'.bestLock = scan.bestLock
    BY <1>8, <1>15
  <2>2. scan.lock >= tier.minLock => tier.yieldBps <= scan.best
    BY <1>4, <1>11, <1>15
  <2>3. \A k \in Seen \cup {n} : scan.lock >= tierTable[k].minLock => tierTable[k].yieldBps <= scan.best
    BY <1>12, <2>2 DEF tier
  <2>4. scan.best # baseYield =>
            /\ \E k \in Seen \cup {n} : /\ tierTable[k].yieldBps = scan.best
                                     /\ tierTable[k].minLock = scan.bestLock
                                     /\ scan.lock >= tierTable[k].minLock
            /\ \A k \in Seen \cup {n} : tierTable[k].yieldBps = scan.best
                                     => scan.bestLock <= tierTable[k].minLock
    <3> SUFFICES ASSUME scan.best # baseYield
                 PROVE  /\ \E k \in Seen \cup {n} : /\ tierTable[k].yieldBps = scan.best
                                                 /\ tierTable[k].minLock = scan.bestLock
                                                 /\ scan.lock >= tierTable[k].minLock
                        /\ \A k \in Seen \cup {n} : tierTable[k].yieldBps = scan.best
                                                 => scan.bestLock <= tierTable[k].minLock
      OBVIOUS
    <3>1. PICK k \in Seen : /\ tierTable[k].yieldBps = scan.best
                            /\ tierTable[k].minLock = scan.bestLock
                            /\ scan.lock >= tierTable[k].minLock
      BY <1>12
    <3>2. scan.bestLock <= tier.minLock
      BY <1>10, <1>11, <1>13, <3>1
    <3> QED
      BY <1>12, <3>1, <3>2, Zenon DEF tier
  <2> QED
    BY <1>6, <1>7, <1>8, <1>12, <1>13, <1>19, <2>1, <2>3, <2>4 DEF ScanInv
<1>16. ScanInv'
  BY <1>14, <1>15, Zenon
<1>17. \A lock \in DOMAIN resolutions' : GrantOK(lock, resolutions[lock])'
  BY <1>13 DEF TierInv, GrantOK, IsBestYield, QualifyingYields
<1>18. ValidTiers(tierTable, baseYield)'
  BY <1>13 DEF TierInv
<1> QED
  BY <1>7, <1>8, <1>13, <1>16, <1>17, <1>18 DEF TierInv

(* What a finished scan has found is right for the whole table.            *)
LEMMA FinishedGrant ==
    ASSUME TierInv, ScanDone
    PROVE  GrantOK(scan.lock, [yieldBps |-> scan.best, matched |-> scan.bestLock])
<1>1. /\ scan.next = Len(tierTable) + 1 /\ Len(tierTable) \in Nat
      /\ DOMAIN tierTable = 1..Len(tierTable)
  <2>1. /\ tierTable \in Seq([minLock : Nat, yieldBps : Bps])
        /\ scan \in [lock : Nat, next : 1..Len(tierTable) + 1, best : Bps, bestLock : Nat]
    BY DEF TierInv
  <2> QED
    BY <2>1 DEF ScanDone
<1>2. Seen = DOMAIN tierTable
  BY <1>1 DEF Seen
<1>3. ScanInv /\ (scan.lock = 0 => scan.best = baseYield) /\ scan.lock \in Nat
  BY DEF TierInv
<1>4. /\ scan.best >= baseYield
      /\ scan.lock > 0 => \A k \in DOMAIN tierTable :
            scan.lock >= tierTable[k].minLock => tierTable[k].yieldBps <= scan.best
      /\ scan.best = baseYield => scan.bestLock = 0
      /\ scan.best # baseYield =>
            /\ scan.lock > 0
            /\ \E k \in DOMAIN tierTable : /\ tierTable[k].yieldBps = scan.best
                                           /\ tierTable[k].minLock = scan.bestLock
                                           /\ scan.lock >= tierTable[k].minLock
            /\ \A k \in DOMAIN tierTable : tierTable[k].yieldBps = scan.best
                                           => scan.bestLock <= tierTable[k].minLock
  BY <1>2, <1>3, Zenon DEF ScanInv
<1>5. IsBestYield(scan.best, tierTable, baseYield, scan.lock)
  <2>1. scan.best \in QualifyingYields(tierTable, baseYield, scan.lock)
    BY <1>4, Zenon DEF QualifyingYields
  <2>2. ASSUME NEW z \in QualifyingYields(tierTable, baseYield, scan.lock)
        PROVE  z <= scan.best
    <3>1. z = baseYield
          \/ \E k \in DOMAIN tierTable : /\ scan.lock > 0
                                         /\ scan.lock >= tierTable[k].minLock
                                         /\ z = tierTable[k].yieldBps
      BY <2>2, Zenon DEF QualifyingYields
    <3>2. baseYield \in Nat /\ scan.best \in Nat
      <4>1. /\ baseYield \in Bps
            /\ scan \in [lock : Nat, next : 1..Len(tierTable) + 1, best : Bps, bestLock : Nat]
        BY DEF TierInv
      <4>2. \A b \in Bps : b \in Nat
        BY DEF Bps, BpsDenominator
      <4> QED
        BY <4>1, <4>2
    <3> QED
      BY <1>4, <3>1, <3>2
  <2> QED
    BY <2>1, <2>2 DEF IsBestYield
<1> QED
  BY <1>4, <1>5 DEF GrantOK

(* A new scan has looked at no tier, or skips them all.                    *)
LEMMA ScanBegins ==
    ASSUME tierTable \in Seq([minLock : Nat, yieldBps : Bps]), baseYield \in Bps,
           NEW lock \in Nat, scan = Scan(lock)
    PROVE  /\ scan \in [lock : Nat, next : 1..Len(tierTable) + 1, best : Bps, bestLock : Nat]
           /\ scan.lock = 0 => scan.best = baseYield /\ scan.next = Len(tierTable) + 1
           /\ ScanInv
<1>1. /\ scan \in [lock : Nat, next : 1..Len(tierTable) + 1, best : Bps, bestLock : Nat]
      /\ scan.lock = lock /\ scan.best = baseYield /\ scan.bestLock = 0
      /\ scan.next = IF lock = 0 THEN Len(tierTable) + 1 ELSE 1
  BY DEF Scan
<1>2. scan.lock > 0 => Seen = {}
  BY <1>1 DEF Seen
<1>3. baseYield \in Nat
  BY DEF Bps, BpsDenominator
<1> QED
  BY <1>1, <1>2, <1>3 DEF ScanInv

(* The scan of the tier table grants the best yield a commitment qualifies *)
(* for, and names the shortest lock that earns it, for every valid table.  *)
THEOREM TierScanBest == TierSpec => []BestTierGranted
<1>1. TierInit => TierInv
  <2> SUFFICES ASSUME TierInit
               PROVE  TierInv
    OBVIOUS
  <2>1. /\ tierTable \in Seq([minLock : Nat, yieldBps : Bps])
        /\ baseYield \in Bps
    <3>1. PICK n \in 0..MaxTiers : tierTable \in [1..n -> Tier]
      BY Zenon DEF TierInit
    <3>2. Tier \subseteq [minLock : Nat, yieldBps : Bps]
      BY TierAssumption DEF Tier
    <3>3. n \in Nat
      BY <3>1, TierAssumption
    <3> DEFINE Entry == [minLock : Nat, yieldBps : Bps]
    <3>4. tierTable \in [1..n -> Entry]
      <4> HIDE DEF Entry
      <4>1. Tier \subseteq Entry
        BY <3>2 DEF Entry
      <4> QED
        BY <3>1, <4>1
    <3>5. tierTable \in Seq(Entry)
      <4> HIDE DEF Entry
      <4> QED
        BY <3>3, <3>4
    <3>6. baseYield \in TierYields /\ TierYields \subseteq Bps
      BY TierAssumption, Zenon DEF TierInit
    <3> QED
      BY <3>5, <3>6
  <2>2. PICK lock \in Commitments : scan = Scan(lock)
    BY Zenon DEF TierInit
  <2>3. lock \in Nat
    BY TierAssumption
  <2>4. ValidTiers(tierTable, baseYield) /\ DOMAIN resolutions = {}
    BY DEF TierInit
  <2> QED
    BY <2>1, <2>2, <2>3, <2>4, ScanBegins DEF TierInv
<1>2. TierInv /\ [TierNext]_tierVars => TierInv'
  <2> SUFFICES ASSUME TierInv, [TierNext]_tierVars
               PROVE  TierInv'
    OBVIOUS
  <2>1. CASE Resolve
    <3>1. PICK lock \in Commitments : scan' = Scan(lock)
      BY <2>1, Zenon DEF Resolve
    <3>2. lock \in Nat
      BY TierAssumption
    <3>3. UNCHANGED <<tierTable, baseYield>>
      BY <2>1 DEF Resolve
    <3>4. scan' = Scan(lock)'
      BY <3>1, <3>3 DEF Scan
    <3>5. /\ (tierTable \in Seq([minLock : Nat, yieldBps : Bps]))'
          /\ (baseYield \in Bps)' /\ ValidTiers(tierTable, baseYield)'
      BY <3>3 DEF TierInv
    <3>6. /\ (scan \in [lock : Nat, next : 1..Len(tierTable) + 1, best : Bps, bestLock : Nat])'
          /\ (scan.lock = 0 => scan.best = baseYield /\ scan.next = Len(tierTable) + 1)'
          /\ ScanInv'
      <4>1. /\ scan' \in [lock : Nat, next : 1..Len(tierTable') + 1, best : Bps, bestLock : Nat]
            /\ scan'.lock = lock /\ scan'.best = baseYield' /\ scan'.bestLock = 0
            /\ scan'.next = IF lock = 0 THEN Len(tierTable') + 1 ELSE 1
        BY <3>2, <3>4, <3>5 DEF Scan
      <4>2. scan'.lock > 0 => Seen' = {}
        BY <4>1 DEF Seen
      <4>3. baseYield' \in Nat
        BY <3>5 DEF Bps, BpsDenominator
      <4> QED
        BY <4>1, <4>2, <4>3 DEF ScanInv
    <3>7. \A l \in DOMAIN resolutions' : GrantOK(l, resolutions'[l])
      <4> DEFINE granted == [yieldBps |-> scan.best, matched |-> scan.bestLock]
      <4>1. GrantOK(scan.lock, granted)
        BY <2>1, FinishedGrant DEF Resolve
      <4>2. \A l \in DOMAIN resolutions : GrantOK(l, resolutions[l])
        BY DEF TierInv
      <4>3. resolutions' = [l \in DOMAIN resolutions \cup {scan.lock} |->
                              IF l = scan.lock THEN granted ELSE resolutions[l]]
        BY <2>1 DEF Resolve
      <4> HIDE DEF granted
      <4> QED
        BY <4>1, <4>2, <4>3
    <3>8. (\A l \in DOMAIN resolutions : GrantOK(l, resolutions[l]))'
      BY <3>3, <3>7 DEF GrantOK, IsBestYield, QualifyingYields
    <3> QED
      BY <3>5, <3>6, <3>8 DEF TierInv
  <2>2. CASE UNCHANGED tierVars
    BY <2>2 DEF TierInv, tierVars, ScanInv, Seen, GrantOK, IsBestYield, QualifyingYields
  <2> QED
    BY <2>1, <2>2, TurnKept DEF TierNext
<1>3. TierInv => BestTierGranted
  BY DEF TierInv, GrantOK, BestTierGranted
<1> QED
  BY <1>1, <1>2, <1>3, PTL DEF TierSpec

-----------------------------------------------------------------------------
(* The payout at its width *)

MoneyInv ==
    /\ target \in 1..MaxInvoiceAmount
    /\ yield \in Bps
    /\ fundedTotal \in 0..MaxInt
    /\ contribution \in Nat /\ contribution <= fundedTotal

(* A product that fits is computed, and no other is.                       *)
LEMMA MulChecked ==
    ASSUME NEW a \in Nat, NEW b \in Nat
    PROVE  /\ CheckedMul(a, b) \in {Overflow, a * b}
           /\ a * b <= MaxInt => CheckedMul(a, b) = a * b
<1>1. a # Overflow /\ b # Overflow
  BY DEF Overflow
<1>2. ASSUME b > 0, a > MaxInt \div b
      PROVE  a * b > MaxInt
  <2> DEFINE q == MaxInt \div b
  <2>1. MaxInt \in Nat
    BY MoneyAssumption
  <2>2. q \in Nat /\ MaxInt < b * (q + 1)
    BY <1>2, <2>1
  <2> HIDE DEF q
  <2>3. a >= q + 1
    BY <1>2, <2>2 DEF q
  <2>4. a * b >= (q + 1) * b
    BY <2>2, <2>3
  <2>5. (q + 1) * b = b * (q + 1) /\ a * b \in Nat /\ (q + 1) * b \in Nat
    BY <2>2
  <2> QED
    BY <2>1, <2>2, <2>4, <2>5
<1>3. MaxInt \in Nat /\ a * b \in Nat
  BY MoneyAssumption
<1> QED
  BY <1>1, <1>2, <1>3 DEF CheckedMul

(* So every step answers what unbounded numbers give, or not at all.       *)
LEMMA PoolChecked ==
    ASSUME NEW p \in Nat, NEW rate \in Bps
    PROVE  /\ SettlePool(p, rate) \in Nat
           /\ CheckedPool(p, rate) \in {Overflow, SettlePool(p, rate)}
<1> DEFINE product == CheckedMul(p, rate)
           coupon == CheckedDiv(product, BpsDenominator)
<1>1. rate \in Nat /\ p * rate \in Nat /\ Overflow = -1
  BY DEF Bps, BpsDenominator, Overflow
<1>2. Coupon(p, rate) \in Nat
  BY <1>1 DEF Coupon, BpsDenominator
<1>3. product \in {Overflow, p * rate}
  BY <1>1, MulChecked
<1>4. coupon \in {Overflow, Coupon(p, rate)}
  BY <1>1, <1>3 DEF CheckedDiv, Coupon
<1>5. CheckedPool(p, rate) = CheckedAdd(p, coupon)
  BY DEF CheckedPool
<1> HIDE DEF product, coupon
<1> QED
  BY <1>1, <1>2, <1>4, <1>5 DEF CheckedAdd, SettlePool

(* A checked payout is the payout or a refusal.                            *)
LEMMA PayoutChecked ==
    ASSUME NEW amount \in Nat, NEW p \in Nat, NEW rate \in Bps
    PROVE  CheckedPayout(amount, p, rate) \in {Overflow, GrossPayout(amount, p, rate)}
<1>1. CASE amount = 0 \/ p <= 0
  BY <1>1 DEF CheckedPayout, GrossPayout
<1>2. CASE amount > 0 /\ p > 0
  <2> DEFINE pool == SettlePool(p, rate)
             checked == CheckedPool(p, rate)
             product == CheckedMul(amount, checked)
  <2>1. pool \in Nat /\ checked \in {Overflow, pool}
    BY PoolChecked
  <2>2. CheckedPayout(amount, p, rate) = CheckedDiv(product, p)
    BY <1>2 DEF CheckedPayout
  <2>3. GrossPayout(amount, p, rate) = (amount * pool) \div p
    BY <1>2 DEF GrossPayout
  <2> HIDE DEF pool, checked
  <2>4. product \in {Overflow, amount * pool}
    <3>1. CASE checked = Overflow
      BY <3>1 DEF CheckedMul
    <3>2. CASE checked = pool
      BY <2>1, <3>2, MulChecked
    <3> QED
      BY <2>1, <3>1, <3>2
  <2> HIDE DEF product
  <2>5. amount * pool \in Nat
    BY <2>1
  <2> QED
    BY <2>2, <2>3, <2>4, <2>5 DEF CheckedDiv, Overflow
<1> QED
  BY <1>1, <1>2

(* A principal within the root of the width never overflows.               *)
LEMMA RootSuffices ==
    ASSUME NEW p \in Nat, NEW amount \in Nat, NEW rate \in Bps,
           0 < p, amount <= p, p <= MaxInvoiceAmount, 2 * p <= MaxInt \div p
    PROVE  /\ CheckedPool(p, rate) # Overflow
           /\ CheckedPayout(amount, p, rate) # Overflow
<1>1. MaxInt \in Nat /\ BpsDenominator = 10000 /\ rate \in 0..10000 /\ Overflow = -1
  BY MoneyAssumption DEF Bps, BpsDenominator, Overflow
<1>2. p * 10000 <= MaxInt
  BY <1>1 DEF MaxInvoiceAmount
<1>3. (2 * p) * p <= MaxInt
  <2> DEFINE q == MaxInt \div p
  <2>1. q \in Nat /\ q * p <= MaxInt /\ 2 * p <= q
    BY <1>1
  <2> HIDE DEF q
  <2>2. (2 * p) * p <= q * p
    BY <2>1
  <2>3. (2 * p) * p \in Nat /\ q * p \in Nat
    BY <2>1
  <2> QED
    BY <1>1, <2>1, <2>2, <2>3
<1>4. p * rate \in Nat /\ p * rate <= p * 10000
  BY <1>1
<1>5. CheckedMul(p, rate) = p * rate
  <2> DEFINE m == p * rate
  <2>1. m \in Nat /\ m <= p * 10000
    BY <1>4
  <2>2. rate \in Nat /\ p * 10000 \in Nat
    BY <1>1
  <2> HIDE DEF m
  <2>3. m <= MaxInt
    BY <1>1, <1>2, <2>1, <2>2
  <2> QED
    BY <2>2, <2>3, MulChecked DEF m
<1> DEFINE coupon == (p * rate) \div 10000
           pool == p + coupon
<1>6. coupon \in Nat /\ coupon <= p
  <2> DEFINE m == p * rate
  <2>1. m \in Nat /\ m <= p * 10000
    BY <1>4
  <2> HIDE DEF m
  <2>2. m \div 10000 \in Nat /\ m \div 10000 <= p
    BY <2>1
  <2> QED
    BY <2>2 DEF m
<1>7. CheckedDiv(CheckedMul(p, rate), BpsDenominator) = coupon
  BY <1>1, <1>4, <1>5 DEF CheckedDiv
<1> HIDE DEF coupon
<1>8. pool \in Nat /\ pool <= 2 * p
  BY <1>6
<1>9. 2 * p <= (2 * p) * p
  BY 0 < p
<1>10. CheckedPool(p, rate) = pool
  <2>1. pool <= MaxInt
    BY <1>1, <1>3, <1>8, <1>9
  <2> QED
    BY <1>1, <1>6, <1>7, <2>1 DEF CheckedPool, CheckedAdd
<1> HIDE DEF pool
<1>11. amount * pool \in Nat /\ amount * pool <= (2 * p) * p
  <2>1. amount * pool <= p * pool
    BY <1>8
  <2>2. p * pool <= p * (2 * p)
    BY <1>8
  <2>3. p * (2 * p) = (2 * p) * p /\ amount * pool \in Nat /\ p * pool \in Nat
    BY <1>8
  <2> QED
    BY <2>1, <2>2, <2>3
<1>12. CheckedMul(amount, pool) = amount * pool
  BY <1>1, <1>3, <1>8, <1>11, MulChecked
<1>13. CheckedDiv(CheckedMul(amount, CheckedPool(p, rate)), p) # Overflow
  BY <1>1, <1>10, <1>11, <1>12 DEF CheckedDiv
<1> QED
  BY <1>1, <1>8, <1>10, <1>13 DEF CheckedPayout

(* A payout is exact or refused at every width, and never refused for a    *)
(* principal within the invoice bound whose doubled square fits.           *)
THEOREM PayoutsExact == MoneySpec => []PayoutExactWithinRoot
<1>1. MoneyInit => MoneyInv
  BY MoneyAssumption DEF MoneyInit, MoneyInv
<1>2. MoneyInv /\ [MoneyNext]_moneyVars => MoneyInv'
  <2> SUFFICES ASSUME MoneyInv, [MoneyNext]_moneyVars
               PROVE  MoneyInv'
    OBVIOUS
  <2>1. ASSUME NEW amount \in DepositAmounts, NEW mine \in BOOLEAN, Deposit(amount, mine)
        PROVE  MoneyInv'
    <3>1. amount \in Nat /\ MaxInt \in Nat
      BY MoneyAssumption
    <3>2. /\ fundedTotal' = CheckedAdd(CheckedAdd(fundedTotal, amount), amount)
          /\ fundedTotal' # Overflow
          /\ contribution' \in {contribution, contribution + amount}
          /\ UNCHANGED <<target, yield>>
      BY <2>1, <3>1 DEF Deposit, MoneyInv
    <3>3. fundedTotal' = fundedTotal + amount + amount /\ fundedTotal' <= MaxInt
      BY <3>1, <3>2 DEF CheckedAdd, Overflow, MoneyInv
    <3> QED
      BY <3>1, <3>2, <3>3 DEF MoneyInv
  <2>2. CASE UNCHANGED moneyVars
    BY <2>2 DEF MoneyInv, moneyVars
  <2> QED
    BY <2>1, <2>2 DEF MoneyNext
<1>3. MoneyInv => PayoutExactWithinRoot
  <2> SUFFICES ASSUME MoneyInv, Closed
               PROVE  /\ PayoutView \in {Overflow, GrossPayout(contribution, fundedTotal, yield)}
                      /\ fundedTotal <= MaxInvoiceAmount /\ 2 * fundedTotal <= MaxInt \div fundedTotal
                         => PayoutView # Overflow /\ CheckedPool(fundedTotal, yield) # Overflow
    BY DEF PayoutExactWithinRoot
  <2>1. /\ fundedTotal \in Nat /\ fundedTotal > 0
        /\ contribution \in Nat /\ contribution <= fundedTotal /\ yield \in Bps
    BY DEF MoneyInv, Closed
  <2> QED
    BY <2>1, PayoutChecked, RootSuffices DEF PayoutView
<1> QED
  BY <1>1, <1>2, <1>3, PTL DEF MoneySpec

-----------------------------------------------------------------------------
(* The settlement batch *)

(* g lists what the first m calls of a batch over s leave behind.          *)
Calls(s, m, g) ==
    g = [k \in 0..m |-> IF k = 0 THEN book ELSE SettleOne(g[k - 1], s[k])]

Run(s) == CHOOSE g : Calls(s, Len(s), g)

(* The outcome of a batch is what its last call leaves.                    *)
LEMMA OutcomeUnfolds ==
    ASSUME NEW host, NEW escrows
    PROVE  BatchOutcome(host, escrows) =
              IF Contains(escrows, host) THEN Reverted ELSE Run(escrows)[Len(escrows)]
  BY Zenon DEF BatchOutcome, Run, Calls

(* There is such a list for every batch.                                   *)
LEMMA RunExists ==
    ASSUME NEW n \in Nat, NEW s \in [1..n -> Instances]
    PROVE  Calls(s, n, Run(s))
<1> DEFINE Undone == {m \in 0..n : ~ \E g : Calls(s, m, g)}
<1>1. ASSUME Undone # {}
      PROVE  FALSE
  <2>1. IsFiniteSet(Undone)
    <3>1. IsFiniteSet(0..n) /\ Undone \in SUBSET (0..n)
      BY FS_Interval
    <3> HIDE DEF Undone
    <3> QED
      BY <3>1, FS_Subset
  <2>2. \A m \in Undone : m \in Int
    OBVIOUS
  <2>3. PICK m \in Undone : \A k \in Undone : m <= k
    <3> HIDE DEF Undone
    <3> QED
      BY <1>1, <2>1, <2>2, LeastExists
  <2>4. m # 0
    <3>1. Calls(s, 0, [k \in 0..0 |-> book])
      BY DEF Calls
    <3> QED
      BY <2>3, <3>1
  <2>5. m \in 1..n /\ m - 1 \in 0..n
    BY <2>3, <2>4
  <2>6. PICK g : Calls(s, m - 1, g)
    BY <2>3, <2>5
  <2> DEFINE h == [k \in 0..m |-> IF k = m THEN SettleOne(g[m - 1], s[m]) ELSE g[k]]
  <2>7. \A k \in 0..(m - 1) : g[k] = IF k = 0 THEN book ELSE SettleOne(g[k - 1], s[k])
    BY <2>6 DEF Calls
  <2>8. \A k \in 0..m : h[k] = IF k = 0 THEN book ELSE SettleOne(h[k - 1], s[k])
    BY <2>5, <2>7
  <2>9. h = [k \in 0..m |-> h[k]]
    OBVIOUS
  <2> HIDE DEF h
  <2>10. Calls(s, m, h)
    BY <2>8, <2>9 DEF Calls
  <2> QED
    BY <2>3, <2>10
<1>2. \E g : Calls(s, n, g)
  <2>1. SUFFICES ASSUME ~ \E g : Calls(s, n, g)
                 PROVE  FALSE
    OBVIOUS
  <2>2. n \in Undone
    BY <2>1
  <2> QED
    BY <1>1, <2>2
<1>3. Len(s) = n
  OBVIOUS
<1> QED
  BY <1>2, <1>3 DEF Run

(* What settle looks at and writes, with its types.                        *)
BookEntries == [status : 0..4, maturity : Nat, blocked : BOOLEAN, settledAt : OptionalNat]

(* To settle an entry touches its status and its record only.              *)
LEMMA SettledEntry ==
    ASSUME now \in Nat, NEW entry \in BookEntries
    PROVE  /\ Settled(entry) \in BookEntries
           /\ Settled(entry).status = 2 /\ Settled(entry).settledAt = now
<1> DEFINE d == [entry EXCEPT !.status = 2]
           e == [d EXCEPT !.settledAt = now]
<1>1. d \in BookEntries /\ d.status = 2
  BY DEF BookEntries
<1> HIDE DEF d
<1>2. e \in BookEntries /\ e.status = d.status /\ e.settledAt = now
  BY <1>1 DEF BookEntries, OptionalNat
<1> HIDE DEF e
<1>3. Settled(entry) = e
  BY Zenon DEF Settled, d, e
<1> QED
  BY <1>1, <1>2, <1>3

(* The book when the escrows of S are settled now.                         *)
AllSettled(S) == [e \in Instances |-> IF e \in S THEN Settled(book[e]) ELSE book[e]]

(* What the first k entries of s name.                                     *)
FirstOf(s, k) == {s[j] : j \in 1..k}

(* A batch that is not reverted settles every escrow it names, and had to  *)
(* name each of them once, ready to settle.                                *)
LEMMA BatchSettles ==
    ASSUME now \in Nat, book \in [Instances -> BookEntries],
           NEW n \in Nat, NEW s \in [1..n -> Instances], Run(s)[n] # Reverted
    PROVE  /\ Run(s)[n] = AllSettled(FirstOf(s, n))
           /\ \A k \in 1..n : CanSettle(book[s[k]]) /\ s[k] \notin FirstOf(s, k - 1)
<1> DEFINE r == Run(s)
           Right(k) == r[k] = AllSettled(FirstOf(s, k))
                       /\ \A j \in 1..k : CanSettle(book[s[j]]) /\ s[j] \notin FirstOf(s, j - 1)
           Wrong == {k \in 0..n : r[k] # Reverted /\ ~Right(k)}
<1>1. \A k \in 0..n : r[k] = IF k = 0 THEN book ELSE SettleOne(r[k - 1], s[k])
  <2>1. r = [k \in 0..n |-> IF k = 0 THEN book ELSE SettleOne(r[k - 1], s[k])]
    BY RunExists, Zenon DEF Calls
  <2> HIDE DEF r
  <2> QED
    BY <2>1
<1> HIDE DEF r
<1>2. SUFFICES ASSUME Wrong # {}
               PROVE  FALSE
  <2>1. n \in 0..n /\ r[n] # Reverted
    BY DEF r
  <2> QED
    BY <2>1 DEF r
<1>3. PICK m \in Wrong : \A k \in Wrong : m <= k
  <2>1. IsFiniteSet(0..n) /\ Wrong \in SUBSET (0..n) /\ \A k \in Wrong : k \in Int
    BY FS_Interval
  <2> HIDE DEF Wrong
  <2> QED
    BY <1>2, <2>1, FS_Subset, LeastExists
<1>4. m # 0
  <2>1. Right(0)
    <3>1. r[0] = book /\ FirstOf(s, 0) = {}
      BY <1>1 DEF FirstOf
    <3>2. AllSettled({}) = book
      BY DEF AllSettled
    <3>3. r[0] = AllSettled(FirstOf(s, 0))
      BY <3>1, <3>2, Zenon
    <3> QED
      BY <3>3
  <2> QED
    BY <1>3, <2>1
<1>5. m \in 1..n /\ m - 1 \in 0..n /\ s[m] \in Instances
  BY <1>3, <1>4
<1>6. /\ r[m - 1] # Reverted /\ CanSettle(r[m - 1][s[m]])
      /\ r[m] = [r[m - 1] EXCEPT ![s[m]] = Settled(@)]
  <2>1. r[m] = SettleOne(r[m - 1], s[m]) /\ r[m] # Reverted
    BY <1>1, <1>3, <1>4
  <2> QED
    BY <2>1, Zenon DEF SettleOne
<1>7. Right(m - 1)
  <2>1. m - 1 \notin Wrong
    <3> HIDE DEF Wrong
    <3> QED
      BY <1>3, <1>5
  <2> HIDE DEF Right
  <2> QED
    BY <1>5, <1>6, <2>1
<1>8. s[m] \notin FirstOf(s, m - 1)
  <2>1. ASSUME s[m] \in FirstOf(s, m - 1)
        PROVE  FALSE
    <3>1. r[m - 1][s[m]] = Settled(book[s[m]])
      BY <1>5, <1>7, <2>1 DEF AllSettled
    <3>2. Settled(book[s[m]]).status = 2
      BY <1>5, SettledEntry
    <3> QED
      BY <1>6, <3>1, <3>2 DEF CanSettle
  <2> QED
    BY <2>1
<1>9. r[m - 1][s[m]] = book[s[m]]
  BY <1>5, <1>7, <1>8 DEF AllSettled
<1>10. r[m] = AllSettled(FirstOf(s, m))
  <2>1. FirstOf(s, m) = FirstOf(s, m - 1) \cup {s[m]}
    BY <1>5 DEF FirstOf
  <2>2. r[m - 1] = AllSettled(FirstOf(s, m - 1))
    BY <1>7
  <2>3. r[m] = [AllSettled(FirstOf(s, m - 1)) EXCEPT ![s[m]] = Settled(book[s[m]])]
    BY <1>6, <1>9, <2>2, Zenon
  <2> QED
    BY <1>5, <2>1, <2>3 DEF AllSettled
<1>11. Right(m)
  <2>1. ASSUME NEW j \in 1..m
        PROVE  CanSettle(book[s[j]]) /\ s[j] \notin FirstOf(s, j - 1)
    <3>1. CASE j = m
      BY <1>6, <1>8, <1>9, <3>1
    <3>2. CASE j \in 1..(m - 1)
      BY <1>7, <3>2
    <3> QED
      BY <1>5, <3>1, <3>2
  <2> QED
    BY <1>10, <2>1
<1> QED
  BY <1>3, <1>11

BatchInv ==
    /\ now \in Nat
    /\ book \in [Instances -> BookEntries]
    /\ \E n \in Nat : lastBatch.escrows \in [1..n -> Instances]
    /\ BatchSettlesTogether

(* What was settled together stays so while no entry that is settled moves *)
(* its status or its time.                                                 *)
LEMMA SettledStay ==
    ASSUME BatchInv, now' \in Nat, book' \in [Instances -> BookEntries], UNCHANGED lastBatch,
           \A e \in Instances : book[e].status = 2 => /\ book'[e].status = 2
                                                      /\ book'[e].settledAt = book[e].settledAt
    PROVE  BatchInv'
<1>1. PICK n \in Nat : lastBatch.escrows \in [1..n -> Instances]
  BY DEF BatchInv
<1>2. \A k \in DOMAIN lastBatch.escrows : lastBatch.escrows[k] \in Instances
  BY <1>1
<1>3. BatchSettlesTogether'
  BY <1>2 DEF BatchInv, BatchSettlesTogether
<1> QED
  BY <1>1, <1>3 DEF BatchInv

(* A batch that goes through settles what it names.                        *)
LEMMA SettleAllKeeps ==
    ASSUME BatchInv, UNCHANGED now, NEW host, NEW n \in Nat, NEW s \in [1..n -> Instances],
           SettleAll(host, s)
    PROVE  BatchInv'
<1>1. Len(s) = n /\ DOMAIN s = 1..n
  OBVIOUS
<1>2. Run(s)[n] # Reverted /\ book' = Run(s)[n]
  BY <1>1, OutcomeUnfolds, Zenon DEF SettleAll
<1>3. /\ book' = AllSettled(FirstOf(s, n))
      /\ \A k \in 1..n : s[k] \notin FirstOf(s, k - 1)
  BY <1>2, BatchSettles DEF BatchInv
<1>4. IsInjective(s)
  <2> SUFFICES ASSUME NEW a \in 1..n, NEW b \in 1..n, a < b
               PROVE  s[a] # s[b]
    BY <1>1 DEF IsInjective
  <2>1. s[a] \in FirstOf(s, b - 1)
    BY DEF FirstOf
  <2> QED
    BY <1>3, <2>1
<1>5. \A e \in Instances : Settled(book[e]) \in BookEntries
  BY SettledEntry DEF BatchInv
<1>6. book' \in [Instances -> BookEntries]
  BY <1>3, <1>5 DEF AllSettled, BatchInv
<1>7. ASSUME NEW k \in 1..n
      PROVE  book'[s[k]].status = 2 /\ book'[s[k]].settledAt = now
  <2>1. s[k] \in FirstOf(s, n) /\ s[k] \in Instances
    BY DEF FirstOf
  <2>2. book'[s[k]] = Settled(book[s[k]])
    BY <1>3, <2>1 DEF AllSettled
  <2> QED
    BY <2>1, <2>2, SettledEntry DEF BatchInv
<1>8. lastBatch' = [at |-> now, escrows |-> s]
  BY DEF SettleAll
<1>9. BatchSettlesTogether'
  BY <1>1, <1>4, <1>7, <1>8 DEF BatchSettlesTogether
<1>10. lastBatch'.escrows \in [1..n -> Instances]
  BY <1>8
<1> QED
  BY <1>6, <1>9, <1>10 DEF BatchInv

(* One entry moves; if it was settled, not in what its settlement wrote.   *)
LEMMA OneMoves ==
    ASSUME BatchInv, UNCHANGED <<now, lastBatch>>, NEW e \in Instances, NEW x \in BookEntries,
           book' = [book EXCEPT ![e] = x],
           book[e].status = 2 => x.status = 2 /\ x.settledAt = book[e].settledAt
    PROVE  BatchInv'
<1>1. book \in [Instances -> BookEntries] /\ now \in Nat
  BY DEF BatchInv
<1>2. /\ book' \in [Instances -> BookEntries]
      /\ \A f \in Instances : book'[f] = IF f = e THEN x ELSE book[f]
  BY <1>1
<1>3. \A f \in Instances : book[f].status = 2 => /\ book'[f].status = 2
                                                  /\ book'[f].settledAt = book[f].settledAt
  BY <1>2
<1> QED
  BY <1>1, <1>2, <1>3, SettledStay

(* What an escrow does by itself leaves its settlement as it is.           *)
LEMMA AloneKeeps ==
    ASSUME BatchInv, UNCHANGED <<now, lastBatch>>, NEW e \in Instances, AloneStep(e)
    PROVE  BatchInv'
<1> DEFINE entry == book[e]
<1>1. entry \in BookEntries /\ now \in Nat
  BY DEF BatchInv
<1>2. CASE CanSettle(entry) /\ book' = [book EXCEPT ![e] = Settled(@)]
  <2>1. entry.status # 2 /\ Settled(entry) \in BookEntries
    BY <1>1, <1>2, SettledEntry DEF CanSettle
  <2> QED
    BY <1>2, <2>1, OneMoves
<1>3. ASSUME NEW v \in 0..4, book' = [book EXCEPT ![e].status = v], entry.status = 2 => v = 2
      PROVE  BatchInv'
  <2> DEFINE x == [entry EXCEPT !.status = v]
  <2>1. x \in BookEntries /\ x.status = v /\ x.settledAt = entry.settledAt
    BY <1>1 DEF BookEntries
  <2>2. book' = [book EXCEPT ![e] = x]
    BY <1>3, Zenon
  <2> HIDE DEF x
  <2> QED
    BY <1>3, <2>1, <2>2, OneMoves
<1>4. ASSUME NEW m \in Maturities, book' = [book EXCEPT ![e].maturity = m]
      PROVE  BatchInv'
  <2> DEFINE x == [entry EXCEPT !.maturity = m]
  <2>1. x \in BookEntries /\ x.status = entry.status /\ x.settledAt = entry.settledAt
    BY <1>1, BatchAssumption DEF BookEntries
  <2>2. book' = [book EXCEPT ![e] = x]
    BY <1>4, Zenon
  <2> HIDE DEF x
  <2> QED
    BY <2>1, <2>2, OneMoves
<1> QED
  BY <1>2, <1>3, <1>4 DEF AloneStep

(* Nor does a gate that opens or shuts.                                    *)
LEMMA GateKeeps ==
    ASSUME BatchInv, UNCHANGED <<now, lastBatch>>, NEW e \in Instances, GateMoves(e)
    PROVE  BatchInv'
<1> DEFINE entry == book[e]
           x == [entry EXCEPT !.blocked = ~entry.blocked]
<1>1. entry \in BookEntries
  BY DEF BatchInv
<1>2. x \in BookEntries /\ x.status = entry.status /\ x.settledAt = entry.settledAt
  BY <1>1 DEF BookEntries
<1>3. book' = [book EXCEPT ![e] = x]
  BY Zenon DEF GateMoves
<1> HIDE DEF x
<1> QED
  BY <1>2, <1>3, OneMoves

(* Nor does time, which may lift some of the gates.                        *)
LEMMA LapseKeeps ==
    ASSUME BatchInv, Tick, PausesLapse, UNCHANGED lastBatch
    PROVE  BatchInv'
<1>1. book \in [Instances -> BookEntries] /\ now' \in Nat
  BY DEF BatchInv, Tick
<1>2. PICK S \in SUBSET Instances :
         book' = [e \in Instances |-> IF e \in S THEN [book[e] EXCEPT !.blocked = FALSE]
                                                 ELSE book[e]]
  BY DEF PausesLapse
<1>3. ASSUME NEW e \in Instances
      PROVE  /\ book'[e] \in BookEntries
             /\ book'[e].status = book[e].status /\ book'[e].settledAt = book[e].settledAt
  <2> DEFINE entry == book[e]
             x == [entry EXCEPT !.blocked = FALSE]
  <2>1. entry \in BookEntries
    BY <1>1
  <2>2. x \in BookEntries /\ x.status = entry.status /\ x.settledAt = entry.settledAt
    BY <2>1 DEF BookEntries
  <2>3. book'[e] = IF e \in S THEN x ELSE entry
    BY <1>2, Zenon
  <2> HIDE DEF x
  <2> QED
    BY <2>1, <2>2, <2>3
<1>4. DOMAIN book' = Instances /\ book' = [e \in Instances |-> book'[e]]
  BY <1>2
<1>5. book' \in [Instances -> BookEntries]
  BY <1>3, <1>4
<1> QED
  BY <1>1, <1>3, <1>5, SettledStay

(* The invariant of the batch holds in every reachable state.              *)
LEMMA BatchInvariant == BatchSpec => []BatchInv
<1>1. LedgerInit /\ BatchInit => BatchInv
  <2> SUFFICES ASSUME LedgerInit, BatchInit
               PROVE  BatchInv
    OBVIOUS
  <2>1. \A m \in Maturities : Instance(m) \in BookEntries
    BY BatchAssumption DEF Instance, BookEntries, OptionalNat, Absent
  <2>2. book \in [Instances -> BookEntries]
    BY <2>1 DEF BatchInit
  <2>3. lastBatch.escrows = <<>>
    BY DEF BatchInit
  <2>4. \E n \in Nat : lastBatch.escrows \in [1..n -> Instances]
    <3>1. <<>> \in [1..0 -> Instances]
      OBVIOUS
    <3> QED
      BY <2>3, <3>1
  <2>5. BatchSettlesTogether
    BY <2>3 DEF BatchSettlesTogether, IsInjective
  <2> QED
    BY <2>2, <2>4, <2>5 DEF BatchInv, LedgerInit
<1>2. BatchInv /\ [BatchNext]_<<now, batchVars>> => BatchInv'
  <2> SUFFICES ASSUME BatchInv, [BatchNext]_<<now, batchVars>>
               PROVE  BatchInv'
    OBVIOUS
  <2>1. ASSUME NEW host \in Hosts, NEW escrows \in SeqOf(Instances, SettleBatch + 1),
               SettleAll(host, escrows), UNCHANGED now
        PROVE  BatchInv'
    <3>1. PICK n \in 0..(SettleBatch + 1) : escrows \in [1..n -> Instances]
      BY DEF SeqOf
    <3>2. n \in Nat
      BY BatchAssumption
    <3> QED
      BY <2>1, <3>1, <3>2, SettleAllKeeps
  <2>2. CASE UNCHANGED <<now, batchVars>>
    BY <2>2 DEF batchVars, BatchInv, BatchSettlesTogether
  <2> QED
    BY <2>1, <2>2, AloneKeeps, GateKeeps, LapseKeeps DEF BatchNext
<1> QED
  BY <1>1, <1>2, PTL DEF BatchSpec

(* A batch that goes through has settled every escrow it names, each once  *)
(* and at one time, and nothing that happens to them moves that record.    *)
THEOREM BatchesSettleTogether == BatchSpec => []BatchSettlesTogether
<1>1. BatchInv => BatchSettlesTogether
  BY DEF BatchInv
<1> QED
  BY <1>1, BatchInvariant, PTL

(* A batch is all or nothing, and the order of its entries has no effect:  *)
(* it asks of every escrow it names what its own settle asks, and leaves   *)
(* what settling each of them alone at that time would leave.              *)
THEOREM BatchIsJointSettlement ==
    BatchSpec => [][lastBatch' # lastBatch =>
                       LET S == Range(lastBatch'.escrows)
                       IN  /\ \A e \in S : CanSettle(book[e])
                           /\ book' = AllSettled(S)]_<<now, batchVars>>
<1> DEFINE Joint ==
        lastBatch' # lastBatch => LET S == Range(lastBatch'.escrows)
                                  IN  /\ \A e \in S : CanSettle(book[e])
                                      /\ book' = AllSettled(S)
<1>1. BatchInv /\ BatchNext => Joint
  <2> SUFFICES ASSUME BatchInv, BatchNext, lastBatch' # lastBatch
               PROVE  Joint
    OBVIOUS
  <2>1. PICK host \in Hosts, escrows \in SeqOf(Instances, SettleBatch + 1) :
            SettleAll(host, escrows)
    BY DEF BatchNext
  <2>2. PICK n \in 0..(SettleBatch + 1) : escrows \in [1..n -> Instances]
    BY DEF SeqOf
  <2>3. n \in Nat /\ Len(escrows) = n /\ DOMAIN escrows = 1..n
    BY <2>2, BatchAssumption
  <2>4. Run(escrows)[n] # Reverted /\ book' = Run(escrows)[n] /\ lastBatch'.escrows = escrows
    BY <2>1, <2>3, OutcomeUnfolds, Zenon DEF SettleAll
  <2>5. /\ book' = AllSettled(FirstOf(escrows, n))
        /\ \A k \in 1..n : CanSettle(book[escrows[k]])
    BY <2>2, <2>3, <2>4, BatchSettles DEF BatchInv
  <2>6. FirstOf(escrows, n) = Range(escrows)
    BY <2>3 DEF FirstOf, Range
  <2> QED
    BY <2>3, <2>4, <2>5, <2>6 DEF Range
<1> QED
  BY <1>1, BatchInvariant, PTL DEF BatchSpec, batchVars

=============================================================================
