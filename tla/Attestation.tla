---------------------------- MODULE Attestation -----------------------------
(***************************************************************************)
(* Attestations: a primary hash that is bound once, and a bounded log of   *)
(* digests whose entries are revoked and restored by index.  The admin     *)
(* signs every call that writes; anybody reads, page by page, while the    *)
(* log goes on growing.  Indices count from 0, as callers do.              *)
(***************************************************************************)
EXTENDS Integers, Sequences, SequencesExt

CONSTANTS
    Digests,              \* 32-byte digests
    NoDigest,             \* DataKey::PrimaryAttestationHash is not set
    LogCapacity,          \* MAX_ATTESTATION_APPEND_ENTRIES
    RevokeBatch,          \* MAX_ATTESTATION_REVOKE_BATCH
    ReadPage,             \* MAX_ATTESTATION_READ_PAGE
    ReadLimits            \* page sizes readers ask for

ASSUME AttestationAssumption ==
    /\ NoDigest \notin Digests
    /\ {LogCapacity, RevokeBatch, ReadPage} \subseteq Nat \ {0}
    /\ ReadLimits \subseteq Nat \ {0}

VARIABLES
    primaryHash,          \* DataKey::PrimaryAttestationHash
    appendLog,            \* DataKey::AttestationAppendLog
    revoked,              \* indices with DataKey::AttestationRevoked(index)
    trail,                \* history: att_rev less att_unrev events, by index
    reader                \* history: somebody reading the log page by page

logVars == <<primaryHash, appendLog, revoked>>
attestationVars == <<logVars, trail, reader>>

Indices == 0..LogCapacity - 1

Idle == [reading |-> FALSE, seen |-> <<>>, atStart |-> 0]

AttestationInit ==
    /\ primaryHash = NoDigest
    /\ appendLog = <<>>
    /\ revoked = {}
    /\ trail = [index \in Indices |-> 0]
    /\ reader = Idle

(* require_attestation_index_in_range *)
InRange(index) == index < Len(appendLog)

(* bind_primary_attestation_hash *)
BindPrimaryAttestationHash(digest) ==
    /\ primaryHash = NoDigest
    /\ primaryHash' = digest
    /\ UNCHANGED <<appendLog, revoked, trail>>

(* append_attestation_digest *)
AppendAttestationDigest(digest) ==
    /\ Len(appendLog) < LogCapacity
    /\ appendLog' = Append(appendLog, digest)
    /\ UNCHANGED <<primaryHash, revoked, trail>>

(* revoke_attestation_digest *)
RevokeAttestationDigest(index) ==
    /\ InRange(index)
    /\ index \notin revoked
    /\ revoked' = revoked \cup {index}
    /\ trail' = [trail EXCEPT ![index] = @ + 1]
    /\ UNCHANGED <<primaryHash, appendLog>>

(* The events a batch adds for an index: one for each time it is named.    *)
Named(indices, index) == Cardinality({k \in DOMAIN indices : indices[k] = index})

\* Mutant: every index is checked before any is marked.
RevokeAttestationDigestsUpFront(indices) ==
    /\ Len(indices) \in 1..RevokeBatch
    /\ \A k \in DOMAIN indices : InRange(indices[k]) /\ indices[k] \notin revoked
    /\ revoked' = revoked \cup ToSet(indices)
    /\ trail' = [index \in Indices |-> trail[index] + Named(indices, index)]
    /\ UNCHANGED <<primaryHash, appendLog>>

(* revoke_attestation_digests.  The marks of the entries before it are what *)
(* an entry is checked against, and one failure undoes the batch.           *)
RevokeAttestationDigests(indices) ==
    /\ Len(indices) \in 1..RevokeBatch
    /\ \A k \in DOMAIN indices :
          /\ InRange(indices[k])
          /\ indices[k] \notin revoked \cup ToSet(SubSeq(indices, 1, k - 1))
    /\ revoked' = revoked \cup ToSet(indices)
    /\ trail' = [index \in Indices |-> trail[index] + Named(indices, index)]
    /\ UNCHANGED <<primaryHash, appendLog>>

(* unrevoke_attestation_digest *)
UnrevokeAttestationDigest(index) ==
    /\ InRange(index)
    /\ index \in revoked
    /\ revoked' = revoked \ {index}
    /\ trail' = [trail EXCEPT ![index] = @ - 1]
    /\ UNCHANGED <<primaryHash, appendLog>>

-----------------------------------------------------------------------------
(* The entry get_attestation_digest_at answers for an index in range, and  *)
(* each page repeats.                                                      *)
AttestationDigestAt(index) ==
    [digest |-> appendLog[index + 1], revoked |-> index \in revoked]

\* Mutant: the last entry of a full page is left out.
AttestationPageShort(start, limit) ==
    LET end == (start + (IF limit > ReadPage THEN ReadPage ELSE limit) - 1)
        last == IF end > Len(appendLog) THEN Len(appendLog) ELSE end
    IN  [k \in 1..last - start |-> AttestationDigestAt(start + k - 1)]

(* get_attestation_digests: empty from the end of the log on, and never    *)
(* longer than a page.                                                     *)
AttestationPage(start, limit) ==
    LET end == start + (IF limit > ReadPage THEN ReadPage ELSE limit)
        last == IF end > Len(appendLog) THEN Len(appendLog) ELSE end
    IN  [k \in 1..last - start |-> AttestationDigestAt(start + k - 1)]

(* A reader starts over from index 0. *)
StartReading ==
    /\ reader' = [reading |-> TRUE, seen |-> <<>>, atStart |-> Len(appendLog)]

(* The continuation the view documents: the next page starts behind the    *)
(* last entry seen, and a page shorter than the limit ends the reading.    *)
ReadNextPage(limit) ==
    LET page == AttestationPage(Len(reader.seen), limit)
        full == Len(page) >= limit \/ Len(page) >= ReadPage
    IN  /\ reader.reading
        /\ reader' = [reading |-> full,
                      seen |-> reader.seen \o [k \in DOMAIN page |-> page[k].digest],
                      atStart |-> reader.atStart]

AttestationNext ==
    \/ /\ \/ \E digest \in Digests :
                BindPrimaryAttestationHash(digest) \/ AppendAttestationDigest(digest)
          \/ \E index \in Indices :
                RevokeAttestationDigest(index) \/ UnrevokeAttestationDigest(index)
          \/ \E n \in 0..RevokeBatch + 1 : \E indices \in [1..n -> Indices] :
                RevokeAttestationDigests(indices)
       /\ UNCHANGED reader
    \/ /\ StartReading \/ \E limit \in ReadLimits : ReadNextPage(limit)
       /\ UNCHANGED <<logVars, trail>>

AttestationSpec == AttestationInit /\ [][AttestationNext]_attestationVars

-----------------------------------------------------------------------------
(* The events tell exactly which entries are revoked: whoever adds up the  *)
(* revocations and restorations of an index gets its flag, whether they    *)
(* came one at a time or in batches that name an index twice, too high or  *)
(* revoked before.                                                         *)
RevocationsAudited ==
    \A index \in Indices :
        trail[index] = IF index \in revoked THEN 1 ELSE 0

(* A reader who follows the documented continuation while entries are      *)
(* appended sees a prefix of the log, each entry once and in order, and    *)
(* misses nothing that was there when the reading began.                   *)
ReaderMissesNothing ==
    /\ IsPrefix(reader.seen, appendLog)
    /\ ~reader.reading => Len(reader.seen) >= reader.atStart

=============================================================================
