-------------------------- MODULE GovernanceProofs --------------------------
(***************************************************************************)
(* The clear delay of the legal hold, the transfer of the admin role, the  *)
(* toggle limit of the pause and the fee schedule, for every delay, limit, *)
(* window and schedule, all addresses and clocks.                          *)
(***************************************************************************)
EXTENDS HoldTimelock, AdminHandover, PauseHistory, FeeSchedule,
        FiniteSetTheorems, SequenceTheorems, TLAPS

-----------------------------------------------------------------------------
(* The legal hold *)

(* Every reachable value of the hold's keys has its declared type. *)
THEOREM TimelockTypes == TimelockSpec => []TimelockTypeOK
<1> USE ClearDelayAssumption, MaxTimeAssumption DEF TimelockTypeOK, HoldTypeOK, OptionalNat, Absent
<1>1. TimelockInit => TimelockTypeOK
  <2>1. TimelockInit => legalHold \in BOOLEAN
    BY Zenon DEF TimelockInit, HoldInit
  <2> QED
    BY <2>1 DEF TimelockInit, LedgerInit, HoldInit
<1>2. TimelockTypeOK /\ [TimelockNext]_timelockVars => TimelockTypeOK'
  <2> SUFFICES ASSUME TimelockTypeOK, [TimelockNext]_timelockVars
               PROVE  TimelockTypeOK'
    OBVIOUS
  <2>1. CASE SetLegalHold(TRUE) /\ heldSince' = now /\ UNCHANGED now
    BY <2>1 DEF SetLegalHold
  <2>2. CASE SetLegalHold(FALSE) /\ UNCHANGED <<heldSince, now>>
    BY <2>2 DEF SetLegalHold
  <2>3. CASE RequestClearLegalHold /\ UNCHANGED <<heldSince, now>>
    BY <2>3 DEF RequestClearLegalHold
  <2>4. CASE ClearLegalHoldAfterDelay /\ UNCHANGED <<heldSince, now>>
    BY <2>4 DEF ClearLegalHoldAfterDelay
  <2>5. CASE CancelClearLegalHold /\ UNCHANGED <<heldSince, now>>
    BY <2>5 DEF CancelClearLegalHold
  <2>6. CASE Tick /\ UNCHANGED <<holdVars, heldSince>>
    BY <2>6 DEF Tick, holdVars
  <2>7. CASE UNCHANGED timelockVars
    BY <2>7 DEF timelockVars, holdVars
  <2> QED
    BY <2>1, <2>2, <2>3, <2>4, <2>5, <2>6, <2>7 DEF TimelockNext
<1> QED
  BY <1>1, <1>2, PTL DEF TimelockSpec

(* A clear request pending under a hold is no older than the hold. *)
THEOREM RequestNeverPredatesHold == TimelockSpec => []RequestFollowsHold
<1> USE ClearDelayAssumption DEF TimelockTypeOK, HoldTypeOK, OptionalNat, Absent, RequestFollowsHold
<1>1. TimelockInit => RequestFollowsHold
  BY DEF TimelockInit, LedgerInit, HoldInit
<1>2. TimelockTypeOK /\ RequestFollowsHold /\ [TimelockNext]_timelockVars => RequestFollowsHold'
  <2> SUFFICES ASSUME TimelockTypeOK, RequestFollowsHold, [TimelockNext]_timelockVars
               PROVE  RequestFollowsHold'
    OBVIOUS
  <2>1. CASE SetLegalHold(TRUE) /\ heldSince' = now /\ UNCHANGED now
    BY <2>1 DEF SetLegalHold
  <2>2. CASE SetLegalHold(FALSE) /\ UNCHANGED <<heldSince, now>>
    BY <2>2 DEF SetLegalHold
  <2>3. CASE RequestClearLegalHold /\ UNCHANGED <<heldSince, now>>
    BY <2>3 DEF RequestClearLegalHold
  <2>4. CASE ClearLegalHoldAfterDelay /\ UNCHANGED <<heldSince, now>>
    BY <2>4 DEF ClearLegalHoldAfterDelay
  <2>5. CASE CancelClearLegalHold /\ UNCHANGED <<heldSince, now>>
    BY <2>5 DEF CancelClearLegalHold
  <2>6. CASE Tick /\ UNCHANGED <<holdVars, heldSince>>
    BY <2>6 DEF Tick, holdVars
  <2>7. CASE UNCHANGED timelockVars
    BY <2>7 DEF timelockVars, holdVars
  <2> QED
    BY <2>1, <2>2, <2>3, <2>4, <2>5, <2>6, <2>7 DEF TimelockNext
<1> QED
  BY <1>1, <1>2, TimelockTypes, PTL DEF TimelockSpec

(* No step lifts a hold sooner than the clear delay after it was set. *)
THEOREM HoldOutlastsDelay == TimelockSpec => TimelockServed
<1>1. TimelockTypeOK /\ RequestFollowsHold /\ [TimelockNext]_timelockVars
        => [legalHold /\ ~legalHold' => now >= heldSince + ClearDelay]_timelockVars
  <2> SUFFICES ASSUME TimelockTypeOK, RequestFollowsHold, TimelockNext, legalHold, ~legalHold'
               PROVE  now >= heldSince + ClearDelay
    OBVIOUS
  <2> USE ClearDelayAssumption
      DEF TimelockTypeOK, HoldTypeOK, OptionalNat, Absent, RequestFollowsHold, ClearIsDue
  <2>1. CASE SetLegalHold(FALSE)
    BY <2>1 DEF SetLegalHold
  <2>2. CASE ClearLegalHoldAfterDelay
    BY <2>2 DEF ClearLegalHoldAfterDelay
  <2> QED
    BY <2>1, <2>2 DEF TimelockNext, SetLegalHold, RequestClearLegalHold, CancelClearLegalHold,
                      Tick, holdVars
<1> QED
  BY <1>1, TimelockTypes, RequestNeverPredatesHold, PTL DEF TimelockSpec, TimelockServed

-----------------------------------------------------------------------------
(* The admin role *)

(* Every variable keeps its type through the four calls and the clock.     *)
THEOREM HandoverTypes == HandoverSpec => []HandoverTypeOK
<1> USE HandoverAssumption DEF HandoverTypeOK, OptionalNat, Absent, Grants
<1>1. HandoverInit => HandoverTypeOK
  BY DEF HandoverInit, LedgerInit, NoGrant
<1>2. HandoverTypeOK /\ [HandoverNext]_handoverVars => HandoverTypeOK'
  <2> SUFFICES ASSUME HandoverTypeOK, [HandoverNext]_handoverVars
               PROVE  HandoverTypeOK'
    OBVIOUS
  <2>1. ASSUME UNCHANGED now, NEW signer \in Addresses, NEW nominee \in Addresses,
               NEW window \in Windows, ProposeAdmin(signer, nominee, window)
        PROVE  HandoverTypeOK'
    BY <2>1 DEF ProposeAdmin
  <2>2. ASSUME UNCHANGED now, NEW signer \in Addresses, AcceptAdmin(signer)
        PROVE  HandoverTypeOK'
    BY <2>2 DEF AcceptAdmin, DropProposal
  <2>3. ASSUME UNCHANGED now, NEW signer \in Addresses,
               CancelPendingAdmin(signer) \/ RecoverAdmin(signer)
        PROVE  HandoverTypeOK'
    BY <2>3 DEF CancelPendingAdmin, RecoverAdmin, DropProposal
  <2>4. CASE Tick /\ UNCHANGED <<roleVars, grant>>
    BY <2>4 DEF Tick, roleVars
  <2>5. CASE UNCHANGED handoverVars
    BY <2>5 DEF handoverVars, roleVars
  <2> QED
    BY <2>1, <2>2, <2>3, <2>4, <2>5 DEF HandoverNext
<1> QED
  BY <1>1, <1>2, PTL DEF HandoverSpec

(* A pending proposal is the present admin's last one, whatever proposals  *)
(* were superseded, cancelled, recovered or accepted before.               *)
THEOREM PendingStaysCurrent == HandoverSpec => []PendingIsCurrent
<1> USE HandoverAssumption DEF PendingIsCurrent
<1>1. HandoverInit => PendingIsCurrent
  BY DEF HandoverInit
<1>2. PendingIsCurrent /\ [HandoverNext]_handoverVars => PendingIsCurrent'
  <2> SUFFICES ASSUME PendingIsCurrent, [HandoverNext]_handoverVars
               PROVE  PendingIsCurrent'
    OBVIOUS
  <2>1. ASSUME NEW signer \in Addresses, NEW nominee \in Addresses, NEW window \in Windows,
               ProposeAdmin(signer, nominee, window)
        PROVE  PendingIsCurrent'
    BY <2>1 DEF ProposeAdmin
  <2>2. ASSUME NEW signer \in Addresses,
               AcceptAdmin(signer) \/ CancelPendingAdmin(signer) \/ RecoverAdmin(signer)
        PROVE  PendingIsCurrent'
    BY <2>2 DEF AcceptAdmin, CancelPendingAdmin, RecoverAdmin, DropProposal
  <2>3. CASE UNCHANGED <<roleVars, grant>>
    BY <2>3 DEF roleVars
  <2> QED
    BY <2>1, <2>2, <2>3 DEF HandoverNext, handoverVars
<1> QED
  BY <1>1, <1>2, PTL DEF HandoverSpec

(* Only the acceptance of a pending proposal moves the role, and what is   *)
(* pending is what its holder consented to.                                *)
THEOREM HandoverNeedsConsent == HandoverSpec => HandoverByConsent
<1>1. PendingIsCurrent /\ [HandoverNext]_handoverVars =>
        [admin' # admin =>
            grant.by = admin /\ grant.to = admin' /\ now <= grant.until]_handoverVars
  <2> SUFFICES ASSUME PendingIsCurrent, HandoverNext, admin' # admin
               PROVE  grant.by = admin /\ grant.to = admin' /\ now <= grant.until
    BY DEF handoverVars, roleVars
  <2>1. PICK signer \in Addresses : AcceptAdmin(signer)
    BY DEF HandoverNext, ProposeAdmin, CancelPendingAdmin, RecoverAdmin, roleVars
  <2> QED
    BY <2>1 DEF AcceptAdmin, PendingIsCurrent
<1> QED
  BY <1>1, PendingStaysCurrent, PTL DEF HandoverSpec, HandoverByConsent

-----------------------------------------------------------------------------
(* The pause: counting the entries of a sequence of times that lie in [t, u). *)

InStretch(s, t, u) == {k \in DOMAIN s : t <= s[k] /\ s[k] < u}

Count(s, t, u) == Cardinality(InStretch(s, t, u))

(* A stretch holds finitely many entries, and no more than a stretch that  *)
(* has all of them.                                                        *)
LEMMA CountWithin ==
    ASSUME NEW s \in Seq(Nat), NEW t \in Int, NEW u \in Int, NEW v \in Int, NEW w \in Int,
           \A k \in DOMAIN s : t <= s[k] /\ s[k] < u => v <= s[k] /\ s[k] < w
    PROVE  /\ IsFiniteSet(InStretch(s, t, u))
           /\ Count(s, t, u) \in Nat /\ Count(s, v, w) \in Nat
           /\ Count(s, t, u) <= Count(s, v, w)
<1>1. Len(s) \in Nat /\ DOMAIN s = 1..Len(s)
  BY LenProperties
<1>2. IsFiniteSet(1..Len(s))
  BY <1>1, FS_Interval
<1>3. InStretch(s, t, u) \in SUBSET (1..Len(s)) /\ InStretch(s, v, w) \in SUBSET (1..Len(s))
  BY <1>1 DEF InStretch
<1>4. IsFiniteSet(InStretch(s, t, u)) /\ IsFiniteSet(InStretch(s, v, w))
  BY <1>2, <1>3, FS_Subset
<1>5. InStretch(s, t, u) \in SUBSET InStretch(s, v, w)
  BY DEF InStretch
<1> QED
  BY <1>4, <1>5, FS_Subset, FS_CardinalityType DEF Count

(* A count is a number.                                                    *)
LEMMA CountType ==
    ASSUME NEW s \in Seq(Nat), NEW t \in Int, NEW u \in Int
    PROVE  IsFiniteSet(InStretch(s, t, u)) /\ Count(s, t, u) \in Nat
  BY CountWithin

(* A stretch cut in two.                                                   *)
LEMMA CountSplit ==
    ASSUME NEW s \in Seq(Nat), NEW t \in Int, NEW u \in Int, NEW v \in Int
    PROVE  Count(s, t, u) <= Count(s, t, v) + Count(s, v, u)
<1>1. IsFiniteSet(InStretch(s, t, v)) /\ IsFiniteSet(InStretch(s, v, u))
  BY CountWithin
<1> DEFINE both == InStretch(s, t, v) \cup InStretch(s, v, u)
           common == InStretch(s, t, v) \cap InStretch(s, v, u)
<1>2. IsFiniteSet(both) /\ Cardinality(both) = Count(s, t, v) + Count(s, v, u) - Cardinality(common)
  BY <1>1, FS_Union DEF Count
<1>3. Cardinality(common) \in Nat
  <2>1. common \in SUBSET InStretch(s, t, v)
    OBVIOUS
  <2> QED
    BY <1>1, <2>1, FS_Subset, FS_CardinalityType
<1>4. InStretch(s, t, u) \in SUBSET both
  <2>1. \A k \in DOMAIN s : s[k] \in Int
    BY ElementOfSeq, LenProperties
  <2> QED
    BY <2>1 DEF InStretch
<1>5. Count(s, t, u) <= Cardinality(both)
  BY <1>2, <1>4, FS_Subset DEF Count
<1>6. Count(s, t, u) \in Nat /\ Count(s, t, v) \in Nat /\ Count(s, v, u) \in Nat
  BY CountWithin
<1>7. Cardinality(both) \in Nat
  BY <1>2, FS_CardinalityType
<1> HIDE DEF both, common
<1> QED
  BY <1>2, <1>3, <1>5, <1>6, <1>7

(* One more entry counts in the stretches it lies in.                      *)
LEMMA CountAppend ==
    ASSUME NEW s \in Seq(Nat), NEW x \in Nat, NEW t \in Int, NEW u \in Int
    PROVE  Count(Append(s, x), t, u) = Count(s, t, u) + IF t <= x /\ x < u THEN 1 ELSE 0
<1> DEFINE n == Len(s) + 1
           longer == Append(s, x)
<1>1. /\ Len(s) \in Nat /\ DOMAIN s = 1..Len(s) /\ DOMAIN longer = 1..n
      /\ longer[n] = x /\ \A k \in 1..Len(s) : longer[k] = s[k]
  BY LenProperties, AppendProperties
<1>2. IsFiniteSet(InStretch(s, t, u)) /\ Count(s, t, u) \in Nat
  BY CountType
<1>6. n \notin InStretch(s, t, u)
  BY <1>1 DEF InStretch
<1> HIDE DEF longer
<1>3. CASE t <= x /\ x < u
  <2>1. InStretch(longer, t, u) = InStretch(s, t, u) \cup {n}
    BY <1>1, <1>3 DEF InStretch
  <2> QED
    BY <1>2, <1>3, <1>6, <2>1, FS_AddElement DEF Count, longer
<1>4. CASE ~(t <= x /\ x < u)
  <2>1. InStretch(longer, t, u) = InStretch(s, t, u)
    BY <1>1, <1>4 DEF InStretch
  <2> QED
    BY <1>2, <1>4, <2>1 DEF Count, longer
<1> QED
  BY <1>3, <1>4

(* A stretch without entries.                                              *)
LEMMA CountNone ==
    ASSUME NEW s \in Seq(Nat), NEW t \in Int, NEW u \in Int,
           \A k \in DOMAIN s : ~(t <= s[k] /\ s[k] < u)
    PROVE  Count(s, t, u) = 0
<1>1. InStretch(s, t, u) = {}
  BY DEF InStretch
<1> QED
  BY <1>1, FS_EmptySet DEF Count

(* A toggle at the present time leaves no entry in the future.             *)
LEMMA AppendPresent ==
    ASSUME NEW s \in Seq(Nat), NEW n \in Nat, \A k \in DOMAIN s : s[k] <= n
    PROVE  /\ Append(s, n) \in Seq(Nat)
           /\ \A k \in DOMAIN Append(s, n) : Append(s, n)[k] \in Nat /\ Append(s, n)[k] <= n
<1> DEFINE longer == Append(s, n)
<1>1. /\ Len(s) \in Nat /\ DOMAIN s = 1..Len(s) /\ DOMAIN longer = 1..(Len(s) + 1)
      /\ longer \in Seq(Nat)
      /\ longer[Len(s) + 1] = n /\ \A k \in 1..Len(s) : longer[k] = s[k]
  BY LenProperties, AppendProperties
<1>2. \A k \in 1..Len(s) : s[k] \in Nat
  BY ElementOfSeq
<1> HIDE DEF longer
<1>3. \A k \in 1..(Len(s) + 1) : longer[k] \in Nat /\ longer[k] <= n
  BY <1>1, <1>2
<1> QED
  BY <1>1, <1>3 DEF longer

(* A stretch [t, u) with no entry after n, and the stretch [b, w) before a *)
(* window that began at w: together they hold what [t, u) can.             *)
LEMMA StretchOfTwo ==
    ASSUME NEW s \in Seq(Nat), NEW t \in Int, NEW u \in Int, NEW b \in Int, NEW w \in Int,
           NEW m \in Int, NEW limit \in Nat,
           \A k \in DOMAIN s : s[k] \in Nat /\ s[k] < m,
           b <= t, Count(s, b, w) <= limit, Count(s, w, m) <= limit
    PROVE  Count(s, t, u) <= 2 * limit
<1>1. /\ Count(s, t, u) \in Nat /\ Count(s, t, w) \in Nat /\ Count(s, w, u) \in Nat
      /\ Count(s, b, w) \in Nat /\ Count(s, w, m) \in Nat
  BY CountType
<1>2. Count(s, t, u) <= Count(s, t, w) + Count(s, w, u)
  BY CountSplit
<1>3. Count(s, t, w) <= Count(s, b, w)
  <2>1. \A k \in DOMAIN s : t <= s[k] /\ s[k] < w => b <= s[k] /\ s[k] < w
    OBVIOUS
  <2> QED
    BY <2>1, CountWithin
<1>4. Count(s, w, u) <= Count(s, w, m)
  BY CountWithin
<1> QED
  BY <1>1, <1>2, <1>3, <1>4

(* The bound on all stretches is kept by a toggle at the present time n,   *)
(* when the current window, from w on, and the window's length before it   *)
(* hold no more than the limit: a stretch with the new toggle begins in    *)
(* one or the other.                                                       *)
LEMMA BurstKept ==
    ASSUME NEW s \in Seq(Nat), NEW n \in Nat, NEW w \in Nat, NEW size \in Nat, NEW limit \in Nat,
           w <= n, \A k \in DOMAIN s : s[k] <= n,
           NEW t \in Nat, Count(s, t, t + size) <= 2 * limit,
           Count(Append(s, n), w, n + 1) <= limit,
           Count(Append(s, n), w - size, w) <= limit
    PROVE  Count(Append(s, n), t, t + size) <= 2 * limit
<1> DEFINE longer == Append(s, n)
           u == t + size
           m == n + 1
           b == w - size
<1>1. /\ longer \in Seq(Nat)
      /\ \A k \in DOMAIN longer : longer[k] \in Nat /\ longer[k] <= n
  BY AppendPresent
<1>2. u \in Int /\ m \in Int /\ b \in Int /\ n < m
      /\ (n < u => b <= t)
  OBVIOUS
<1>3. Count(s, t, u) <= 2 * limit /\ Count(longer, w, m) <= limit /\ Count(longer, b, w) <= limit
  OBVIOUS
<1>4. Count(longer, t, u) = Count(s, t, u) + IF t <= n /\ n < u THEN 1 ELSE 0
  BY <1>2, CountAppend
<1>5. Count(s, t, u) \in Nat
  BY <1>2, CountType
<1> HIDE DEF longer, u, m, b
<1>6. ASSUME ~(t <= n /\ n < u)
      PROVE  Count(longer, t, u) <= 2 * limit
  BY <1>3, <1>4, <1>5, <1>6
<1>7. ASSUME t <= n, n < u
      PROVE  Count(longer, t, u) <= 2 * limit
  <2>1. \A k \in DOMAIN longer : longer[k] \in Nat /\ longer[k] < m
    BY <1>1, <1>2
  <2>2. b <= t
    BY <1>2, <1>7
  <2> QED
    BY <1>1, <1>2, <1>3, <2>1, <2>2, StretchOfTwo
<1>8. Count(longer, t, u) <= 2 * limit
  BY <1>6, <1>7
<1> QED
  BY <1>8 DEF longer, u

-----------------------------------------------------------------------------
(* The inductive invariant *)

(* Types of what the limit is made of, and the toggles lie in the past.    *)
RateTypes ==
    /\ now \in Nat
    /\ toggleLimit \in Nat /\ toggleWindow \in Nat
    /\ windowStart \in Nat \cup {Absent}
    /\ windowCount \in Nat
    /\ toggles \in Seq(Nat)
    /\ \A k \in DOMAIN toggles : toggles[k] <= now

(* Under a limit, before the first toggle.                                 *)
NoToggles == toggles = <<>> /\ windowCount = 0

(* Under a limit, with a window: the count is that of the window, no       *)
(* toggle lies beyond it, and as long a stretch before it keeps the limit. *)
WindowOpened ==
    /\ windowStart <= now
    /\ windowCount = Count(toggles, windowStart, now + 1)
    /\ windowCount >= 1 /\ windowCount <= toggleLimit
    /\ \A k \in DOMAIN toggles : toggles[k] < windowStart + toggleWindow
    /\ Count(toggles, windowStart - toggleWindow, windowStart) <= toggleLimit

Bursts == \A t \in Nat : Count(toggles, t, t + toggleWindow) <= 2 * toggleLimit

RateInv ==
    /\ RateTypes
    /\ toggleLimit > 0 => /\ toggleWindow > 0
                          /\ IF windowStart = Absent THEN NoToggles ELSE WindowOpened
                          /\ Bursts

(* Without toggles every stretch is empty.                                 *)
LEMMA NothingYet ==
    ASSUME NEW t \in Int, NEW u \in Int
    PROVE  Count(<<>>, t, u) = 0
<1>1. <<>> \in Seq(Nat) /\ DOMAIN <<>> = {}
  OBVIOUS
<1> QED
  BY <1>1, CountNone

(* What a toggle does to the window: it starts one, or counts in the one   *)
(* that runs.                                                              *)
LEMMA ToggleKinds ==
    ASSUME RateInv, toggleLimit > 0, WithinToggleLimit, CountToggle
    PROVE  /\ UNCHANGED <<toggleLimit, toggleWindow>>
           /\ \/ /\ windowStart' = now /\ windowCount' = 1
                 /\ windowStart = Absent \/ now >= windowStart + toggleWindow
              \/ /\ windowStart' = windowStart /\ windowCount' = windowCount + 1
                 /\ windowStart # Absent /\ now < windowStart + toggleWindow
                 /\ windowCount < toggleLimit
<1>1. now \in Nat /\ toggleWindow \in Nat /\ windowCount \in Nat /\ windowStart \in Nat \cup {Absent}
  BY DEF RateInv, RateTypes
<1>2. CASE WindowElapsed
  BY <1>1, <1>2 DEF WindowElapsed, CountToggle, SpentToggles
<1>3. CASE ~WindowElapsed
  BY <1>1, <1>3 DEF WindowElapsed, CountToggle, SpentToggles, WithinToggleLimit
<1> QED
  BY <1>2, <1>3

(* A toggle that starts a window.                                          *)
LEMMA WindowStarts ==
    ASSUME RateInv, toggleLimit > 0, windowStart = Absent \/ now >= windowStart + toggleWindow
    PROVE  /\ Count(Append(toggles, now), now, now + 1) = 1
           /\ Count(Append(toggles, now), now - toggleWindow, now) <= toggleLimit
<1> DEFINE m == now + 1
           b == now - toggleWindow
<1>1. /\ now \in Nat /\ m \in Int /\ b \in Int /\ now < m
      /\ toggles \in Seq(Nat) /\ \A k \in DOMAIN toggles : toggles[k] <= now
      /\ toggleLimit \in Nat /\ toggleWindow \in Nat /\ toggleWindow > 0
      /\ IF windowStart = Absent THEN NoToggles ELSE WindowOpened
  BY DEF RateInv, RateTypes
<1>2. /\ Count(Append(toggles, now), now, m) = Count(toggles, now, m) + 1
      /\ Count(Append(toggles, now), b, now) = Count(toggles, b, now) + 0
  <2>1. now <= now /\ now < m /\ ~(now < now)
    BY <1>1
  <2> HIDE DEF m, b
  <2> QED
    BY <1>1, <2>1, CountAppend
<1>3. Count(toggles, b, now) \in Nat /\ Count(toggles, now, m) \in Nat
  <2> HIDE DEF m, b
  <2> QED
    BY <1>1, CountType
<1>4. Count(toggles, now, m) = 0 /\ Count(toggles, b, now) <= toggleLimit
  <2>1. CASE windowStart = Absent
    <3>1. toggles = <<>>
      BY <1>1, <2>1 DEF NoToggles
    <3> HIDE DEF m, b
    <3>2. Count(toggles, now, m) = 0 /\ Count(toggles, b, now) = 0
      BY <1>1, <3>1, NothingYet
    <3> QED
      BY <1>1, <3>2
  <2>2. CASE windowStart # Absent
    <3>1. /\ windowStart \in Nat /\ now >= windowStart + toggleWindow
          /\ windowCount = Count(toggles, windowStart, m) /\ windowCount <= toggleLimit
          /\ \A k \in DOMAIN toggles : toggles[k] < windowStart + toggleWindow
      BY <1>1, <2>2 DEF WindowOpened, RateInv, RateTypes
    <3>2. \A k \in DOMAIN toggles : toggles[k] \in Nat
      BY <1>1, ElementOfSeq, LenProperties
    <3>3. \A k \in DOMAIN toggles : ~(now <= toggles[k] /\ toggles[k] < m)
      BY <1>1, <3>1, <3>2
    <3>4. \A k \in DOMAIN toggles :
             b <= toggles[k] /\ toggles[k] < now => windowStart <= toggles[k] /\ toggles[k] < m
      BY <1>1, <3>1, <3>2
    <3>5. windowStart \in Int /\ now \in Int
      BY <1>1, <3>1
    <3> HIDE DEF m, b
    <3>6. Count(toggles, now, m) = 0
      BY <1>1, <3>3, <3>5, CountNone
    <3>7. Count(toggles, b, now) <= Count(toggles, windowStart, m)
      BY <1>1, <3>4, <3>5, CountWithin
    <3>8. windowCount \in Nat
      BY DEF RateInv, RateTypes
    <3> QED
      BY <1>1, <1>3, <3>1, <3>6, <3>7, <3>8
  <2> QED
    BY <2>1, <2>2
<1> HIDE DEF m, b
<1>5. /\ Count(Append(toggles, now), now, m) = 1
      /\ Count(Append(toggles, now), b, now) <= toggleLimit
  BY <1>2, <1>3, <1>4
<1> QED
  BY <1>5 DEF m, b

(* A toggle in a window that runs.                                         *)
LEMMA WindowRuns ==
    ASSUME RateInv, toggleLimit > 0, windowStart # Absent, windowCount < toggleLimit
    PROVE  /\ Count(Append(toggles, now), windowStart, now + 1) = windowCount + 1
           /\ Count(Append(toggles, now), windowStart - toggleWindow, windowStart) <= toggleLimit
<1> DEFINE m == now + 1
           b == windowStart - toggleWindow
<1>1. /\ now \in Nat /\ m \in Int /\ now < m
      /\ windowStart \in Int /\ windowStart <= now /\ b \in Int
      /\ toggles \in Seq(Nat) /\ toggleLimit \in Nat /\ windowCount \in Nat
      /\ windowCount = Count(toggles, windowStart, m)
      /\ Count(toggles, b, windowStart) <= toggleLimit
  BY DEF RateInv, RateTypes, WindowOpened
<1> HIDE DEF m, b
<1>2. Count(toggles, b, windowStart) \in Nat
  BY <1>1, CountType
<1>3. /\ Count(Append(toggles, now), windowStart, m) = Count(toggles, windowStart, m) + 1
      /\ Count(Append(toggles, now), b, windowStart) = Count(toggles, b, windowStart) + 0
  <2>1. ~(now < windowStart)
    BY <1>1
  <2> QED
    BY <1>1, <2>1, CountAppend
<1>4. /\ Count(Append(toggles, now), windowStart, m) = windowCount + 1
      /\ Count(Append(toggles, now), b, windowStart) <= toggleLimit
  BY <1>1, <1>2, <1>3
<1> QED
  BY <1>4 DEF m, b

(* A toggle keeps the invariant.                                           *)
LEMMA ToggleKept ==
    ASSUME RateInv, toggleLimit > 0, WithinToggleLimit, CountToggle,
           toggles' = Append(toggles, now), UNCHANGED now
    PROVE  RateInv'
<1>1. /\ now \in Nat /\ toggles \in Seq(Nat) /\ \A k \in DOMAIN toggles : toggles[k] <= now
      /\ toggleLimit \in Nat /\ toggleWindow \in Nat /\ toggleWindow > 0
      /\ windowStart \in Nat \cup {Absent} /\ windowCount \in Nat
      /\ IF windowStart = Absent THEN NoToggles ELSE WindowOpened
      /\ Bursts
  BY DEF RateInv, RateTypes
<1>2. UNCHANGED <<toggleLimit, toggleWindow>>
  BY ToggleKinds
<1>3. /\ toggles' \in Seq(Nat)
      /\ \A k \in DOMAIN toggles' : toggles'[k] \in Nat /\ toggles'[k] <= now
  BY <1>1, AppendPresent
<1>4. /\ windowStart' \in Nat /\ windowStart' <= now /\ windowCount' \in Nat
      /\ windowCount' >= 1 /\ windowCount' <= toggleLimit
      /\ now < windowStart' + toggleWindow
      /\ Count(toggles', windowStart', now + 1) = windowCount'
      /\ Count(toggles', windowStart' - toggleWindow, windowStart') <= toggleLimit
  <2>1. CASE /\ windowStart' = now /\ windowCount' = 1
             /\ windowStart = Absent \/ now >= windowStart + toggleWindow
    BY <1>1, <2>1, WindowStarts
  <2>2. CASE /\ windowStart' = windowStart /\ windowCount' = windowCount + 1
             /\ windowStart # Absent /\ now < windowStart + toggleWindow
             /\ windowCount < toggleLimit
    <3>1. windowStart \in Nat /\ windowStart <= now
      BY <1>1, <2>2 DEF WindowOpened
    <3> QED
      BY <1>1, <2>2, <3>1, WindowRuns
  <2> QED
    BY <2>1, <2>2, ToggleKinds
<1>5. RateTypes'
  BY <1>1, <1>2, <1>3, <1>4 DEF RateTypes
<1>6. \A k \in DOMAIN toggles' : toggles'[k] < windowStart' + toggleWindow
  <2>0. windowStart' \in Nat /\ toggleWindow \in Nat
    BY <1>1, <1>4, Zenon
  <2>1. windowStart' + toggleWindow \in Int /\ now < windowStart' + toggleWindow
    BY <1>4, <2>0
  <2>2. \A x \in Nat : x <= now => x < windowStart' + toggleWindow
    BY <1>1, <2>1
  <2> QED
    BY <1>3, <2>2
<1>7. WindowOpened'
  BY <1>2, <1>4, <1>6 DEF WindowOpened
<1>8. Bursts'
  <2>1. ASSUME NEW t \in Nat
        PROVE  Count(toggles', t, t + toggleWindow) <= 2 * toggleLimit
    <3>1. Count(toggles, t, t + toggleWindow) <= 2 * toggleLimit
      BY <1>1 DEF Bursts
    <3>2. /\ Count(Append(toggles, now), windowStart', now + 1) <= toggleLimit
          /\ Count(Append(toggles, now), windowStart' - toggleWindow, windowStart') <= toggleLimit
      BY <1>4
    <3> QED
      BY <1>1, <1>4, <3>1, <3>2, BurstKept
  <2> QED
    BY <1>2, <2>1 DEF Bursts
<1>9. windowStart' # Absent
  BY <1>4 DEF Absent
<1> QED
  BY <1>1, <1>2, <1>5, <1>7, <1>8, <1>9 DEF RateInv

(* What does not touch the limit keeps the invariant, while time passes.   *)
LEMMA TimePasses ==
    ASSUME RateInv, UNCHANGED <<rateVars, toggles>>, now' \in {now, now + 1}
    PROVE  RateInv'
<1>1. /\ now \in Nat /\ now' \in Nat /\ now <= now' /\ toggles \in Seq(Nat)
      /\ \A k \in DOMAIN toggles : toggles[k] <= now
  BY DEF RateInv, RateTypes
<1>2. \A k \in DOMAIN toggles : toggles[k] \in Nat
  BY <1>1, ElementOfSeq, LenProperties
<1>3. UNCHANGED <<toggleLimit, toggleWindow, windowStart, windowCount, toggles>>
  BY DEF rateVars
<1>4. RateTypes'
  <2>1. \A k \in DOMAIN toggles : toggles[k] <= now'
    BY <1>1, <1>2
  <2> QED
    BY <1>1, <1>3, <2>1 DEF RateInv, RateTypes
<1>5. ASSUME windowStart # Absent, WindowOpened
      PROVE  WindowOpened'
  <2> DEFINE m == now + 1
             n == now' + 1
  <2>1. windowStart \in Int /\ windowStart <= now' /\ m \in Int /\ n \in Int
    BY <1>1, <1>5 DEF RateInv, RateTypes, WindowOpened
  <2>2. \A k \in DOMAIN toggles : toggles[k] < m /\ toggles[k] < n
    BY <1>1, <1>2
  <2> HIDE DEF m, n
  <2>3. Count(toggles, windowStart, m) = Count(toggles, windowStart, n)
    <3>1. /\ Count(toggles, windowStart, m) <= Count(toggles, windowStart, n)
          /\ Count(toggles, windowStart, n) <= Count(toggles, windowStart, m)
      BY <1>1, <2>1, <2>2, CountWithin
    <3>2. Count(toggles, windowStart, m) \in Nat /\ Count(toggles, windowStart, n) \in Nat
      BY <1>1, <2>1, CountType
    <3> QED
      BY <3>1, <3>2
  <2>4. windowCount = Count(toggles, windowStart, now' + 1)
    BY <1>5, <2>3 DEF WindowOpened, m, n
  <2> QED
    BY <1>3, <1>5, <2>1, <2>4 DEF WindowOpened
<1>6. NoToggles => NoToggles'
  BY <1>3 DEF NoToggles
<1>7. Bursts => Bursts'
  BY <1>3 DEF Bursts
<1> QED
  BY <1>3, <1>4, <1>5, <1>6, <1>7 DEF RateInv

(* A limit that is set, or lifted, starts afresh.                          *)
LEMMA LimitStartsAfresh ==
    ASSUME RateInv, NEW rate \in PauseRateArgs, SetPauseRateLimit(rate[1], rate[2]),
           toggles' = <<>>, UNCHANGED now
    PROVE  RateInv'
<1>1. /\ toggleLimit' \in Nat /\ toggleWindow' \in Nat
      /\ toggleLimit' > 0 => toggleWindow' > 0
      /\ windowStart' = Absent /\ windowCount' = 0 /\ now' = now /\ now \in Nat
  <2>1. rate[1] \in Nat /\ rate[2] \in Nat
    BY PauseArgsAssumption
  <2> QED
    BY <2>1 DEF SetPauseRateLimit, RateInv, RateTypes
<1>2. RateTypes'
  BY <1>1 DEF RateTypes
<1>3. NoToggles'
  BY <1>1 DEF NoToggles
<1>4. Bursts'
  <2>1. ASSUME NEW t \in Nat
        PROVE  Count(toggles', t, t + toggleWindow') <= 2 * toggleLimit'
    <3>1. t + toggleWindow' \in Int
      BY <1>1
    <3>2. Count(<<>>, t, t + toggleWindow') = 0
      BY <3>1, NothingYet
    <3> QED
      BY <1>1, <3>2
  <2> QED
    BY <2>1 DEF Bursts
<1> QED
  BY <1>1, <1>2, <1>3, <1>4 DEF RateInv

(* A toggle under no limit is not recorded.                                *)
LEMMA UnlimitedToggle ==
    ASSUME RateInv, toggleLimit = 0, CountToggle, toggles' = <<>>, UNCHANGED now
    PROVE  RateInv'
  BY DEF RateInv, RateTypes, CountToggle

(* Every step of the pause and its clock keeps the invariant.              *)
LEMMA RateKept == RateInv /\ [HistoryNext]_historyVars => RateInv'
<1> SUFFICES ASSUME RateInv, [HistoryNext]_historyVars
             PROVE  RateInv'
  OBVIOUS
<1>1. toggleLimit \in Nat /\ now \in Nat
  BY DEF RateInv, RateTypes
<1>2. ASSUME NEW scope \in PauseScopeArgs, Pause(scope) \/ Unpause(scope),
             toggles' = IF toggleLimit > 0 THEN Append(toggles, now) ELSE <<>>,
             UNCHANGED now
      PROVE  RateInv'
  <2>1. WithinToggleLimit /\ CountToggle
    BY <1>2 DEF Pause, Unpause
  <2>2. CASE toggleLimit > 0
    BY <1>2, <2>1, <2>2, ToggleKept
  <2>3. CASE toggleLimit = 0
    BY <1>2, <2>1, <2>3, UnlimitedToggle
  <2> QED
    BY <1>1, <2>2, <2>3
<1>3. ASSUME NEW secs \in PauseDurationArgs, SetPauseMaxDuration(secs),
             UNCHANGED <<toggles, now>>
      PROVE  RateInv'
  BY <1>3, TimePasses DEF SetPauseMaxDuration
<1>4. CASE Tick /\ UNCHANGED <<pauseVars, toggles>>
  BY <1>4, TimePasses DEF Tick, pauseVars
<1>5. CASE UNCHANGED historyVars
  BY <1>5, TimePasses DEF historyVars, pauseVars
<1> QED
  BY <1>2, <1>3, <1>4, <1>5, LimitStartsAfresh DEF HistoryNext

(* The invariant holds in every reachable state.                           *)
LEMMA RateInvariant == HistorySpec => []RateInv
<1>1. HistoryInit => RateInv
  BY DEF HistoryInit, LedgerInit, PauseInit, RateInv, RateTypes
<1> QED
  BY <1>1, RateKept, PTL DEF HistorySpec

(* The stored window start and count agree with the toggles that happened. *)
THEOREM WindowIsExact == HistorySpec => []WindowCountsToggles
<1>1. RateInv => WindowCountsToggles
  <2> SUFFICES ASSUME RateInv, toggleLimit > 0, windowStart # Absent
               PROVE  /\ windowCount = TogglesBetween(windowStart, now + 1)
                      /\ windowCount \in 1..toggleLimit
    BY DEF WindowCountsToggles, RateInv, NoToggles
  <2>1. WindowOpened /\ windowCount \in Nat /\ toggleLimit \in Nat
    BY DEF RateInv, RateTypes
  <2> QED
    BY <2>1 DEF WindowOpened, TogglesBetween, Count, InStretch
<1> QED
  BY <1>1, RateInvariant, PTL

(* No stretch as long as a window holds more than two windows' worth of    *)
(* toggles, for every limit and window.                                    *)
THEOREM BurstsAreBounded == HistorySpec => []BurstBounded
<1>1. RateInv => BurstBounded
  <2> SUFFICES ASSUME RateInv, toggleLimit > 0, NEW t \in 0..now
               PROVE  TogglesBetween(t, t + toggleWindow) <= 2 * toggleLimit
    BY DEF BurstBounded
  <2>1. t \in Nat
    BY DEF RateInv, RateTypes
  <2>2. Count(toggles, t, t + toggleWindow) <= 2 * toggleLimit
    BY <2>1 DEF RateInv, Bursts
  <2> QED
    BY <2>2 DEF TogglesBetween, Count, InStretch
<1> QED
  BY <1>1, RateInvariant, PTL

-----------------------------------------------------------------------------
(* The fee schedule *)

(* The keys after m promotions: the m-th schedule accepted is active, its  *)
(* predecessor is the previous one, its successor is pending, and all that *)
(* were promoted were due.                                                 *)
Promoted(m) ==
    /\ activeFees = AcceptedAt(m)
    /\ \/ previousFees = AcceptedAt(m - 1)
       \/ previousFees = StoredNone /\ AcceptedAt(m - 1) = NoSchedule
    /\ pendingFees = AcceptedAt(m + 1)
    /\ \A k \in 1..m : accepted[k].activation <= now

ScheduleInv ==
    /\ accepted \in Seq(Schedules) /\ now \in Nat
    /\ \E m \in Nat : m <= Len(accepted) /\ Len(accepted) <= m + 1 /\ Promoted(m)

(* The key of the pending schedule is set exactly while one of those       *)
(* accepted has not been promoted.                                         *)
LEMMA PendingKey ==
    ASSUME accepted \in Seq(Schedules), NEW m \in Nat, m <= Len(accepted),
           Len(accepted) <= m + 1, Promoted(m)
    PROVE  IF pendingFees = NoSchedule THEN Len(accepted) = m
           ELSE Len(accepted) = m + 1 /\ pendingFees = accepted[m + 1]
<1>1. Len(accepted) \in Nat /\ DOMAIN accepted = 1..Len(accepted)
  OBVIOUS
<1>2. CASE Len(accepted) = m
  BY <1>1, <1>2 DEF Promoted, AcceptedAt
<1>3. CASE Len(accepted) = m + 1
  <2>1. m + 1 \in DOMAIN accepted
    BY <1>1, <1>3
  <2>2. accepted[m + 1] \in Schedules
    BY <2>1
  <2> QED
    BY <1>3, <2>1, <2>2, FeeAssumption DEF Promoted, AcceptedAt
<1>4. Len(accepted) = m \/ Len(accepted) = m + 1
  <2>1. PICK n \in Nat : n = Len(accepted)
    BY <1>1
  <2>2. m <= n /\ n <= m + 1
    BY <2>1
  <2>3. n = m \/ n = m + 1
    BY <2>2
  <2> QED
    BY <2>1, <2>3
<1> QED
  BY <1>2, <1>3, <1>4

(* A promotion moves the keys one schedule on. *)
LEMMA PromotionKept ==
    ASSUME accepted \in Seq(Schedules), now \in Nat, NEW m \in Nat, m <= Len(accepted),
           Len(accepted) <= m + 1, Promoted(m), PendingIsDue, Promote
    PROVE  /\ Len(accepted) = m + 1
           /\ activeFees' = AcceptedAt(m + 1)
           /\ \/ previousFees' = AcceptedAt(m)
              \/ previousFees' = StoredNone /\ AcceptedAt(m) = NoSchedule
           /\ \A k \in 1..(m + 1) : accepted[k].activation <= now
<1>1. Len(accepted) = m + 1 /\ pendingFees = accepted[m + 1]
  BY PendingKey DEF PendingIsDue
<1>2. accepted[m + 1].activation <= now
  BY <1>1 DEF PendingIsDue
<1>3. ASSUME NEW k \in 1..(m + 1)
      PROVE  accepted[k].activation <= now
  BY <1>2 DEF Promoted
<1>4. /\ activeFees' = AcceptedAt(m + 1)
      /\ \/ previousFees' = AcceptedAt(m)
         \/ previousFees' = StoredNone /\ AcceptedAt(m) = NoSchedule
  BY DEF Promote, Promoted
<1> QED
  BY <1>1, <1>3, <1>4

(* What is appended leaves the schedules accepted before where they were. *)
LEMMA AcceptedKept ==
    ASSUME accepted \in Seq(Schedules), NEW s \in Schedules, accepted' = Append(accepted, s),
           NEW n \in Nat, n = Len(accepted)
    PROVE  /\ accepted' \in Seq(Schedules) /\ Len(accepted') = n + 1
           /\ \A k \in Int : k <= n => AcceptedAt(k)' = AcceptedAt(k)
           /\ \A k \in 1..n : accepted'[k] = accepted[k]
           /\ AcceptedAt(n + 1)' = s
<1>1. /\ accepted' \in Seq(Schedules) /\ Len(accepted') = n + 1
      /\ DOMAIN accepted = 1..n /\ DOMAIN accepted' = 1..(n + 1)
      /\ \A k \in 1..n : accepted'[k] = accepted[k]
      /\ accepted'[n + 1] = s
  OBVIOUS
<1>2. ASSUME NEW k \in Int, k <= n
      PROVE  AcceptedAt(k)' = AcceptedAt(k)
  BY <1>1, <1>2 DEF AcceptedAt
<1>3. AcceptedAt(n + 1)' = s
  BY <1>1 DEF AcceptedAt
<1> QED
  BY <1>1, <1>2, <1>3

(* Each call promotes at most one schedule and accepts at most one.        *)
LEMMA ScheduleKept ==
    ASSUME ScheduleInv, [FeeNext]_feeVars
    PROVE  ScheduleInv'
<1>0. accepted \in Seq(Schedules) /\ now \in Nat /\ Len(accepted) \in Nat
  BY DEF ScheduleInv
<1>1. PICK m \in Nat : m <= Len(accepted) /\ Len(accepted) <= m + 1 /\ Promoted(m)
  BY DEF ScheduleInv
<1>2. CASE ActivateFeeSchedule /\ UNCHANGED now
  <2>1. accepted' = accepted /\ now' = now /\ pendingFees' = NoSchedule
    BY <1>2 DEF ActivateFeeSchedule
  <2>2. /\ Len(accepted) = m + 1
        /\ activeFees' = AcceptedAt(m + 1)
        /\ \/ previousFees' = AcceptedAt(m)
           \/ previousFees' = StoredNone /\ AcceptedAt(m) = NoSchedule
        /\ \A k \in 1..(m + 1) : accepted[k].activation <= now
    BY <1>0, <1>1, <1>2, PromotionKept DEF ActivateFeeSchedule
  <2>3. AcceptedAt(m + 2) = NoSchedule
    BY <1>0, <2>2 DEF AcceptedAt
  <2>4. \A k : AcceptedAt(k)' = AcceptedAt(k)
    BY <2>1 DEF AcceptedAt
  <2>5. m + 1 \in Nat /\ (m + 1) - 1 = m /\ (m + 1) + 1 = m + 2
    OBVIOUS
  <2>6. Promoted(m + 1)'
    BY <2>1, <2>2, <2>3, <2>4, <2>5 DEF Promoted
  <2> QED
    BY <1>0, <2>1, <2>2, <2>5, <2>6 DEF ScheduleInv
<1>3. ASSUME NEW s \in Schedules, SubmitFeeSchedule(s), UNCHANGED now
      PROVE  ScheduleInv'
  <2>1. CASE pendingFees = s /\ UNCHANGED <<scheduleVars, accepted>>
    <3>1. \A k : AcceptedAt(k)' = AcceptedAt(k)
      BY <2>1 DEF AcceptedAt
    <3>2. Promoted(m)'
      BY <1>1, <1>3, <2>1, <3>1 DEF Promoted, scheduleVars
    <3> QED
      BY <1>0, <1>1, <1>3, <2>1, <3>2 DEF ScheduleInv
  <2>2. CASE /\ pendingFees = NoSchedule
             /\ UNCHANGED <<activeFees, previousFees>>
             /\ pendingFees' = s /\ accepted' = Append(accepted, s)
    <3>1. Len(accepted) = m
      BY <1>0, <1>1, <2>2, PendingKey
    <3>2. /\ accepted' \in Seq(Schedules) /\ Len(accepted') = m + 1
          /\ AcceptedAt(m)' = AcceptedAt(m) /\ AcceptedAt(m - 1)' = AcceptedAt(m - 1)
          /\ AcceptedAt(m + 1)' = s
          /\ \A k \in 1..m : accepted'[k] = accepted[k]
      <4>1. /\ accepted' \in Seq(Schedules) /\ Len(accepted') = m + 1
            /\ \A k \in Int : k <= m => AcceptedAt(k)' = AcceptedAt(k)
            /\ \A k \in 1..m : accepted'[k] = accepted[k]
            /\ AcceptedAt(m + 1)' = s
        BY <1>0, <2>2, <3>1, AcceptedKept
      <4>2. m \in Int /\ m - 1 \in Int /\ m <= m /\ m - 1 <= m
        OBVIOUS
      <4> QED
        BY <4>1, <4>2
    <3>3. Promoted(m)'
      BY <1>1, <1>3, <2>2, <3>2 DEF Promoted
    <3> QED
      BY <1>0, <1>3, <3>2, <3>3 DEF ScheduleInv
  <2>3. CASE PendingIsDue /\ Promote /\ pendingFees' = s /\ accepted' = Append(accepted, s)
    <3>1. /\ Len(accepted) = m + 1
          /\ activeFees' = AcceptedAt(m + 1)
          /\ \/ previousFees' = AcceptedAt(m)
             \/ previousFees' = StoredNone /\ AcceptedAt(m) = NoSchedule
          /\ \A k \in 1..(m + 1) : accepted[k].activation <= now
      BY <1>0, <1>1, <2>3, PromotionKept
    <3>2. /\ accepted' \in Seq(Schedules) /\ Len(accepted') = m + 2
          /\ AcceptedAt(m + 1)' = AcceptedAt(m + 1) /\ AcceptedAt(m)' = AcceptedAt(m)
          /\ AcceptedAt(m + 2)' = s
          /\ \A k \in 1..(m + 1) : accepted'[k] = accepted[k]
      <4>1. PICK n \in Nat : n = m + 1
        OBVIOUS
      <4>2. /\ accepted' \in Seq(Schedules) /\ Len(accepted') = n + 1
            /\ \A k \in Int : k <= n => AcceptedAt(k)' = AcceptedAt(k)
            /\ \A k \in 1..n : accepted'[k] = accepted[k]
            /\ AcceptedAt(n + 1)' = s
        BY <1>0, <2>3, <3>1, <4>1, AcceptedKept
      <4>3. m \in Int /\ n \in Int /\ m <= n /\ n <= n /\ n + 1 = m + 2
        BY <4>1
      <4> QED
        BY <4>1, <4>2, <4>3
    <3>3. m + 1 \in Nat /\ (m + 1) - 1 = m /\ (m + 1) + 1 = m + 2
      OBVIOUS
    <3>4. Promoted(m + 1)'
      BY <1>3, <2>3, <3>1, <3>2, <3>3 DEF Promoted
    <3> QED
      BY <1>0, <1>3, <3>2, <3>3, <3>4 DEF ScheduleInv
  <2> QED
    BY <1>3, <2>1, <2>2, <2>3 DEF SubmitFeeSchedule, PendingIsDue
<1>4. CASE Tick /\ UNCHANGED <<scheduleVars, accepted>>
  <2>1. now' \in Nat /\ now <= now'
    BY <1>0, <1>4 DEF Tick
  <2>2. \A k : AcceptedAt(k)' = AcceptedAt(k)
    BY <1>4 DEF AcceptedAt
  <2>3. ASSUME NEW k \in 1..m
        PROVE  accepted'[k].activation <= now'
    <3>1. accepted[k] \in Schedules /\ accepted[k].activation <= now
      BY <1>0, <1>1 DEF Promoted
    <3> QED
      BY <1>0, <1>4, <2>1, <3>1 DEF Schedules
  <2>4. Promoted(m)'
    BY <1>1, <1>4, <2>2, <2>3 DEF Promoted, scheduleVars
  <2> QED
    BY <1>0, <1>1, <1>4, <2>1, <2>4 DEF ScheduleInv
<1>5. CASE UNCHANGED feeVars
  <2>1. \A k : AcceptedAt(k)' = AcceptedAt(k)
    BY <1>5 DEF AcceptedAt, feeVars
  <2>2. Promoted(m)'
    BY <1>1, <1>5, <2>1 DEF Promoted, feeVars, scheduleVars
  <2> QED
    BY <1>0, <1>1, <1>5, <2>2 DEF ScheduleInv, feeVars
<1>6. ASSUME NEW fee \in Fees, NEW ledger \in 1..LastActivation
      PROVE  [fee |-> fee, activation |-> ledger] \in Schedules
  BY FeeAssumption DEF Schedules
<1> QED
  BY <1>2, <1>3, <1>4, <1>5, <1>6 DEF FeeNext

(* The fee views follow the timeline of the accepted schedules, whoever    *)
(* promotes them and whenever.                                             *)
THEOREM FeeViewsFollow == FeeSpec => []ViewsFollowTimeline
<1>1. FeeInit => ScheduleInv
  <2> SUFFICES ASSUME FeeInit
               PROVE  ScheduleInv
    OBVIOUS
  <2>1. \A k : AcceptedAt(k) = NoSchedule
    BY DEF FeeInit, AcceptedAt
  <2>2. Promoted(0)
    BY <2>1 DEF FeeInit, Promoted
  <2> QED
    BY <2>2 DEF FeeInit, LedgerInit, ScheduleInv
<1>2. ScheduleInv => ViewsFollowTimeline
  <2> SUFFICES ASSUME ScheduleInv
               PROVE  ViewsFollowTimeline
    OBVIOUS
  <2>0. accepted \in Seq(Schedules) /\ now \in Nat /\ Len(accepted) \in Nat
        /\ DOMAIN accepted = 1..Len(accepted)
    BY DEF ScheduleInv
  <2>1. PICK m \in Nat : m <= Len(accepted) /\ Len(accepted) <= m + 1 /\ Promoted(m)
    BY DEF ScheduleInv
  <2>2. IF pendingFees = NoSchedule THEN Len(accepted) = m
        ELSE Len(accepted) = m + 1 /\ pendingFees = accepted[m + 1]
    BY <2>0, <2>1, PendingKey
  <2>3. \A k : AcceptedAt(k) # StoredNone
    BY <2>0, FeeAssumption DEF AcceptedAt
  <2>4. \A k \in 1..m : accepted[k].activation <= now
    BY <2>1 DEF Promoted
  <2>5. CASE PendingIsDue
    <3>1. Len(accepted) = m + 1 /\ accepted[m + 1].activation <= now
      BY <2>2, <2>5 DEF PendingIsDue
    <3>2. \A k \in DOMAIN accepted : accepted[k].activation <= now <=> k <= m + 1
      BY <2>0, <2>4, <3>1
    <3>3. AcceptedAt(m + 2) = NoSchedule
      BY <2>0, <3>1 DEF AcceptedAt
    <3>4. /\ ActiveFeeSchedule = AcceptedAt(m + 1) /\ PendingFeeSchedule = NoSchedule
          /\ PreviousFeeSchedule = AcceptedAt(m)
      BY <2>1, <2>5 DEF ActiveFeeSchedule, PendingFeeSchedule, PreviousFeeSchedule, Promoted
    <3>5. m + 1 \in 0..Len(accepted) /\ (m + 1) + 1 = m + 2 /\ (m + 1) - 1 = m
      BY <3>1
    <3> QED
      BY <2>3, <3>2, <3>3, <3>4, <3>5 DEF ViewsFollowTimeline
  <2>6. CASE ~PendingIsDue
    <3>1. ASSUME NEW k \in DOMAIN accepted
          PROVE  accepted[k].activation <= now <=> k <= m
      <4>1. CASE k <= m
        BY <2>0, <2>4, <4>1
      <4>2. CASE k = m + 1
        <5>1. Len(accepted) # m
          <6>1. m + 1 <= Len(accepted)
            BY <2>0, <4>2
          <6> QED
            BY <6>1
        <5>2. pendingFees = accepted[k] /\ pendingFees # NoSchedule
          BY <2>2, <4>2, <5>1
        <5> QED
          BY <2>0, <2>6, <4>2, <5>2 DEF PendingIsDue, Schedules
      <4> QED
        BY <2>0, <2>1, <4>1, <4>2
    <3>2. /\ ActiveFeeSchedule = AcceptedAt(m) /\ PendingFeeSchedule = AcceptedAt(m + 1)
          /\ \/ PreviousFeeSchedule = AcceptedAt(m - 1)
             \/ PreviousFeeSchedule = StoredNone /\ AcceptedAt(m - 1) = NoSchedule
      BY <2>1, <2>6 DEF ActiveFeeSchedule, PendingFeeSchedule, PreviousFeeSchedule, Promoted
    <3>3. m \in 0..Len(accepted)
      BY <2>0, <2>1
    <3> QED
      BY <2>3, <3>1, <3>2, <3>3 DEF ViewsFollowTimeline
  <2> QED
    BY <2>5, <2>6
<1>3. ScheduleInv /\ [FeeNext]_feeVars => ScheduleInv'
  BY ScheduleKept
<1> QED
  BY <1>1, <1>2, <1>3, PTL DEF FeeSpec

=============================================================================
