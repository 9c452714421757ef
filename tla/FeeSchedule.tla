---------------------------- MODULE FeeSchedule -----------------------------
(***************************************************************************)
(* The bounded fee schedule: a pending schedule is in force from its       *)
(* activation ledger on, whether or not anybody has promoted it yet.  The  *)
(* clock of this module counts ledgers (env.ledger().sequence()), of which *)
(* each closes with a tick.                                                *)
(***************************************************************************)
EXTENDS LedgerClock, Sequences

CONSTANTS
    Fees,                 \* fees with their bounds that pass the bounds check
    NoSchedule,           \* the storage key is not set
    StoredNone,           \* the storage key holds an empty option
    LastActivation        \* bound on activation ledgers, for model checking only

Schedules == [fee : Fees, activation : Nat]

ASSUME FeeAssumption == /\ LastActivation \in Nat
                        /\ NoSchedule \notin Schedules
                        /\ StoredNone \notin Schedules \cup {NoSchedule}

VARIABLES
    activeFees,           \* FeeScheduleStorageKey::Active
    pendingFees,          \* FeeScheduleStorageKey::Pending
    previousFees,         \* FeeScheduleStorageKey::Previous
    accepted              \* history: the schedules accepted, in order

scheduleVars == <<activeFees, pendingFees, previousFees>>
feeVars == <<now, scheduleVars, accepted>>

FeeInit ==
    /\ LedgerInit
    /\ activeFees = NoSchedule
    /\ pendingFees = NoSchedule
    /\ previousFees = NoSchedule
    /\ accepted = <<>>

PendingIsDue == pendingFees # NoSchedule /\ pendingFees.activation <= now

(* What a promotion stores.  The predecessor is written as an option, set  *)
(* even when there is none.                                                *)
Promote ==
    /\ activeFees' = pendingFees
    /\ previousFees' = IF activeFees = NoSchedule THEN StoredNone ELSE activeFees

(* activate_fee_schedule, open to anybody; when nothing is due it returns. *)
ActivateFeeSchedule ==
    /\ PendingIsDue
    /\ Promote
    /\ pendingFees' = NoSchedule
    /\ UNCHANGED accepted

\* Mutant: a due schedule that nobody promoted is overwritten.
SubmitFeeScheduleOver(schedule) ==
    /\ schedule.activation > now
    /\ pendingFees = NoSchedule \/ PendingIsDue
    /\ pendingFees' = schedule
    /\ accepted' = Append(accepted, schedule)
    /\ UNCHANGED <<activeFees, previousFees>>

(* submit_fee_schedule promotes a due schedule first.  One that is pending *)
(* and not due is never replaced: the same one again is accepted without   *)
(* effect, another is refused.                                             *)
SubmitFeeSchedule(schedule) ==
    /\ schedule.activation > now
    /\ \/ /\ pendingFees = NoSchedule \/ PendingIsDue
          /\ IF PendingIsDue THEN Promote ELSE UNCHANGED <<activeFees, previousFees>>
          /\ pendingFees' = schedule
          /\ accepted' = Append(accepted, schedule)
       \/ pendingFees = schedule /\ UNCHANGED <<scheduleVars, accepted>>

FeeNext ==
    \/ /\ \/ ActivateFeeSchedule
          \/ \E fee \in Fees, ledger \in 1..LastActivation :
                SubmitFeeSchedule([fee |-> fee, activation |-> ledger])
       /\ UNCHANGED now
    \/ Tick /\ UNCHANGED <<scheduleVars, accepted>>

FeeSpec == FeeInit /\ [][FeeNext]_feeVars

-----------------------------------------------------------------------------
(* get_active_fee_schedule *)
ActiveFeeSchedule == IF PendingIsDue THEN pendingFees ELSE activeFees

(* get_pending_fee_schedule *)
PendingFeeSchedule == IF PendingIsDue THEN NoSchedule ELSE pendingFees

(* get_previous_fee_schedule.  Reading an empty option as a schedule traps: *)
(* the view then gives no answer.                                          *)
PreviousFeeSchedule == IF PendingIsDue THEN activeFees ELSE previousFees

(* The k-th schedule accepted, if there is one. *)
AcceptedAt(k) == IF k \in DOMAIN accepted THEN accepted[k] ELSE NoSchedule

(* What the views answer depends on what was accepted and on the ledger,   *)
(* never on who promoted what and when, late, by a call of its own or with *)
(* the next submission: schedules come due in the order of acceptance, the *)
(* active one is the last one due, the pending one the next, and the       *)
(* previous one the one before, whose view fails to answer only when there *)
(* is no such schedule.                                                    *)
ViewsFollowTimeline ==
    \E n \in 0..Len(accepted) :
        /\ \A k \in DOMAIN accepted : accepted[k].activation <= now <=> k <= n
        /\ ActiveFeeSchedule = AcceptedAt(n)
        /\ PendingFeeSchedule = AcceptedAt(n + 1)
        /\ IF PreviousFeeSchedule = StoredNone
           THEN AcceptedAt(n - 1) = NoSchedule
           ELSE PreviousFeeSchedule = AcceptedAt(n - 1)

=============================================================================
